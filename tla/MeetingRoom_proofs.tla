------------------------ MODULE MeetingRoom_proofs ------------------------
(* Theorems about MeetingRoom, for any users, connections and deployment.  *)
EXTENDS MeetingRoom, TLAPS

USE HostAssumption, SocketsAssumption, RedisAssumption
USE DEF Types, Roles, NoRole, Places, Vias, MaybeSocket

(* The parts of handlers keep the types.                                   *)
LEMMA RoleType == \A u \in Users : ResolveRole(u) \in Roles /\ ResolveRole(u) # NoRole
BY DEF ResolveRole

LEMMA TellType ==
    ASSUME TypeOK, NEW s \in Sockets, NEW place \in Places, Tell(s, place)
    PROVE  told' \in [Sockets -> Places]
BY DEF TypeOK, Tell

LEMMA AwaitRouterType ==
    ASSUME TypeOK, NEW s \in Sockets, NEW newcomer \in BOOLEAN, AwaitRouter(s, newcomer)
    PROVE  /\ router' \in {"none", "pending", "ready"}
           /\ awaitingRouter' \subseteq [socket : Sockets, newcomer : BOOLEAN]
           /\ told' \in [Sockets -> Places]
<1>1. told' \in [Sockets -> Places]
  BY TellType DEF AwaitRouter
<1>2. QED
  BY <1>1 DEF TypeOK, AwaitRouter

LEMMA JoinType ==
    ASSUME TypeOK, NEW s \in Sockets, NEW via \in Vias,
           NEW queue \in [Users -> MaybeSocket],
           JoinMeeting(s, via, queue),
           awaitingOwner' \subseteq [socket : Sockets, via : Vias]
    PROVE  TypeOK'
<1> DEFINE u == UserOf[s]
<1>u. u \in Users
  OBVIOUS
<1>1. CASE Refuse(s, queue)
  <2>1. told' \in [Sockets -> Places]
    BY <1>1, TellType DEF Refuse
  <2>2. QED
    BY <1>1, <2>1 DEF Refuse, JoinMeeting, TypeOK, configVars, linkVars, seatVars, Seated
<1>2. CASE Rebind(s, queue)
  <2>1. /\ router' \in {"none", "pending", "ready"}
        /\ awaitingRouter' \subseteq [socket : Sockets, newcomer : BOOLEAN]
        /\ told' \in [Sockets -> Places]
    BY <1>2, AwaitRouterType DEF Rebind
  <2>2. /\ socketId' \in [Users -> MaybeSocket]
        /\ leaveTimer' \in [Users -> MaybeSocket]
        /\ timers' \subseteq Sockets
    BY <1>2 DEF Rebind, TypeOK, CancelledTimers
  <2>3. \A v \in Users : Seated(v)' <=> role'[v] # NoRole
    BY <1>2 DEF Rebind, TypeOK, Seated, Existing
  <2>4. QED
    BY <1>2, <2>1, <2>2, <2>3 DEF Rebind, JoinMeeting, TypeOK, configVars, linkVars
<1>3. CASE Park(s, via, queue)
  <2>1. told' \in [Sockets -> Places]
    BY <1>3, TellType DEF Park
  <2>2. QED
    BY <1>3, <2>1 DEF Park, JoinMeeting, TypeOK, configVars, linkVars, seatVars, Seated
<1>4. CASE TakeSeat(s, queue)
  <2>1. /\ router' \in {"none", "pending", "ready"}
        /\ awaitingRouter' \subseteq [socket : Sockets, newcomer : BOOLEAN]
        /\ told' \in [Sockets -> Places]
    BY <1>4, AwaitRouterType DEF TakeSeat
  <2>2. /\ socketId' \in [Users -> MaybeSocket]
        /\ leaveTimer' \in [Users -> MaybeSocket]
        /\ role' \in [Users -> Roles \cup {NoRole}]
    BY <1>4, RoleType DEF TakeSeat, TypeOK
  <2>3. \A v \in Users : Seated(v)' <=> role'[v] # NoRole
    BY <1>4, RoleType DEF TakeSeat, TypeOK, Seated
  <2>4. QED
    BY <1>4, <2>1, <2>2, <2>3 DEF TakeSeat, JoinMeeting, TypeOK, configVars, linkVars
<1>5. QED
  BY <1>1, <1>2, <1>3, <1>4 DEF JoinMeeting

LEMMA BeginJoinType ==
    ASSUME TypeOK, NEW s \in Sockets, NEW via \in Vias,
           NEW queue \in [Users -> MaybeSocket], BeginJoin(s, via, queue)
    PROVE  TypeOK'
<1>1. CASE RedisEnabled
  <2>1. told' \in [Sockets -> Places]
    BY <1>1, TellType DEF BeginJoin
  <2>2. QED
    BY <1>1, <2>1 DEF BeginJoin, TypeOK, configVars, linkVars, seatVars, Seated
<1>2. CASE ~RedisEnabled
  BY <1>2, JoinType DEF BeginJoin, TypeOK
<1>3. QED
  BY <1>1, <1>2

LEMMA ClearMeetingType ==
    ASSUME TypeOK, NEW seats, ClearMeeting(seats)
    PROVE  /\ socketId' \in [Users -> MaybeSocket]
           /\ role' \in [Users -> Roles \cup {NoRole}]
           /\ leaveTimer' \in [Users -> MaybeSocket]
           /\ waiting' \in [Users -> MaybeSocket]
           /\ router' \in {"none", "pending", "ready"}
           /\ doomed' \subseteq Sockets
           /\ \A u \in Users : Seated(u)' <=> role'[u] # NoRole
BY DEF TypeOK, ClearMeeting, ClosedRouter, Seated

LEMMA VacateType ==
    ASSUME TypeOK, NEW u \in Users, Vacate(u)
    PROVE  /\ socketId' \in [Users -> MaybeSocket]
           /\ role' \in [Users -> Roles \cup {NoRole}]
           /\ leaveTimer' \in [Users -> MaybeSocket]
           /\ \A v \in Users : Seated(v)' <=> role'[v] # NoRole
BY DEF TypeOK, Vacate, Seated

LEMMA FinalizeLeaveType ==
    ASSUME TypeOK, NEW u \in Users, FinalizeLeave(u)
    PROVE  /\ status' \in {"live", "ended", "deleted"}
           /\ socketId' \in [Users -> MaybeSocket]
           /\ role' \in [Users -> Roles \cup {NoRole}]
           /\ leaveTimer' \in [Users -> MaybeSocket]
           /\ waiting' \in [Users -> MaybeSocket]
           /\ router' \in {"none", "pending", "ready"}
           /\ doomed' \subseteq Sockets
           /\ \A v \in Users : Seated(v)' <=> role'[v] # NoRole
<1>1. CASE End([socketId EXCEPT ![u] = NoSocket])
  BY <1>1, ClearMeetingType DEF End
<1>2. CASE Vacate(u) /\ router' = (IF LastOut(u) THEN ClosedRouter ELSE router)
           /\ UNCHANGED <<status, waiting, doomed>>
  BY <1>2, VacateType DEF TypeOK, ClosedRouter
<1>3. QED
  BY <1>1, <1>2 DEF FinalizeLeave

LEMMA HangUpType ==
    ASSUME TypeOK, NEW s \in Sockets, HangUp(s)
    PROVE  /\ sock' \in [Sockets -> {"new", "open", "closed"}]
           /\ told' \in [Sockets -> Places]
           /\ doomed' \subseteq Sockets
BY DEF TypeOK, HangUp

LEMMA DropType ==
    ASSUME TypeOK, NEW s \in Sockets, Drop(s)
    PROVE  TypeOK'
BY DEF TypeOK, Drop, Seated, configVars, asyncVars

LEMMA InitTypes == Init => TypeOK
<1> SUFFICES ASSUME Init PROVE TypeOK
  OBVIOUS
<1>1. waitingRoomEnabled \in BOOLEAN
  BY DEF Init
<1>2. QED
  BY <1>1 DEF Init, TypeOK, Seated

(* Every step keeps the types, whichever handler makes it.                 *)
THEOREM TypeCorrect == Spec => []TypeOK
<1>1. Init => TypeOK
  BY InitTypes
<1>2. TypeOK /\ [Next]_vars => TypeOK'
  <2> SUFFICES ASSUME TypeOK, [Next]_vars PROVE TypeOK'
    OBVIOUS
  <2> USE DEF configVars, seatVars, asyncVars, linkVars
  <2>1. ASSUME NEW s \in Sockets, Connect(s) PROVE TypeOK'
    BY <2>1 DEF TypeOK, Connect, Seated
  <2>2. ASSUME NEW s \in Sockets, JoinRoom(s) PROVE TypeOK'
    BY <2>2, BeginJoinType DEF JoinRoom, TypeOK
  <2>3. ASSUME NEW s \in Sockets, LeaveRoom(s) PROVE TypeOK'
    <3>1. told' \in [Sockets -> Places]
      BY <2>3, TellType DEF LeaveRoom
    <3>2. QED
      BY <2>3, <3>1, FinalizeLeaveType DEF LeaveRoom, TypeOK
  <2>4. ASSUME NEW s \in Sockets, Disconnect(s) \/ ServerDisconnects(s) PROVE TypeOK'
    BY <2>4, DropType DEF Disconnect, ServerDisconnects
  <2>5. ASSUME NEW s \in Sockets, LeaveTimerFires(s) PROVE TypeOK'
    <3>1. CASE Seated(UserOf[s])
      BY <2>5, <3>1, FinalizeLeaveType DEF LeaveTimerFires, TypeOK
    <3>2. CASE ~Seated(UserOf[s])
      BY <2>5, <3>2 DEF LeaveTimerFires, TypeOK, Seated
    <3>3. QED
      BY <3>1, <3>2
  <2>6. ASSUME NEW s \in Sockets, NEW via \in Vias, OwnerConfirmed(s, via) PROVE TypeOK'
    BY <2>6, JoinType DEF OwnerConfirmed, TypeOK
  <2>7. ASSUME NEW s \in Sockets, NEW via \in Vias, OwnerRefused(s, via) PROVE TypeOK'
    BY <2>7 DEF OwnerRefused, TypeOK, Seated
  <2>8. CASE RouterReady
    BY <2>8 DEF RouterReady, TypeOK, Seated
  <2>9. CASE RouterFails
    BY <2>9 DEF RouterFails, TypeOK, Seated
  <2>10. ASSUME NEW r, NEW u \in Users, Kick(r, u) PROVE TypeOK'
    <3>1. socketId[u] \in Sockets
      BY <2>10 DEF Kick, Seated, TypeOK
    <3>2. QED
      BY <2>10, <3>1, HangUpType, VacateType DEF Kick, TypeOK
  <2>11. ASSUME NEW r, NEW u \in Users, Promote(r, u) PROVE TypeOK'
    BY <2>11 DEF Promote, TypeOK, Seated
  <2>12. ASSUME NEW r, NEW u \in Users, Demote(r, u) PROVE TypeOK'
    BY <2>12 DEF Demote, TypeOK, Seated
  <2>13. ASSUME NEW r, NEW b \in BOOLEAN, SetLocked(r, b) PROVE TypeOK'
    BY <2>13 DEF SetLocked, TypeOK, Seated
  <2>14. ASSUME NEW u \in Users, Admit(u) PROVE TypeOK'
    <3> DEFINE queue == [waiting EXCEPT ![u] = NoSocket]
    <3>1. queue \in [Users -> MaybeSocket] /\ waiting[u] \in Sockets
      BY <2>14 DEF Admit, TypeOK
    <3>2. CASE Open(waiting[u])
      BY <2>14, <3>1, <3>2, BeginJoinType DEF Admit
    <3>3. CASE ~Open(waiting[u])
      BY <2>14, <3>1, <3>3 DEF Admit, TypeOK, Seated
    <3>4. QED
      BY <3>2, <3>3
  <2>15. ASSUME NEW u \in Users, Reject(u) PROVE TypeOK'
    <3>1. waiting[u] \in Sockets
      BY <2>15 DEF Reject, TypeOK
    <3>2. QED
      BY <2>15, <3>1, HangUpType DEF Reject, TypeOK, Seated
  <2>16. CASE EndMeeting
    BY <2>16, ClearMeetingType DEF EndMeeting, End, TypeOK
  <2>17. CASE DeleteMeeting
    <3>1. CASE ClearMeeting(socketId)
      BY <2>17, <3>1, ClearMeetingType DEF DeleteMeeting, TypeOK
    <3>2. CASE UNCHANGED <<router, seatVars, waiting, doomed>>
      BY <2>17, <3>2 DEF DeleteMeeting, TypeOK, Seated
    <3>3. QED
      BY <2>17, <3>1, <3>2 DEF DeleteMeeting
  <2>18. CASE UNCHANGED vars
    BY <2>18 DEF vars, TypeOK, Seated
  <2>19. QED
    BY <2>1, <2>2, <2>3, <2>4, <2>5, <2>6, <2>7, <2>8, <2>9, <2>10, <2>11, <2>12,
       <2>13, <2>14, <2>15, <2>16, <2>17, <2>18 DEF Next
<1>3. QED
  BY <1>1, <1>2, PTL DEF Spec

---------------------------------------------------------------------------
(* A join changes the seats and the waiting room of a live meeting only.   *)
LEMMA JoinWhenEnded ==
    ASSUME NEW s \in Sockets, NEW via \in Vias, NEW queue, IsEnded,
           BeginJoin(s, via, queue) \/ JoinMeeting(s, via, queue)
    PROVE  status' = status /\ socketId' = socketId /\ waiting' = queue
BY DEF BeginJoin, JoinMeeting, Refuse, Rebind, Park, TakeSeat, seatVars

LEMMA JoinKeepsStatus ==
    ASSUME NEW s \in Sockets, NEW via \in Vias, NEW queue,
           BeginJoin(s, via, queue) \/ JoinMeeting(s, via, queue)
    PROVE  status' = status
BY DEF BeginJoin, JoinMeeting

LEMMA EndedIsEmptyStep ==
    ASSUME TypeOK, EndedIsEmpty, [Next]_vars
    PROVE  EndedIsEmpty'
<1> USE DEF configVars, seatVars, asyncVars, linkVars
<1>1. ASSUME NEW s \in Sockets, JoinRoom(s) PROVE EndedIsEmpty'
  BY <1>1, JoinWhenEnded, JoinKeepsStatus DEF JoinRoom, EndedIsEmpty, IsEnded, Seated
<1>2. ASSUME NEW s \in Sockets, LeaveRoom(s) PROVE EndedIsEmpty'
  BY <1>2 DEF LeaveRoom, FinalizeLeave, End, ClearMeeting, Vacate, EndedIsEmpty,
              Active, Seated, TypeOK
<1>3. ASSUME NEW s \in Sockets, Disconnect(s) \/ ServerDisconnects(s) PROVE EndedIsEmpty'
  BY <1>3 DEF Disconnect, ServerDisconnects, Drop, EndedIsEmpty, Seated, TypeOK
<1>4. ASSUME NEW s \in Sockets, LeaveTimerFires(s) PROVE EndedIsEmpty'
  BY <1>4 DEF LeaveTimerFires, FinalizeLeave, End, ClearMeeting, Vacate, EndedIsEmpty,
              Seated, TypeOK
<1>5. ASSUME NEW s \in Sockets, NEW via \in Vias, OwnerConfirmed(s, via)
      PROVE  EndedIsEmpty'
  BY <1>5, JoinWhenEnded, JoinKeepsStatus DEF OwnerConfirmed, EndedIsEmpty, IsEnded, Seated
<1>6. ASSUME NEW r, NEW u \in Users, Kick(r, u) PROVE EndedIsEmpty'
  BY <1>6 DEF Kick, Vacate, EndedIsEmpty, Seated, TypeOK
<1>7. ASSUME NEW u \in Users, Admit(u) PROVE EndedIsEmpty'
  <2> DEFINE queue == [waiting EXCEPT ![u] = NoSocket]
  <2>1. waiting[u] \in Sockets
    BY <1>7 DEF Admit, TypeOK
  <2>2. CASE Open(waiting[u])
    <3>1. BeginJoin(waiting[u], "admit", queue)
      BY <1>7, <2>2 DEF Admit
    <3>2. status = "live"
      BY <1>7 DEF Admit, EndedIsEmpty, TypeOK
    <3>3. status' = status
      BY <2>1, <3>1, JoinKeepsStatus
    <3>4. QED
      BY <3>2, <3>3 DEF EndedIsEmpty
  <2>3. CASE ~Open(waiting[u])
    BY <1>7, <2>3 DEF Admit, EndedIsEmpty, Seated, TypeOK
  <2>4. QED
    BY <2>2, <2>3
<1>8. ASSUME NEW u \in Users, Reject(u) PROVE EndedIsEmpty'
  BY <1>8 DEF Reject, EndedIsEmpty, Seated, TypeOK
<1>9. CASE EndMeeting
  BY <1>9 DEF EndMeeting, End, ClearMeeting, EndedIsEmpty, Seated
<1>10. CASE DeleteMeeting
  BY <1>10 DEF DeleteMeeting, ClearMeeting, EndedIsEmpty, Seated
<1>11. ASSUME UNCHANGED <<status, socketId, waiting>> PROVE EndedIsEmpty'
  BY <1>11 DEF EndedIsEmpty, Seated
<1>12. ASSUME NEW s \in Sockets, Connect(s) PROVE EndedIsEmpty'
  BY <1>11, <1>12 DEF Connect
<1>13. ASSUME NEW s \in Sockets, NEW via \in Vias, OwnerRefused(s, via)
       PROVE  EndedIsEmpty'
  BY <1>11, <1>13 DEF OwnerRefused
<1>14. CASE RouterReady \/ RouterFails \/ UNCHANGED vars
  BY <1>11, <1>14 DEF RouterReady, RouterFails, vars
<1>15. ASSUME NEW r, NEW u \in Users, Promote(r, u) \/ Demote(r, u) PROVE EndedIsEmpty'
  BY <1>11, <1>15 DEF Promote, Demote
<1>16. ASSUME NEW r, NEW b \in BOOLEAN, SetLocked(r, b) PROVE EndedIsEmpty'
  BY <1>11, <1>16 DEF SetLocked
<1>17. QED
  BY <1>1, <1>2, <1>3, <1>4, <1>5, <1>6, <1>7, <1>8, <1>9, <1>10, <1>12, <1>13, <1>14,
     <1>15, <1>16 DEF Next

(* Once a meeting is over nobody is seated or waiting in it, whatever      *)
(* joins were in flight when it ended, in either deployment.               *)
THEOREM EndedStaysEmpty == Spec => []EndedIsEmpty
<1>1. Init => EndedIsEmpty
  BY DEF Init, EndedIsEmpty, Seated
<1>2. TypeOK /\ EndedIsEmpty /\ [Next]_vars => EndedIsEmpty'
  BY EndedIsEmptyStep
<1>3. QED
  BY <1>1, <1>2, TypeCorrect, PTL DEF Spec

---------------------------------------------------------------------------
(* What each part of a join or a leave does to the router, as seen by a    *)
(* client that was told it joined.                                         *)
LEMMA JoinRouter ==
    ASSUME TypeOK, JoinedHasRouter, NEW s \in Sockets, NEW via \in Vias, NEW queue,
           BeginJoin(s, via, queue) \/ JoinMeeting(s, via, queue)
    PROVE  JoinedHasRouter'
<1> USE DEF JoinedHasRouter, Active, Open, Tell, TypeOK
<1>1. CASE JoinMeeting(s, via, queue)
  <2>1. CASE Refuse(s, queue) \/ Park(s, via, queue)
    BY <1>1, <2>1 DEF JoinMeeting, Refuse, Park, seatVars, linkVars
  <2>2. CASE Rebind(s, queue)
    BY <1>1, <2>2 DEF JoinMeeting, Rebind, AwaitRouter, linkVars
  <2>3. CASE TakeSeat(s, queue)
    BY <1>1, <2>3 DEF JoinMeeting, TakeSeat, AwaitRouter, linkVars
  <2>4. QED
    BY <1>1, <2>1, <2>2, <2>3 DEF JoinMeeting
<1>2. CASE BeginJoin(s, via, queue) /\ RedisEnabled
  BY <1>2 DEF BeginJoin, seatVars, linkVars
<1>3. QED
  BY <1>1, <1>2 DEF BeginJoin

LEMMA FinalizeLeaveRouter ==
    ASSUME TypeOK, JoinedHasRouter, NEW u \in Users, FinalizeLeave(u), sock' = sock,
           \A s \in Sockets : told'[s] = "joined" => told[s] = "joined"
    PROVE  JoinedHasRouter'
<1> USE DEF JoinedHasRouter, Active, Open, TypeOK
<1>1. CASE type = "one_to_one"
  BY <1>1 DEF FinalizeLeave, End, ClearMeeting
<1>2. CASE type = "group" /\ LastOut(u)
  BY <1>2 DEF FinalizeLeave, Vacate, LastOut, Participants, Seated
<1>3. CASE type = "group" /\ ~LastOut(u)
  BY <1>3 DEF FinalizeLeave, Vacate
<1>4. QED
  BY <1>1, <1>2, <1>3

(* Only a connection that is up holds an answer.                           *)
ToldAreOpen == \A s \in Sockets : told[s] # "nothing" => Open(s)

LEMMA ToldAreOpenStep ==
    ASSUME TypeOK, ToldAreOpen, [Next]_vars
    PROVE  ToldAreOpen'
<1> USE DEF configVars, seatVars, asyncVars, linkVars, ToldAreOpen, Open, Tell, TypeOK
<1>1. ASSUME NEW s \in Sockets, NEW via \in Vias, NEW queue,
             BeginJoin(s, via, queue) \/ JoinMeeting(s, via, queue)
      PROVE  ToldAreOpen'
  BY <1>1 DEF BeginJoin, JoinMeeting, Refuse, Rebind, Park, TakeSeat, AwaitRouter
<1>2. ASSUME NEW s \in Sockets,
             \/ Connect(s) \/ LeaveRoom(s) \/ LeaveTimerFires(s)
             \/ Disconnect(s) \/ ServerDisconnects(s)
      PROVE  ToldAreOpen'
  BY <1>2 DEF Connect, LeaveRoom, LeaveTimerFires, Disconnect, ServerDisconnects, Drop
<1>3. ASSUME NEW s \in Sockets, NEW via \in Vias, OwnerConfirmed(s, via) \/ OwnerRefused(s, via)
      PROVE  ToldAreOpen'
  BY <1>1, <1>3 DEF OwnerConfirmed, OwnerRefused
<1>4. ASSUME NEW u \in Users, Admit(u) PROVE ToldAreOpen'
  BY <1>1, <1>4 DEF Admit
<1>5. ASSUME NEW u \in Users, Reject(u) \/ \E r : Kick(r, u) PROVE ToldAreOpen'
  BY <1>5 DEF Reject, Kick, HangUp
<1>6. ASSUME NEW s \in Sockets, JoinRoom(s) PROVE ToldAreOpen'
  BY <1>1, <1>6 DEF JoinRoom
<1>7. CASE RouterReady \/ RouterFails
  BY <1>7 DEF RouterReady, RouterFails
<1>8. ASSUME NEW r, NEW u \in Users, Promote(r, u) \/ Demote(r, u) PROVE ToldAreOpen'
  BY <1>8 DEF Promote, Demote
<1>9. ASSUME NEW r, NEW b \in BOOLEAN, SetLocked(r, b) PROVE ToldAreOpen'
  BY <1>9 DEF SetLocked
<1>10. CASE EndMeeting \/ DeleteMeeting \/ UNCHANGED vars
  BY <1>10 DEF EndMeeting, DeleteMeeting, vars
<1>11. QED
  BY <1>2, <1>3, <1>4, <1>5, <1>6, <1>7, <1>8, <1>9, <1>10 DEF Next

LEMMA ToldAreOpenHolds == Spec => []ToldAreOpen
<1>1. Init => ToldAreOpen
  BY DEF Init, ToldAreOpen
<1>2. TypeOK /\ ToldAreOpen /\ [Next]_vars => ToldAreOpen'
  BY ToldAreOpenStep
<1>3. QED
  BY <1>1, <1>2, TypeCorrect, PTL DEF Spec

LEMMA JoinedHasRouterStep ==
    ASSUME TypeOK, ToldAreOpen, JoinedHasRouter, [Next]_vars
    PROVE  JoinedHasRouter'
<1> USE DEF configVars, seatVars, asyncVars, linkVars
<1>1. ASSUME NEW s \in Sockets, JoinRoom(s) PROVE JoinedHasRouter'
  BY <1>1, JoinRouter DEF JoinRoom
<1>2. ASSUME NEW s \in Sockets, LeaveRoom(s) PROVE JoinedHasRouter'
  BY <1>2, FinalizeLeaveRouter DEF LeaveRoom, Tell, TypeOK
<1>3. ASSUME NEW s \in Sockets, Disconnect(s) \/ ServerDisconnects(s) PROVE JoinedHasRouter'
  BY <1>3 DEF Disconnect, ServerDisconnects, Drop, JoinedHasRouter, Active, Open, TypeOK
<1>4. ASSUME NEW s \in Sockets, LeaveTimerFires(s) PROVE JoinedHasRouter'
  <2>1. CASE Seated(UserOf[s])
    BY <1>4, <2>1, FinalizeLeaveRouter DEF LeaveTimerFires
  <2>2. CASE ~Seated(UserOf[s])
    BY <1>4, <2>2 DEF LeaveTimerFires, JoinedHasRouter, Active, Open
  <2>3. QED
    BY <2>1, <2>2
<1>5. ASSUME NEW s \in Sockets, NEW via \in Vias, OwnerConfirmed(s, via)
      PROVE  JoinedHasRouter'
  BY <1>5, JoinRouter DEF OwnerConfirmed
<1>6. ASSUME NEW r, NEW u \in Users, Kick(r, u) PROVE JoinedHasRouter'
  BY <1>6 DEF Kick, Vacate, HangUp, JoinedHasRouter, Active, Open, TypeOK
<1>7. ASSUME NEW u \in Users, Admit(u) PROVE JoinedHasRouter'
  <2>1. waiting[u] \in Sockets
    BY <1>7 DEF Admit, TypeOK
  <2>2. CASE Open(waiting[u])
    BY <1>7, <2>1, <2>2, JoinRouter DEF Admit
  <2>3. CASE ~Open(waiting[u])
    BY <1>7, <2>3 DEF Admit, JoinedHasRouter, Active, Open
  <2>4. QED
    BY <2>2, <2>3
<1>8. ASSUME NEW u \in Users, Reject(u) PROVE JoinedHasRouter'
  BY <1>8 DEF Reject, HangUp, JoinedHasRouter, Active, Open, TypeOK
<1>9. CASE EndMeeting \/ DeleteMeeting
  BY <1>9 DEF EndMeeting, DeleteMeeting, End, ClearMeeting, JoinedHasRouter, Active, Open
<1>10. ASSUME UNCHANGED <<router, socketId, told, sock>> PROVE JoinedHasRouter'
  BY <1>10 DEF JoinedHasRouter, Active, Open
<1>11. ASSUME NEW s \in Sockets, Connect(s) PROVE JoinedHasRouter'
  BY <1>11 DEF Connect, JoinedHasRouter, ToldAreOpen, Active, Open, TypeOK
<1>12. ASSUME NEW s \in Sockets, NEW via \in Vias, OwnerRefused(s, via)
       PROVE  JoinedHasRouter'
  BY <1>10, <1>12 DEF OwnerRefused
<1>13. CASE RouterReady
  BY <1>13 DEF RouterReady, JoinedHasRouter
<1>14. CASE RouterFails
  BY <1>14 DEF RouterFails, JoinedHasRouter, Active, Open
<1>15. ASSUME NEW r, NEW u \in Users, Promote(r, u) \/ Demote(r, u) PROVE JoinedHasRouter'
  BY <1>10, <1>15 DEF Promote, Demote
<1>16. ASSUME NEW r, NEW b \in BOOLEAN, SetLocked(r, b) PROVE JoinedHasRouter'
  BY <1>10, <1>16 DEF SetLocked
<1>17. CASE UNCHANGED vars
  BY <1>10, <1>17 DEF vars
<1>18. QED
  BY <1>1, <1>2, <1>3, <1>4, <1>5, <1>6, <1>7, <1>8, <1>9, <1>11, <1>12, <1>13, <1>14,
     <1>15, <1>16, <1>17 DEF Next

(* Nobody that was told it joined, and still sits, is without a router,    *)
(* whatever closed, failed or was re-created meanwhile.                    *)
THEOREM JoinedFindRouter == Spec => []JoinedHasRouter
<1>1. Init => JoinedHasRouter
  BY DEF Init, JoinedHasRouter
<1>2. TypeOK /\ ToldAreOpen /\ JoinedHasRouter /\ [Next]_vars => JoinedHasRouter'
  BY JoinedHasRouterStep
<1>3. QED
  BY <1>1, <1>2, TypeCorrect, ToldAreOpenHolds, PTL DEF Spec

---------------------------------------------------------------------------
(* A locked room admits nobody but its host.                               *)
Shrinks == Participants' \subseteq Participants \cup {Host}

LEMMA JoinShrinks ==
    ASSUME TypeOK, locked, NEW s \in Sockets, NEW via \in Vias, NEW queue,
           BeginJoin(s, via, queue) \/ JoinMeeting(s, via, queue)
    PROVE  Shrinks
<1> USE DEF Shrinks, Participants, Seated, seatVars, TypeOK
<1>1. CASE JoinMeeting(s, via, queue)
  <2>1. CASE Refuse(s, queue) \/ Park(s, via, queue)
    BY <2>1 DEF Refuse, Park
  <2>2. CASE Rebind(s, queue)
    BY <2>2 DEF Rebind, Existing
  <2>3. CASE TakeSeat(s, queue)
    BY <2>3 DEF TakeSeat, LockedOut, ResolveRole
  <2>4. QED
    BY <1>1, <2>1, <2>2, <2>3 DEF JoinMeeting
<1>2. CASE BeginJoin(s, via, queue) /\ RedisEnabled
  BY <1>2 DEF BeginJoin
<1>3. QED
  BY <1>1, <1>2 DEF BeginJoin

LEMMA LockedStep ==
    ASSUME TypeOK, [Next]_vars, locked
    PROVE  Shrinks
<1> USE DEF configVars, seatVars, asyncVars, linkVars
<1>1. ASSUME NEW s \in Sockets, JoinRoom(s) PROVE Shrinks
  BY <1>1, JoinShrinks DEF JoinRoom
<1>2. ASSUME NEW s \in Sockets, NEW via \in Vias, OwnerConfirmed(s, via) PROVE Shrinks
  BY <1>2, JoinShrinks DEF OwnerConfirmed
<1>3. ASSUME NEW u \in Users, FinalizeLeave(u) \/ Vacate(u) PROVE Shrinks
  BY <1>3 DEF FinalizeLeave, Vacate, End, ClearMeeting, Shrinks, Participants, Seated, TypeOK
<1>4. ASSUME socketId' = socketId PROVE Shrinks
  BY <1>4 DEF Shrinks, Participants, Seated
<1>5. ASSUME NEW s \in Sockets, LeaveRoom(s) \/ LeaveTimerFires(s) PROVE Shrinks
  BY <1>3, <1>4, <1>5 DEF LeaveRoom, LeaveTimerFires
<1>6. ASSUME NEW s \in Sockets, Connect(s) \/ Disconnect(s) \/ ServerDisconnects(s)
      PROVE  Shrinks
  BY <1>4, <1>6 DEF Connect, Disconnect, ServerDisconnects, Drop
<1>7. ASSUME NEW s \in Sockets, NEW via \in Vias, OwnerRefused(s, via) PROVE Shrinks
  BY <1>4, <1>7 DEF OwnerRefused
<1>8. ASSUME NEW r, NEW u \in Users, Kick(r, u) \/ Promote(r, u) \/ Demote(r, u)
      PROVE  Shrinks
  BY <1>3, <1>4, <1>8 DEF Kick, Promote, Demote
<1>9. ASSUME NEW u \in Users, Admit(u) PROVE Shrinks
  <2>1. waiting[u] \in Sockets
    BY <1>9 DEF Admit, TypeOK
  <2>2. CASE Open(waiting[u])
    BY <1>9, <2>1, <2>2, JoinShrinks DEF Admit
  <2>3. CASE ~Open(waiting[u])
    BY <1>4, <1>9, <2>3 DEF Admit
  <2>4. QED
    BY <2>2, <2>3
<1>10. ASSUME NEW u \in Users, Reject(u) PROVE Shrinks
  BY <1>4, <1>10 DEF Reject
<1>11. CASE EndMeeting \/ DeleteMeeting
  BY <1>11 DEF EndMeeting, DeleteMeeting, End, ClearMeeting, Shrinks, Participants, Seated
<1>12. CASE RouterReady \/ RouterFails \/ UNCHANGED vars
  BY <1>4, <1>12 DEF RouterReady, RouterFails, vars
<1>13. ASSUME NEW r, NEW b \in BOOLEAN, SetLocked(r, b) PROVE Shrinks
  BY <1>4, <1>13 DEF SetLocked
<1>14. QED
  BY <1>1, <1>2, <1>5, <1>6, <1>7, <1>8, <1>9, <1>10, <1>11, <1>12, <1>13 DEF Next

(* No step of a locked meeting seats anyone but its host, in particular    *)
(* not a join that was already past its ownership lookup when it was       *)
(* locked, nor an admit.                                                   *)
THEOREM LockKeepsOut == Spec => LockedRoomOnlyShrinks
<1>1. TypeOK /\ [Next]_vars
        => [locked /\ locked' => Participants' \subseteq Participants \cup {Host}]_vars
  BY LockedStep DEF Shrinks
<1>2. QED
  BY <1>1, TypeCorrect, PTL DEF Spec, LockedRoomOnlyShrinks

---------------------------------------------------------------------------
(* Who awaits the router awaits a creation that is under way.              *)
LEMMA NoJoinIsForgottenStep ==
    ASSUME NoJoinIsForgotten, [Next]_vars
    PROVE  NoJoinIsForgotten'
<1> USE DEF NoJoinIsForgotten, asyncVars
<1>c. ClosedRouter = "pending" <=> router = "pending"
  BY DEF ClosedRouter
<1>s. ASSUME awaitingRouter' = awaitingRouter, router' \in {router, ClosedRouter}
      PROVE  NoJoinIsForgotten'
  BY <1>c, <1>s
<1>j. ASSUME NEW s, NEW via, NEW queue,
             BeginJoin(s, via, queue) \/ JoinMeeting(s, via, queue)
      PROVE  NoJoinIsForgotten'
  <2>1. CASE BeginJoin(s, via, queue) /\ RedisEnabled
    BY <1>s, <2>1 DEF BeginJoin
  <2>2. CASE Refuse(s, queue) \/ Park(s, via, queue)
    BY <1>s, <2>2 DEF Refuse, Park
  <2>3. CASE Rebind(s, queue) \/ TakeSeat(s, queue)
    BY <2>3 DEF Rebind, TakeSeat, AwaitRouter
  <2>4. QED
    BY <1>j, <2>1, <2>2, <2>3 DEF BeginJoin, JoinMeeting
<1>1. ASSUME NEW s \in Sockets, JoinRoom(s) PROVE NoJoinIsForgotten'
  BY <1>j, <1>1 DEF JoinRoom
<1>2. ASSUME NEW s \in Sockets, NEW via \in Vias, OwnerConfirmed(s, via) PROVE NoJoinIsForgotten'
  BY <1>j, <1>2 DEF OwnerConfirmed
<1>3. ASSUME NEW s \in Sockets, LeaveRoom(s) \/ LeaveTimerFires(s) PROVE NoJoinIsForgotten'
  BY <1>s, <1>3 DEF LeaveRoom, LeaveTimerFires, FinalizeLeave, End, ClearMeeting
<1>4. CASE RouterReady \/ RouterFails
  BY <1>4 DEF RouterReady, RouterFails
<1>5. CASE EndMeeting \/ DeleteMeeting
  BY <1>s, <1>5 DEF EndMeeting, DeleteMeeting, End, ClearMeeting
<1>6. ASSUME NEW u \in Users, Admit(u) PROVE NoJoinIsForgotten'
  <2>1. CASE Open(waiting[u])
    BY <1>j, <1>6, <2>1 DEF Admit
  <2>2. CASE ~Open(waiting[u])
    BY <1>s, <1>6, <2>2 DEF Admit
  <2>3. QED
    BY <2>1, <2>2
<1>7. ASSUME NEW s \in Sockets, Connect(s) \/ Disconnect(s) \/ ServerDisconnects(s)
      PROVE  NoJoinIsForgotten'
  BY <1>s, <1>7 DEF Connect, Disconnect, ServerDisconnects, Drop
<1>8. ASSUME NEW s \in Sockets, NEW via \in Vias, OwnerRefused(s, via) PROVE NoJoinIsForgotten'
  BY <1>s, <1>8 DEF OwnerRefused
<1>9. ASSUME NEW r, NEW u \in Users, Kick(r, u) \/ Promote(r, u) \/ Demote(r, u) \/ Reject(u)
      PROVE  NoJoinIsForgotten'
  BY <1>s, <1>9 DEF Kick, Promote, Demote, Reject
<1>10. ASSUME NEW r, NEW b \in BOOLEAN, SetLocked(r, b) PROVE NoJoinIsForgotten'
  BY <1>s, <1>10 DEF SetLocked
<1>11. CASE UNCHANGED vars
  BY <1>s, <1>11 DEF vars
<1>12. QED
  BY <1>1, <1>2, <1>3, <1>4, <1>5, <1>6, <1>7, <1>8, <1>9, <1>10, <1>11 DEF Next

(* No leave, kick, end or drop takes the creation away from under the      *)
(* joins that await it, and none is added to a creation that has ended:    *)
(* RouterReady or RouterFails answers them all.                            *)
THEOREM JoinsAreRemembered == Spec => []NoJoinIsForgotten
<1>1. Init => NoJoinIsForgotten
  BY DEF Init, NoJoinIsForgotten
<1>2. NoJoinIsForgotten /\ [Next]_vars => NoJoinIsForgotten'
  BY NoJoinIsForgottenStep
<1>3. QED
  BY <1>1, <1>2, PTL DEF Spec

---------------------------------------------------------------------------
(* The room takes its router only through the steps of RouterContract.     *)
RouterMoves ==
    /\ ~(router = "none" /\ router' = "ready")
    /\ ~(router = "ready" /\ router' = "pending")

LEMMA MovesAre ==
    ASSUME TypeOK, TypeOK', RouterMoves
    PROVE  RoomRouter!ContractNext
<1>1. ASSUME NEW m \in {"this"}
      PROVE  \/ [n \in {"this"} |-> router]'[m] = [n \in {"this"} |-> router][m]
             \/ RoomRouter!Step(m)
  BY DEF RouterMoves, TypeOK, RoomRouter!Step, RoomRouter!Becomes
<1>2. QED
  BY <1>1 DEF RoomRouter!ContractNext

LEMMA RouterStep ==
    ASSUME TypeOK, [Next]_vars
    PROVE  RouterMoves
<1> USE DEF seatVars
<1>1. ASSUME NEW s \in Sockets, NEW via \in Vias, NEW queue,
             BeginJoin(s, via, queue) \/ JoinMeeting(s, via, queue)
      PROVE  RouterMoves
  BY <1>1 DEF BeginJoin, JoinMeeting, Refuse, Rebind, Park, TakeSeat, AwaitRouter, RouterMoves
<1>2. ClosedRouter \in {router, "none"}
  BY DEF ClosedRouter
<1>3. ASSUME NEW s \in Sockets, LeaveRoom(s) \/ LeaveTimerFires(s) PROVE RouterMoves
  <2>1. ASSUME NEW u, FinalizeLeave(u) PROVE router' \in {router, "none"}
    BY <1>2, <2>1 DEF FinalizeLeave, End, ClearMeeting
  <2>2. router' \in {router, "none"}
    BY <1>3, <2>1 DEF LeaveRoom, LeaveTimerFires
  <2>3. QED
    BY <2>2 DEF RouterMoves
<1>4. ASSUME NEW s \in Sockets, NEW via \in Vias, OwnerConfirmed(s, via) PROVE RouterMoves
  BY <1>1, <1>4 DEF OwnerConfirmed
<1>5. ASSUME NEW s \in Sockets, JoinRoom(s) PROVE RouterMoves
  BY <1>1, <1>5 DEF JoinRoom
<1>6. ASSUME NEW u \in Users, Admit(u) PROVE RouterMoves
  <2>1. waiting[u] \in Sockets
    BY <1>6 DEF Admit, TypeOK
  <2>2. QED
    BY <1>1, <1>6, <2>1 DEF Admit, RouterMoves
<1>7. CASE RouterReady \/ RouterFails
  BY <1>7 DEF RouterReady, RouterFails, RouterMoves
<1>8. CASE EndMeeting \/ DeleteMeeting
  BY <1>2, <1>8 DEF EndMeeting, DeleteMeeting, End, ClearMeeting, RouterMoves
<1>9. ASSUME router' = router PROVE RouterMoves
  BY <1>9 DEF RouterMoves
<1>10. ASSUME NEW s \in Sockets, Connect(s) \/ Disconnect(s) \/ ServerDisconnects(s)
       PROVE  RouterMoves
  BY <1>9, <1>10 DEF Connect, Disconnect, ServerDisconnects, Drop
<1>11. ASSUME NEW s \in Sockets, NEW via \in Vias, OwnerRefused(s, via) PROVE RouterMoves
  BY <1>9, <1>11 DEF OwnerRefused
<1>12. ASSUME NEW r, NEW u \in Users, Kick(r, u) \/ Promote(r, u) \/ Demote(r, u) PROVE RouterMoves
  BY <1>9, <1>12 DEF Kick, Promote, Demote
<1>13. ASSUME NEW u \in Users, Reject(u) PROVE RouterMoves
  BY <1>9, <1>13 DEF Reject
<1>14. ASSUME NEW r, NEW b \in BOOLEAN, SetLocked(r, b) PROVE RouterMoves
  BY <1>9, <1>14 DEF SetLocked
<1>15. CASE UNCHANGED vars
  BY <1>9, <1>15 DEF vars
<1>16. QED
  BY <1>3, <1>4, <1>5, <1>6, <1>7, <1>8, <1>10, <1>11, <1>12, <1>13, <1>14, <1>15 DEF Next

(* Whatever joins, leaves and ends come between, the room's router is      *)
(* created in the background, stands until it is closed and is never       *)
(* handed back to a creation, as RouterPool_proofs proves of the pool.     *)
THEOREM RoomKeepsRouterContract == Spec => KeepsRouterContract
<1>1. Init => [m \in {"this"} |-> router] = [m \in {"this"} |-> "none"]
  BY DEF Init
<1>2. TypeOK /\ TypeOK' /\ [Next]_vars => RoomRouter!ContractNext
  BY RouterStep, MovesAre
<1>3. QED
  BY <1>1, <1>2, TypeCorrect, PTL DEF Spec, KeepsRouterContract, RoomRouter!ContractSafety
===========================================================================
