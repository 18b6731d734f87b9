-------------------------- MODULE Attendance_proofs --------------------------
(***************************************************************************)
(* MeetingRoom and Attendance: every handler is a step of Attendance or    *)
(* leaves everybody's place and rank alone, but for the newcomer whose     *)
(* ownership lookup answers after the connection went.  On one instance    *)
(* there is no lookup and MeetingRoom implements Attendance's safety part. *)
(***************************************************************************)
EXTENDS Seats_proofs

USE HostAssumption, SocketsAssumption, RedisAssumption
USE DEF Types, Roles, NoRole, Places, Vias, MaybeSocket

(* The host's rank is never taken away while the host holds a seat.        *)
HostRank == Seated(Host) => role[Host] = "host"

LEMMA HostRankStep ==
    ASSUME TypeOK, HostRank, [Next]_vars
    PROVE  HostRank'
<1> USE DEF HostRank, TypeOK, Seated, configVars, seatVars, asyncVars, linkVars
<1>1. ASSUME NEW s \in Sockets, NEW via \in Vias, NEW queue,
             BeginJoin(s, via, queue) \/ JoinMeeting(s, via, queue)
      PROVE  HostRank'
  BY <1>1 DEF BeginJoin, JoinMeeting, Refuse, Rebind, Park, TakeSeat, ResolveRole, Existing
<1>2. ASSUME NEW u \in Users, FinalizeLeave(u) \/ Vacate(u) PROVE HostRank'
  BY <1>2 DEF FinalizeLeave, Vacate, End, ClearMeeting
<1>3. ASSUME UNCHANGED <<socketId, role>> PROVE HostRank'
  BY <1>3
<1>4. ASSUME NEW s \in Sockets, Connect(s) \/ Disconnect(s) \/ ServerDisconnects(s)
      PROVE  HostRank'
  BY <1>3, <1>4 DEF Connect, Disconnect, ServerDisconnects, Drop
<1>5. ASSUME NEW s \in Sockets, JoinRoom(s) \/ LeaveRoom(s) \/ LeaveTimerFires(s)
      PROVE  HostRank'
  BY <1>1, <1>2, <1>5 DEF JoinRoom, LeaveRoom, LeaveTimerFires
<1>6. ASSUME NEW s \in Sockets, NEW via \in Vias, OwnerConfirmed(s, via) \/ OwnerRefused(s, via)
      PROVE  HostRank'
  BY <1>1, <1>3, <1>6 DEF OwnerConfirmed, OwnerRefused
<1>7. ASSUME NEW r, NEW u \in Users, Kick(r, u) \/ Promote(r, u) \/ Demote(r, u)
      PROVE  HostRank'
  BY <1>2, <1>7 DEF Kick, Promote, Demote
<1>8. ASSUME NEW u \in Users, Admit(u) \/ Reject(u) PROVE HostRank'
  BY <1>1, <1>3, <1>8 DEF Admit, Reject
<1>9. ASSUME NEW r, NEW b \in BOOLEAN, SetLocked(r, b) PROVE HostRank'
  BY <1>3, <1>9 DEF SetLocked
<1>10. CASE EndMeeting \/ DeleteMeeting
  BY <1>10 DEF EndMeeting, DeleteMeeting, End, ClearMeeting
<1>11. CASE RouterReady \/ RouterFails \/ UNCHANGED vars
  BY <1>3, <1>11 DEF RouterReady, RouterFails, vars
<1>12. QED
  BY <1>4, <1>5, <1>6, <1>7, <1>8, <1>9, <1>10, <1>11 DEF Next

LEMMA HostRankHolds == Spec => []HostRank
<1>1. Init => HostRank
  BY DEF Init, HostRank, Seated
<1>2. TypeOK /\ HostRank /\ [Next]_vars => HostRank'
  BY HostRankStep
<1>3. QED
  BY <1>1, <1>2, TypeCorrect, PTL DEF Spec

---------------------------------------------------------------------------
(* What each kind of step is in Attendance's terms.                        *)
LEMMA Stutter ==
    ASSUME (status # "live")' = (status # "live"), role' = role,
           \A u \in Users : PlaceOf(u)' = PlaceOf(u)
    PROVE  [Promise!AttendanceNext]_(Promise!attendance)
BY DEF Promise!attendance

LEMMA OneMoves ==
    ASSUME NEW u \in Users, NEW p, PlaceOf(u)' = p,
           \A v \in Users \ {u} : PlaceOf(v)' = PlaceOf(v)
    PROVE  [v \in Users |-> PlaceOf(v)]' = [[v \in Users |-> PlaceOf(v)] EXCEPT ![u] = p]
OBVIOUS

(* Leaving a seat or the waiting room.                                     *)
LEMMA MovesOut ==
    ASSUME TypeOK, NEW u \in Users, status' = status, PlaceOf(u) # "out",
           PlaceOf(u)' = "out", \A v \in Users \ {u} : PlaceOf(v)' = PlaceOf(v),
           role' = [role EXCEPT ![u] = NoRole]
    PROVE  Promise!AttendanceNext
<1>1. Promise!GoOut(u)
  BY OneMoves DEF Promise!GoOut
<1>2. QED
  BY <1>1 DEF Promise!AttendanceNext

(* The end of the meeting, for whatever reason.                            *)
LEMMA Closes ==
    ASSUME NEW seats, status = "live", status' # "live", ClearMeeting(seats)
    PROVE  Promise!AttendanceNext
<1>1. \A u \in Users : PlaceOf(u)' = "out"
  BY DEF PlaceOf, ClearMeeting, Seated
<1>2. Promise!Close
  BY <1>1 DEF Promise!Close, ClearMeeting
<1>3. QED
  BY <1>2 DEF Promise!AttendanceNext

LEMMA FinalizeLeaveAttends ==
    ASSUME BoundInv, NEW u \in Users, Seated(u), FinalizeLeave(u), sock' = sock
    PROVE  Promise!AttendanceNext
<1>l. status = "live" /\ waiting[u] = NoSocket
  BY DEF BoundInv, BoundParts, EndedIsEmpty, WaitOrSit
<1>1. CASE End([socketId EXCEPT ![u] = NoSocket])
  BY <1>1, <1>l, Closes DEF End
<1>2. CASE Vacate(u) /\ UNCHANGED <<status, waiting, doomed>>
  <2>1. PlaceOf(u) # "out" /\ PlaceOf(u)' = "out"
    BY <1>2, <1>l DEF PlaceOf, Vacate, Seated, BoundInv, TypeOK
  <2>2. \A v \in Users \ {u} : PlaceOf(v)' = PlaceOf(v)
    BY <1>2 DEF PlaceOf, Vacate, Seated, Open, BoundInv, TypeOK
  <2>3. QED
    BY <1>2, <2>1, <2>2, MovesOut DEF Vacate, BoundInv
<1>3. QED
  BY <1>1, <1>2 DEF FinalizeLeave

(* joinRoom: out to in, grace to in, or out to waiting; for a connection   *)
(* that is gone, in to grace, out to waiting, or out to grace.             *)
LEMMA JoinAttends ==
    ASSUME BoundInv, NEW s \in Sockets, NEW via \in Vias, sock[s] # "new",
           JoinMeeting(s, via, waiting)
    PROVE  \/ [Promise!AttendanceNext]_(Promise!attendance)
           \/ ~Open(s) /\ PlaceOf(UserOf[s]) = "out" /\ PlaceOf(UserOf[s])' = "grace"
<1> USE DEF BoundInv, BoundParts, linkVars
<1> DEFINE u == UserOf[s]
           there == IF Open(s) THEN "in" ELSE "grace"
<1>u. u \in Users
  OBVIOUS
<1>k. status' = status /\ sock' = sock
  BY DEF JoinMeeting
<1>1. CASE Refuse(s, waiting)
  <2>1. \A v \in Users : PlaceOf(v)' = PlaceOf(v)
    BY <1>1, <1>k DEF Refuse, seatVars, PlaceOf, Seated, Open
  <2>2. QED
    BY <1>1, <1>k, <2>1, Stutter DEF Refuse, seatVars
<1>2. CASE Rebind(s, waiting)
  <2>1. \A v \in Users \ {u} : PlaceOf(v)' = PlaceOf(v)
    BY <1>2, <1>k DEF Rebind, PlaceOf, Seated, Open, TypeOK
  <2>2. PlaceOf(u)' = there /\ PlaceOf(u) \in {"in", "grace"}
    BY <1>2, <1>k DEF Rebind, Existing, PlaceOf, Seated, Open, TypeOK
  <2>3. CASE PlaceOf(u) = there
    <3>1. \A v \in Users : PlaceOf(v)' = PlaceOf(v)
      BY <2>1, <2>2, <2>3
    <3>2. QED
      BY <1>2, <1>k, <3>1, Stutter DEF Rebind
  <2>4. CASE PlaceOf(u) = "grace" /\ Open(s)
    <3>1. Promise!Return(u)
      BY <1>2, <1>k, <2>1, <2>2, <2>4, OneMoves DEF Promise!Return, Rebind
    <3>2. QED
      BY <3>1 DEF Promise!AttendanceNext
  <2>5. CASE PlaceOf(u) = "in" /\ ~Open(s)
    <3>1. Promise!LoseConnection(u)
      BY <1>2, <1>k, <2>1, <2>2, <2>5, OneMoves DEF Promise!LoseConnection, Rebind
    <3>2. QED
      BY <3>1 DEF Promise!AttendanceNext
  <2>6. QED
    BY <2>2, <2>3, <2>4, <2>5
<1>3. CASE Park(s, via, waiting)
  <2>1. \A v \in Users \ {u} : PlaceOf(v)' = PlaceOf(v)
    BY <1>3, <1>k DEF Park, seatVars, PlaceOf, Seated, Open, TypeOK
  <2>2. PlaceOf(u)' = "waiting" /\ PlaceOf(u) \in {"out", "waiting"} /\ u # Host
    BY <1>3, <1>k DEF Park, Existing, MustWait, ResolveRole, seatVars, PlaceOf, Seated, TypeOK
  <2>3. CASE PlaceOf(u) = "waiting"
    <3>1. \A v \in Users : PlaceOf(v)' = PlaceOf(v)
      BY <2>1, <2>2, <2>3
    <3>2. QED
      BY <1>3, <1>k, <3>1, Stutter DEF Park, seatVars
  <2>4. CASE PlaceOf(u) = "out"
    <3>1. status = "live" /\ role' = role
      BY <1>3 DEF Park, IsEnded, seatVars
    <3>2. Promise!Wait(u)
      BY <1>k, <2>1, <2>2, <2>4, <3>1, OneMoves DEF Promise!Wait
    <3>3. QED
      BY <3>2 DEF Promise!AttendanceNext
  <2>5. QED
    BY <2>2, <2>3, <2>4
<1>4. CASE TakeSeat(s, waiting)
  <2>1. \A v \in Users \ {u} : PlaceOf(v)' = PlaceOf(v)
    BY <1>4, <1>k DEF TakeSeat, PlaceOf, Seated, Open, TypeOK
  <2>2. PlaceOf(u) = "out" /\ PlaceOf(u)' = there
    BY <1>4, <1>k DEF TakeSeat, Existing, WaitOrSit, PlaceOf, Seated, Open, TypeOK
  <2>3. status = "live" /\ role' = [role EXCEPT ![u] = IF u = Host THEN "host" ELSE "participant"]
    BY <1>4 DEF TakeSeat, IsEnded, ResolveRole
  <2>4. CASE Open(s)
    <3>1. Promise!Enter(u)
      BY <1>k, <2>1, <2>2, <2>3, <2>4, OneMoves DEF Promise!Enter
    <3>2. QED
      BY <3>1 DEF Promise!AttendanceNext
  <2>5. QED
    BY <2>2, <2>4
<1>5. QED
  BY <1>1, <1>2, <1>3, <1>4 DEF JoinMeeting

(* Without Redis admitting re-parks: whoever waits must wait (WaitOrSit).  *)
(* With it, or when the waiter is gone, the entry goes and that is all.    *)
LEMMA AdmitAttends ==
    ASSUME BoundInv, NEW u \in Users, Admit(u)
    PROVE  [Promise!AttendanceNext]_(Promise!attendance)
<1> USE DEF BoundInv, BoundParts
<1> DEFINE s == waiting[u]
           queue == [waiting EXCEPT ![u] = NoSocket]
<1>1. /\ s \in Sockets /\ s # NoSocket /\ UserOf[s] = u
      /\ MustWait(u) /\ ~Seated(u) /\ ~IsEnded
  BY DEF Admit, OwnConnections, WaitOrSit, EndedIsEmpty, IsEnded, TypeOK
<1>2. CASE Open(s) /\ ~RedisEnabled
  <2>1. JoinMeeting(s, "admit", queue)
    BY <1>2 DEF Admit, BeginJoin
  <2>2. Park(s, "admit", queue)
    BY <1>1, <2>1 DEF JoinMeeting, Refuse, Rebind, TakeSeat, Existing
  <2>3. waiting' = waiting /\ UNCHANGED <<status, sock, seatVars>>
    BY <1>1, <2>1, <2>2 DEF Park, JoinMeeting, linkVars, TypeOK
  <2>4. \A v \in Users : PlaceOf(v)' = PlaceOf(v)
    BY <2>3 DEF PlaceOf, Seated, Open, seatVars
  <2>5. QED
    BY <2>3, <2>4, Stutter DEF seatVars
<1>3. CASE ~Open(s) \/ RedisEnabled
  <2>1. waiting' = queue /\ UNCHANGED <<status, sock, seatVars>>
    BY <1>3 DEF Admit, BeginJoin, linkVars
  <2>2. PlaceOf(u) # "out" /\ PlaceOf(u)' = "out"
    BY <1>1, <2>1 DEF PlaceOf, seatVars, Seated, TypeOK
  <2>3. \A v \in Users \ {u} : PlaceOf(v)' = PlaceOf(v)
    BY <2>1 DEF PlaceOf, seatVars, Seated, Open, TypeOK
  <2>4. role' = [role EXCEPT ![u] = NoRole]
    BY <1>1, <2>1 DEF seatVars, TypeOK
  <2>5. QED
    BY <2>1, <2>2, <2>3, <2>4, MovesOut
<1>4. QED
  BY <1>2, <1>3

LEMMA DropAttends ==
    ASSUME BoundInv, NEW s \in Sockets, Drop(s)
    PROVE  [Promise!AttendanceNext]_(Promise!attendance)
<1> USE DEF BoundInv, BoundParts
<1> DEFINE u == UserOf[s]
<1>u. u \in Users
  OBVIOUS
<1>k. /\ status' = status /\ socketId' = socketId /\ role' = role
      /\ sock' = [sock EXCEPT ![s] = "closed"]
  BY DEF Drop
<1>1. \A v \in Users \ {u} : PlaceOf(v)' = PlaceOf(v)
  BY <1>k DEF Drop, PlaceOf, Seated, Open, OwnConnections, TypeOK
<1>2. CASE ~IsEnded /\ EvictsWaiter(s)
  <2>1. waiting[u] # NoSocket /\ ~Seated(u)
    BY <1>2 DEF EvictsWaiter, WaitOrSit
  <2>2. PlaceOf(u) # "out" /\ PlaceOf(u)' = "out"
    BY <1>2, <1>k, <2>1 DEF Drop, PlaceOf, Seated, TypeOK
  <2>3. role' = [role EXCEPT ![u] = NoRole]
    BY <1>k, <2>1 DEF TypeOK
  <2>4. QED
    BY <1>1, <1>k, <2>2, <2>3, MovesOut
<1>3. CASE (IsEnded \/ ~EvictsWaiter(s)) /\ Seated(u) /\ socketId[u] = s
  <2>1. PlaceOf(u) = "in" /\ PlaceOf(u)' = "grace"
    BY <1>3, <1>k DEF Drop, PlaceOf, Seated, Open, TypeOK
  <2>2. Promise!LoseConnection(u)
    BY <1>1, <1>k, <2>1, OneMoves DEF Promise!LoseConnection
  <2>3. QED
    BY <2>2 DEF Promise!AttendanceNext
<1>4. CASE (IsEnded \/ ~EvictsWaiter(s)) /\ socketId[u] # s
  <2>1. PlaceOf(u)' = PlaceOf(u)
    BY <1>4, <1>k DEF Drop, PlaceOf, Seated, Open, TypeOK
  <2>2. QED
    BY <1>1, <1>k, <2>1, Stutter
<1>5. QED
  BY <1>2, <1>3, <1>4 DEF Seated

LEMMA KickAttends ==
    ASSUME BoundInv, NEW r, NEW u \in Users, Kick(r, u)
    PROVE  Promise!AttendanceNext
<1> USE DEF BoundInv, BoundParts
<1>1. socketId[u] \in Sockets /\ UserOf[socketId[u]] = u /\ waiting[u] = NoSocket
  BY DEF Kick, Seated, OwnConnections, WaitOrSit, TypeOK
<1>2. PlaceOf(u) # "out" /\ PlaceOf(u)' = "out"
  BY <1>1 DEF Kick, Vacate, PlaceOf, Seated, TypeOK
<1>3. \A v \in Users \ {u} : PlaceOf(v)' = PlaceOf(v)
  BY <1>1 DEF Kick, Vacate, HangUp, PlaceOf, Seated, Open, OwnConnections, TypeOK
<1>4. QED
  BY <1>2, <1>3, MovesOut DEF Kick, Vacate

LEMMA RejectAttends ==
    ASSUME BoundInv, NEW u \in Users, Reject(u)
    PROVE  Promise!AttendanceNext
<1> USE DEF BoundInv, BoundParts
<1>1. waiting[u] \in Sockets /\ UserOf[waiting[u]] = u /\ ~Seated(u)
  BY DEF Reject, OwnConnections, WaitOrSit, TypeOK
<1>2. PlaceOf(u) # "out" /\ PlaceOf(u)' = "out"
  BY <1>1 DEF Reject, seatVars, PlaceOf, Seated, TypeOK
<1>3. \A v \in Users \ {u} : PlaceOf(v)' = PlaceOf(v)
  BY <1>1 DEF Reject, seatVars, HangUp, PlaceOf, Seated, Open, OwnConnections, TypeOK
<1>4. role' = [role EXCEPT ![u] = NoRole]
  BY <1>1 DEF Reject, seatVars, TypeOK
<1>5. QED
  BY <1>2, <1>3, <1>4, MovesOut DEF Reject

LEMMA RegradeAttends ==
    ASSUME BoundInv, HostRank, NEW r, NEW u \in Users, Promote(r, u) \/ Demote(r, u)
    PROVE  Promise!AttendanceNext
<1>1. \A v \in Users : PlaceOf(v)' = PlaceOf(v)
  BY DEF Promote, Demote, linkVars, PlaceOf, Seated, Open
<1>2. u # Host /\ PlaceOf(u) \in {"in", "grace"}
  BY DEF Promote, Demote, HostRank, PlaceOf
<1>3. Promise!Regrade(u)
  BY <1>1, <1>2 DEF Promise!Regrade, Promote, Demote
<1>4. QED
  BY <1>3 DEF Promise!AttendanceNext

LEMMA StepAttends ==
    ASSUME BoundInv, HostRank, [Next]_vars
    PROVE  [Promise!AttendanceNext \/ \E u \in Users : LateEntry(u)]_(Promise!attendance)
<1> USE DEF configVars, seatVars, asyncVars, linkVars
<1> DEFINE Goal == [Promise!AttendanceNext \/ \E u \in Users : LateEntry(u)]_(Promise!attendance)
<1>s. ASSUME UNCHANGED <<status, socketId, role, waiting, sock>> PROVE Goal
  BY <1>s, Stutter DEF PlaceOf, Seated, Open
<1>1. ASSUME NEW s \in Sockets, Connect(s) PROVE Goal
  <2>1. \A v \in Users : PlaceOf(v)' = PlaceOf(v)
    BY <1>1 DEF Connect, PlaceOf, Seated, Open, BoundInv, BoundParts, SeatsHadConnections, TypeOK
  <2>2. QED
    BY <1>1, <2>1, Stutter DEF Connect
<1>2. ASSUME NEW s \in Sockets, JoinRoom(s) PROVE Goal
  <2>1. CASE RedisEnabled
    BY <1>2, <1>s, <2>1 DEF JoinRoom, BeginJoin
  <2>2. CASE ~RedisEnabled
    BY <1>2, <2>2, JoinAttends DEF JoinRoom, BeginJoin, Open
  <2>3. QED
    BY <2>1, <2>2
<1>3. ASSUME NEW s \in Sockets, LeaveRoom(s) PROVE Goal
  BY <1>3, FinalizeLeaveAttends DEF LeaveRoom, Active, Seated
<1>4. ASSUME NEW s \in Sockets, Disconnect(s) \/ ServerDisconnects(s) PROVE Goal
  BY <1>4, DropAttends DEF Disconnect, ServerDisconnects
<1>5. ASSUME NEW s \in Sockets, LeaveTimerFires(s) PROVE Goal
  <2>1. CASE Seated(UserOf[s])
    BY <1>5, <2>1, FinalizeLeaveAttends DEF LeaveTimerFires
  <2>2. CASE ~Seated(UserOf[s])
    BY <1>5, <1>s, <2>2 DEF LeaveTimerFires
  <2>3. QED
    BY <2>1, <2>2
<1>6. ASSUME NEW r, NEW u \in Users, Kick(r, u) PROVE Goal
  BY <1>6, KickAttends
<1>7. ASSUME NEW r, NEW u \in Users, Promote(r, u) \/ Demote(r, u) PROVE Goal
  BY <1>7, RegradeAttends
<1>8. ASSUME NEW u \in Users, Admit(u) PROVE Goal
  BY <1>8, AdmitAttends
<1>9. ASSUME NEW u \in Users, Reject(u) PROVE Goal
  BY <1>9, RejectAttends
<1>10. CASE EndMeeting
  BY <1>10, Closes DEF EndMeeting, End
<1>11. CASE DeleteMeeting
  <2>1. CASE status = "live"
    BY <1>11, <2>1, Closes DEF DeleteMeeting
  <2>2. CASE status = "ended"
    BY <1>11, <2>2, Stutter DEF DeleteMeeting, PlaceOf, Seated, Open
  <2>3. QED
    BY <1>11, <2>1, <2>2 DEF DeleteMeeting
<1>12. ASSUME NEW s \in Sockets, NEW via \in Vias, OwnerConfirmed(s, via) \/ OwnerRefused(s, via)
       PROVE  Goal
  <2>1. CASE OwnerRefused(s, via)
    BY <1>s, <2>1 DEF OwnerRefused
  <2>2. CASE OwnerConfirmed(s, via)
    <3>1. sock[s] # "new" /\ JoinMeeting(s, via, waiting)
      BY <2>2 DEF OwnerConfirmed, BoundInv, CallersHadConnections
    <3>2. CASE ~Open(s) /\ PlaceOf(UserOf[s]) = "out" /\ PlaceOf(UserOf[s])' = "grace"
      <4>1. UserOf[s] \in Users
        OBVIOUS
      <4>2. LateEntry(UserOf[s])
        BY <2>2, <3>2 DEF LateEntry, LateLookup
      <4>3. QED
        BY <4>1, <4>2
    <3>3. QED
      BY <3>1, <3>2, JoinAttends
  <2>3. QED
    BY <1>12, <2>1, <2>2
<1>13. CASE RouterReady \/ RouterFails \/ UNCHANGED vars
  BY <1>s, <1>13 DEF RouterReady, RouterFails, vars
<1>14. ASSUME NEW r, NEW b \in BOOLEAN, SetLocked(r, b) PROVE Goal
  BY <1>s, <1>14 DEF SetLocked
<1>15. QED
  BY <1>1, <1>2, <1>3, <1>4, <1>5, <1>6, <1>7, <1>8, <1>9, <1>10, <1>11, <1>12, <1>13,
     <1>14 DEF Next

(* In any deployment the room keeps Attendance's promises about who is in, *)
(* who waits, who is in the grace period and with which rank, but for the  *)
(* newcomer whose lookup answers after the connection went.                *)
THEOREM NothingElseBreaksAttendance == Spec => OnlyLateEntriesBreakAttendance
<1>1. BoundInv /\ HostRank /\ [Next]_vars
         => [Promise!AttendanceNext \/ \E u \in Users : LateEntry(u)]_(Promise!attendance)
  BY StepAttends
<1>2. QED
  BY <1>1, BoundInvHolds, HostRankHolds, PTL DEF Spec, OnlyLateEntriesBreakAttendance

(* On one instance it keeps them all; that grace periods end is left to    *)
(* TLC (KeepsAttendance).                                                  *)
THEOREM ImplementsAttendance ==
    ASSUME ~RedisEnabled
    PROVE  Spec => Promise!AttendanceSafety
<1>1. Init => Promise!AttendanceInit
  BY DEF Init, Promise!AttendanceInit, PlaceOf, Seated
<1>2. SeatInv => \A u \in Users : ~LateEntry(u)
  BY DEF SeatInv, LateEntry, LateLookup, OwnerConfirmed
<1>3. SeatInv /\ BoundInv /\ HostRank /\ [Next]_vars
         => [Promise!AttendanceNext]_(Promise!attendance)
  BY <1>2, StepAttends
<1>4. QED
  BY <1>1, <1>3, SeatInvHolds, BoundInvHolds, HostRankHolds, PTL DEF Spec, Promise!AttendanceSafety
==============================================================================
