---------------------------- MODULE Seats_proofs ----------------------------
(***************************************************************************)
(* Theorems about MeetingRoom's seats, waiting room and grace timeouts: in *)
(* any deployment what alone can strand a seat or a timeout, and on one    *)
(* instance, where joinRoom does not await an ownership lookup, that       *)
(* nothing strands a seat.  With Redis SeatHasTimer is false.              *)
(***************************************************************************)
EXTENDS MeetingRoom_proofs

(* A seat, and a waiting entry, is bound to a connection of its own user.  *)
OwnConnections ==
    \A u \in Users :
        /\ Seated(u) => UserOf[socketId[u]] = u
        /\ waiting[u] # NoSocket => UserOf[waiting[u]] = u

(* Those who must wait never sit, and nobody else waits.  So a dropping    *)
(* connection is never a waiter's and a seat's at once, and evicting the   *)
(* waiter never makes handleDisconnect forget the seat's timeout.          *)
WaitOrSit ==
    \A u \in Users :
        /\ Seated(u) => ~MustWait(u)
        /\ waiting[u] # NoSocket => MustWait(u)

(* No seat is bound to a connection that has yet to come up.               *)
SeatsHadConnections == \A u \in Users : Seated(u) => sock[socketId[u]] # "new"

(* Nor does such a connection have a join under way.                       *)
CallersHadConnections == \A c \in awaitingOwner : sock[c.socket] # "new"

(* The timeout a seat knows of is that of its own connection, now gone.    *)
HeldTimers ==
    \A u \in Users :
        leaveTimer[u] # NoSocket => leaveTimer[u] = socketId[u] /\ sock[socketId[u]] = "closed"

BoundParts == OwnConnections /\ WaitOrSit /\ SeatsHadConnections /\ HeldTimers

(* The inductive invariant of every deployment.                            *)
BoundInv == TypeOK /\ EndedIsEmpty /\ CallersHadConnections /\ BoundParts

(* A step that neither strands u's seat nor u's waiting entry.             *)
Keeps(u) == (Covered(u) => Covered(u)') /\ (Attached(u) => Attached(u)')

USE HostAssumption, SocketsAssumption, RedisAssumption
USE DEF Types, Roles, NoRole, Places, Vias, MaybeSocket

(* Who must wait is settled when the meeting is created.                   *)
LEMMA MustWaitFixed ==
    ASSUME UNCHANGED configVars
    PROVE  \A u \in Users : MustWait(u)' <=> MustWait(u)
BY DEF configVars, MustWait, ResolveRole

(* A user without a seat has no timeout it knows of.                       *)
LEMMA NoSeatNoTimer ==
    ASSUME BoundInv, NEW u \in Users, ~Seated(u) \/ Open(socketId[u])
    PROVE  leaveTimer[u] = NoSocket
BY DEF BoundInv, BoundParts, HeldTimers, Seated, Open, TypeOK

(* A join, with a waiting room from which at most some entries were taken: *)
(* it strands nobody but a caller whose connection is gone.                *)
LEMMA JoinSeats ==
    ASSUME BoundInv, NEW s \in Sockets, NEW via \in Vias, sock[s] # "new",
           NEW queue \in [Users -> MaybeSocket],
           \A u \in Users : queue[u] \in {waiting[u], NoSocket},
           JoinMeeting(s, via, queue)
    PROVE  /\ BoundParts'
           /\ \A u \in Users : Open(s) \/ u # UserOf[s] => Keeps(u)
<1> USE DEF BoundInv, BoundParts, linkVars
<1> DEFINE u == UserOf[s]
<1>u. u \in Users
  OBVIOUS
<1>m. /\ \A v \in Users : MustWait(v)' <=> MustWait(v)
      /\ sock' = sock
  BY MustWaitFixed DEF JoinMeeting
<1>1. CASE Refuse(s, queue)
  <2> USE <1>1, <1>m DEF Refuse, seatVars, Seated, Open
  <2>1. BoundParts'
    BY DEF OwnConnections, WaitOrSit, SeatsHadConnections, HeldTimers
  <2>2. \A v \in Users : Keeps(v)
    BY DEF Keeps, Covered, Attached
  <2>3. QED
    BY <2>1, <2>2
<1>2. CASE Rebind(s, queue)
  <2> USE <1>2, <1>m DEF Rebind, Existing, Seated, Open, TypeOK
  <2>1. OwnConnections'
    BY DEF OwnConnections
  <2>2. WaitOrSit'
    BY DEF WaitOrSit
  <2>3. SeatsHadConnections'
    BY DEF SeatsHadConnections
  <2>4. HeldTimers'
    BY DEF HeldTimers
  <2>5. ASSUME NEW v \in Users, Open(s) \/ v # u PROVE Covered(v) => Covered(v)'
    <3>1. CASE v = u
      BY <2>5, <3>1 DEF Covered
    <3>2. CASE v # u
      <4>1. Seated(v) => leaveTimer[v] # leaveTimer[u] \/ leaveTimer[v] = NoSocket
        BY <3>2 DEF HeldTimers, OwnConnections
      <4>2. QED
        BY <3>2, <4>1 DEF Covered, CancelledTimers
    <3>3. QED
      BY <3>1, <3>2
  <2>6. \A v \in Users : Attached(v) => Attached(v)'
    BY DEF Attached
  <2>7. QED
    BY <2>1, <2>2, <2>3, <2>4, <2>5, <2>6 DEF Keeps
<1>3. CASE Park(s, via, queue)
  <2> USE <1>3, <1>m DEF Park, Existing, Seated, Open, TypeOK, seatVars
  <2>1. OwnConnections'
    BY DEF OwnConnections
  <2>2. WaitOrSit'
    BY DEF WaitOrSit
  <2>3. SeatsHadConnections' /\ HeldTimers'
    BY DEF SeatsHadConnections, HeldTimers
  <2>4. \A v \in Users : Covered(v) => Covered(v)'
    BY DEF Covered
  <2>5. \A v \in Users : Open(s) \/ v # u => (Attached(v) => Attached(v)')
    BY DEF Attached
  <2>6. QED
    BY <2>1, <2>2, <2>3, <2>4, <2>5 DEF Keeps
<1>4. CASE TakeSeat(s, queue)
  <2> USE <1>4, <1>m DEF TakeSeat, Existing, Seated, Open, TypeOK
  <2>1. OwnConnections'
    BY DEF OwnConnections
  <2>2. WaitOrSit'
    BY DEF WaitOrSit
  <2>3. SeatsHadConnections' /\ HeldTimers'
    BY DEF SeatsHadConnections, HeldTimers
  <2>4. \A v \in Users : Open(s) \/ v # u => (Covered(v) => Covered(v)')
    BY DEF Covered
  <2>5. \A v \in Users : Attached(v) => Attached(v)'
    BY DEF Attached
  <2>6. QED
    BY <2>1, <2>2, <2>3, <2>4, <2>5 DEF Keeps
<1>5. QED
  BY <1>1, <1>2, <1>3, <1>4 DEF JoinMeeting

LEMMA FinalizeLeaveSeats ==
    ASSUME BoundInv, NEW u \in Users, FinalizeLeave(u), UNCHANGED <<configVars, sock>>,
           \A v \in Users \ {u} : Seated(v) /\ leaveTimer[v] \in timers
                                    => leaveTimer[v] \in timers'
    PROVE  BoundParts' /\ \A v \in Users : Keeps(v)
<1>m. \A v \in Users : MustWait(v)' <=> MustWait(v)
  BY MustWaitFixed
<1>1. CASE type = "one_to_one"
  BY <1>1, <1>m DEF FinalizeLeave, End, ClearMeeting, BoundParts, OwnConnections, WaitOrSit,
                    SeatsHadConnections, HeldTimers, Keeps, Covered, Attached, Seated
<1>2. CASE type = "group"
  <2> USE <1>2, <1>m DEF FinalizeLeave, Vacate, BoundInv, BoundParts, TypeOK, Seated, Open
  <2>1. OwnConnections' /\ WaitOrSit' /\ SeatsHadConnections' /\ HeldTimers'
    BY DEF OwnConnections, WaitOrSit, SeatsHadConnections, HeldTimers
  <2>2. \A v \in Users : Covered(v) => Covered(v)'
    BY DEF Covered
  <2>3. \A v \in Users : Attached(v) => Attached(v)'
    BY DEF Attached
  <2>4. QED
    BY <2>1, <2>2, <2>3 DEF Keeps
<1>3. QED
  BY <1>1, <1>2 DEF BoundInv, TypeOK

LEMMA ClearMeetingSeats ==
    ASSUME NEW seats, ClearMeeting(seats)
    PROVE  BoundParts' /\ \A v \in Users : Keeps(v)
BY DEF ClearMeeting, BoundParts, OwnConnections, WaitOrSit, SeatsHadConnections, HeldTimers,
       Keeps, Covered, Attached, Seated

LEMMA DropSeats ==
    ASSUME BoundInv, NEW s \in Sockets, Drop(s)
    PROVE  BoundParts' /\ \A v \in Users : Keeps(v)
<1> USE DEF BoundInv, BoundParts, TypeOK, Drop, Seated, Open
<1>m. \A v \in Users : MustWait(v)' <=> MustWait(v)
  BY MustWaitFixed
<1>1. OwnConnections' /\ SeatsHadConnections'
  BY DEF OwnConnections, SeatsHadConnections
<1>2. WaitOrSit'
  BY <1>m DEF WaitOrSit
<1>3. HeldTimers'
  <2> SUFFICES ASSUME NEW v \in Users, leaveTimer'[v] # NoSocket
               PROVE  leaveTimer'[v] = socketId'[v] /\ sock'[socketId'[v]] = "closed"
    BY DEF HeldTimers
  <2>1. CASE ~IsEnded /\ ArmsTimer(s) /\ v = UserOf[s]
    BY <2>1 DEF ArmsTimer
  <2>2. CASE ~(~IsEnded /\ ArmsTimer(s)) \/ v # UserOf[s]
    <3>1. leaveTimer'[v] = leaveTimer[v]
      BY <2>2
    <3>2. QED
      BY <3>1 DEF HeldTimers
  <2>3. QED
    BY <2>1, <2>2
<1>4. ASSUME NEW v \in Users, Attached(v) PROVE Attached(v)'
  BY <1>4 DEF Attached, EvictsWaiter, OwnConnections, EndedIsEmpty, IsEnded
<1>5. ASSUME NEW v \in Users, Covered(v) PROVE Covered(v)'
  <2>1. CASE socketId[v] = s
    <3>1. v = UserOf[s] /\ ~EvictsWaiter(s) /\ ~IsEnded
      BY <2>1 DEF OwnConnections, WaitOrSit, EvictsWaiter, EndedIsEmpty, IsEnded
    <3>2. QED
      BY <2>1, <3>1 DEF ArmsTimer, Covered
  <2>2. CASE socketId[v] # s
    <3>1. v # UserOf[s] \/ ~ArmsTimer(s)
      BY <2>2 DEF ArmsTimer
    <3>2. QED
      BY <1>5, <2>2, <3>1 DEF Covered
  <2>3. QED
    BY <2>1, <2>2
<1>6. QED
  BY <1>1, <1>2, <1>3, <1>4, <1>5 DEF Keeps

(* Hanging up on a connection that holds neither seat nor waiting entry.   *)
LEMMA HangUpSeats ==
    ASSUME BoundInv, NEW u \in Users, NEW s \in Sockets, UserOf[s] = u,
           HangUp(s), UNCHANGED <<configVars, timers>>,
           socketId' \in [Users -> MaybeSocket], waiting' \in [Users -> MaybeSocket],
           ~Seated(u)', waiting'[u] = NoSocket, leaveTimer'[u] = NoSocket,
           \A v \in Users \ {u} : /\ socketId'[v] = socketId[v]
                                  /\ leaveTimer'[v] = leaveTimer[v]
                                  /\ waiting'[v] = waiting[v]
    PROVE  BoundParts' /\ \A v \in Users : Keeps(v)
<1> USE DEF BoundInv, BoundParts, TypeOK, Seated, Open
<1>m. \A v \in Users : MustWait(v)' <=> MustWait(v)
  BY MustWaitFixed
<1>1. sock' = sock \/ sock' = [sock EXCEPT ![s] = "closed"]
  BY DEF HangUp
<1>2. \A v \in Users \ {u} : /\ Seated(v) => sock'[socketId[v]] = sock[socketId[v]]
                             /\ waiting[v] # NoSocket => sock'[waiting[v]] = sock[waiting[v]]
  BY <1>1 DEF OwnConnections
<1>3. OwnConnections' /\ WaitOrSit'
  BY <1>m DEF OwnConnections, WaitOrSit
<1>4. SeatsHadConnections'
  BY <1>2 DEF SeatsHadConnections
<1>5. HeldTimers'
  BY <1>2 DEF HeldTimers
<1>6. ASSUME NEW v \in Users PROVE Keeps(v)
  <2>1. CASE v = u
    BY <2>1 DEF Keeps, Covered, Attached
  <2>2. CASE v # u
    BY <1>2, <2>2 DEF Keeps, Covered, Attached
  <2>3. QED
    BY <2>1, <2>2
<1>7. QED
  BY <1>3, <1>4, <1>5, <1>6

LEMMA BeginJoinSeats ==
    ASSUME BoundInv, NEW s \in Sockets, NEW via \in Vias, Open(s),
           NEW queue \in [Users -> MaybeSocket],
           \A u \in Users : queue[u] \in {waiting[u], NoSocket},
           BeginJoin(s, via, queue)
    PROVE  BoundParts' /\ \A v \in Users : Keeps(v)
<1>1. CASE RedisEnabled
  <2>1. \A v \in Users : MustWait(v)' <=> MustWait(v)
    BY <1>1, MustWaitFixed DEF BeginJoin
  <2> USE <1>1 DEF BeginJoin, seatVars, linkVars, BoundInv, BoundParts, Seated, Open
  <2>2. BoundParts'
    BY <2>1 DEF OwnConnections, WaitOrSit, SeatsHadConnections, HeldTimers
  <2>3. \A v \in Users : Keeps(v)
    BY DEF Keeps, Covered, Attached
  <2>4. QED
    BY <2>2, <2>3
<1>2. CASE ~RedisEnabled
  BY <1>2, JoinSeats DEF BeginJoin, Open
<1>3. QED
  BY <1>1, <1>2

---------------------------------------------------------------------------
(* Every step, in any deployment.                                          *)
LEMMA SeatStep ==
    ASSUME BoundInv, [Next]_vars
    PROVE  BoundParts' /\ \A v \in Users : Keeps(v) \/ LateLookup(v)
<1> DEFINE Goal == BoundParts' /\ \A v \in Users : Keeps(v) \/ LateLookup(v)
<1>f. ASSUME UNCHANGED <<configVars, socketId, leaveTimer, waiting, timers, sock>>
      PROVE  Goal
  <2>1. \A u \in Users : MustWait(u)' <=> MustWait(u)
    BY <1>f, MustWaitFixed
  <2>2. QED
    BY <1>f, <2>1 DEF BoundInv, BoundParts, OwnConnections, WaitOrSit, SeatsHadConnections,
                      HeldTimers, Keeps, Covered, Attached, Seated, Open
<1>1. ASSUME NEW s \in Sockets, Connect(s) PROVE Goal
  <2>1. \A u \in Users : MustWait(u)' <=> MustWait(u)
    BY <1>1, MustWaitFixed DEF Connect
  <2> USE <1>1 DEF Connect, BoundInv, BoundParts, Seated, Open, seatVars, TypeOK
  <2>2. BoundParts'
    BY <2>1 DEF OwnConnections, WaitOrSit, SeatsHadConnections, HeldTimers
  <2>3. \A v \in Users : Covered(v) => Covered(v)'
    BY DEF Covered, SeatsHadConnections
  <2>4. \A v \in Users : Attached(v) => Attached(v)'
    BY DEF Attached
  <2>5. QED
    BY <2>2, <2>3, <2>4 DEF Keeps
<1>2. ASSUME NEW s \in Sockets, JoinRoom(s) PROVE Goal
  BY <1>2, BeginJoinSeats DEF JoinRoom, BoundInv, TypeOK
<1>3. ASSUME NEW s \in Sockets, LeaveRoom(s) PROVE Goal
  BY <1>3, FinalizeLeaveSeats DEF LeaveRoom
<1>4. ASSUME NEW s \in Sockets, Disconnect(s) \/ ServerDisconnects(s) PROVE Goal
  BY <1>4, DropSeats DEF Disconnect, ServerDisconnects
<1>5. ASSUME NEW s \in Sockets, LeaveTimerFires(s) PROVE Goal
  <2> DEFINE u == UserOf[s]
  <2>1. \A v \in Users \ {u} : Seated(v) => leaveTimer[v] # s
    BY DEF BoundInv, BoundParts, HeldTimers, OwnConnections
  <2>2. CASE Seated(u)
    BY <1>5, <2>1, <2>2, FinalizeLeaveSeats DEF LeaveTimerFires
  <2>3. CASE ~Seated(u)
    <3>1. \A v \in Users : MustWait(v)' <=> MustWait(v)
      BY <1>5, MustWaitFixed DEF LeaveTimerFires
    <3> USE <1>5, <2>3 DEF LeaveTimerFires, BoundInv, BoundParts, Seated, Open, seatVars
    <3>2. BoundParts'
      BY <3>1 DEF OwnConnections, WaitOrSit, SeatsHadConnections, HeldTimers
    <3>3. \A v \in Users : Keeps(v)
      BY <2>1 DEF Keeps, Covered, Attached
    <3>4. QED
      BY <3>2, <3>3
  <2>4. QED
    BY <2>2, <2>3
<1>6. ASSUME NEW r, NEW u \in Users, Kick(r, u) PROVE Goal
  <2>1. socketId[u] \in Sockets /\ UserOf[socketId[u]] = u /\ waiting[u] = NoSocket
    BY <1>6 DEF Kick, Seated, BoundInv, BoundParts, OwnConnections, WaitOrSit, TypeOK
  <2>2. /\ socketId' \in [Users -> MaybeSocket]
        /\ ~Seated(u)' /\ leaveTimer'[u] = NoSocket
        /\ \A v \in Users \ {u} : socketId'[v] = socketId[v] /\ leaveTimer'[v] = leaveTimer[v]
    BY <1>6 DEF Kick, Vacate, Seated, BoundInv, TypeOK
  <2>3. QED
    BY <1>6, <2>1, <2>2, HangUpSeats DEF Kick, BoundInv, TypeOK
<1>7. ASSUME NEW u \in Users, Reject(u) PROVE Goal
  <2>1. waiting[u] \in Sockets /\ UserOf[waiting[u]] = u /\ ~Seated(u)
    BY <1>7 DEF Reject, BoundInv, BoundParts, OwnConnections, WaitOrSit, TypeOK
  <2>2. leaveTimer[u] = NoSocket
    BY <2>1, NoSeatNoTimer
  <2>3. QED
    BY <1>7, <2>1, <2>2, HangUpSeats DEF Reject, seatVars, Seated, BoundInv, TypeOK
<1>8. ASSUME NEW u \in Users, Admit(u) PROVE Goal
  <2> DEFINE queue == [waiting EXCEPT ![u] = NoSocket]
  <2>1. /\ waiting[u] \in Sockets
        /\ queue \in [Users -> MaybeSocket]
        /\ \A v \in Users : queue[v] \in {waiting[v], NoSocket}
    BY <1>8 DEF Admit, BoundInv, TypeOK
  <2>2. CASE Open(waiting[u])
    <3>1. BeginJoin(waiting[u], "admit", queue)
      BY <1>8, <2>2 DEF Admit
    <3>2. QED
      BY <2>1, <2>2, <3>1, BeginJoinSeats
  <2>3. CASE ~Open(waiting[u])
    <3>1. \A v \in Users : MustWait(v)' <=> MustWait(v)
      BY <1>8, <2>3, MustWaitFixed DEF Admit
    <3> USE <1>8, <2>1, <2>3 DEF Admit, BoundInv, BoundParts, TypeOK, Seated, Open, seatVars, linkVars
    <3>2. BoundParts'
      BY <3>1 DEF OwnConnections, WaitOrSit, SeatsHadConnections, HeldTimers
    <3>3. \A v \in Users : Keeps(v)
      BY DEF Keeps, Covered, Attached
    <3>4. QED
      BY <3>2, <3>3
  <2>4. QED
    BY <2>2, <2>3
<1>9. CASE EndMeeting
  BY <1>9, ClearMeetingSeats DEF EndMeeting, End
<1>10. CASE DeleteMeeting
  <2>1. CASE ClearMeeting(socketId)
    BY <1>10, <2>1, ClearMeetingSeats
  <2>2. CASE UNCHANGED <<router, seatVars, waiting, doomed>>
    BY <1>10, <1>f, <2>2 DEF DeleteMeeting, seatVars
  <2>3. QED
    BY <1>10, <2>1, <2>2 DEF DeleteMeeting
<1>11. ASSUME NEW s \in Sockets, NEW via \in Vias, OwnerConfirmed(s, via) PROVE Goal
  <2>1. sock[s] # "new" /\ JoinMeeting(s, via, waiting) /\ waiting \in [Users -> MaybeSocket]
    BY <1>11 DEF OwnerConfirmed, BoundInv, CallersHadConnections, TypeOK
  <2>2. BoundParts' /\ \A v \in Users : Open(s) \/ v # UserOf[s] => Keeps(v)
    BY <2>1, JoinSeats
  <2>3. ~Open(s) => LateLookup(UserOf[s])
    BY <1>11 DEF LateLookup
  <2>4. QED
    BY <2>2, <2>3
<1>12. ASSUME NEW s \in Sockets, NEW via \in Vias, OwnerRefused(s, via) PROVE Goal
  BY <1>f, <1>12 DEF OwnerRefused, seatVars, linkVars
<1>13. CASE RouterReady \/ RouterFails \/ UNCHANGED vars
  BY <1>f, <1>13 DEF RouterReady, RouterFails, vars, seatVars, linkVars
<1>14. ASSUME NEW r, NEW u \in Users, Promote(r, u) \/ Demote(r, u) PROVE Goal
  BY <1>f, <1>14 DEF Promote, Demote, linkVars
<1>15. ASSUME NEW r, NEW b \in BOOLEAN, SetLocked(r, b) PROVE Goal
  BY <1>f, <1>15 DEF SetLocked, seatVars, linkVars
<1>16. QED
  BY <1>1, <1>2, <1>3, <1>4, <1>5, <1>6, <1>7, <1>8, <1>9, <1>10, <1>11, <1>12, <1>13,
     <1>14, <1>15 DEF Next

LEMMA CallersStep ==
    ASSUME BoundInv, [Next]_vars
    PROVE  CallersHadConnections'
<1> USE DEF BoundInv, CallersHadConnections, TypeOK
<1> DEFINE Grows == /\ \A s \in Sockets : sock'[s] = "new" => sock[s] = "new"
                    /\ \A c \in awaitingOwner' : c \in awaitingOwner \/ Open(c.socket)
<1>g. ASSUME Grows, awaitingOwner' \subseteq [socket : Sockets, via : Vias]
      PROVE  CallersHadConnections'
  BY <1>g DEF Open
<1>s. ASSUME UNCHANGED <<awaitingOwner, sock>> PROVE CallersHadConnections'
  BY <1>s
<1>1. ASSUME NEW s \in Sockets, NEW via \in Vias, NEW queue, Open(s), BeginJoin(s, via, queue)
      PROVE  CallersHadConnections'
  <2>1. sock' = sock /\ awaitingOwner' \subseteq awaitingOwner \cup {[socket |-> s, via |-> via]}
    BY <1>1 DEF BeginJoin, JoinMeeting, linkVars
  <2>2. QED
    BY <1>1, <2>1 DEF Open
<1>2. ASSUME NEW s \in Sockets, Connect(s) \/ Disconnect(s) \/ ServerDisconnects(s)
      PROVE  CallersHadConnections'
  BY <1>2 DEF Connect, Disconnect, ServerDisconnects, Drop, asyncVars
<1>3. ASSUME NEW s \in Sockets, JoinRoom(s) PROVE CallersHadConnections'
  BY <1>1, <1>3 DEF JoinRoom
<1>4. ASSUME NEW s \in Sockets, NEW via \in Vias, OwnerConfirmed(s, via) \/ OwnerRefused(s, via)
      PROVE  CallersHadConnections'
  BY <1>4 DEF OwnerConfirmed, OwnerRefused, JoinMeeting, linkVars
<1>5. ASSUME NEW s \in Sockets, LeaveRoom(s) \/ LeaveTimerFires(s) PROVE CallersHadConnections'
  BY <1>s, <1>5 DEF LeaveRoom, LeaveTimerFires, asyncVars
<1>6. ASSUME NEW u \in Users, Admit(u) PROVE CallersHadConnections'
  <2>1. waiting[u] \in Sockets
    BY <1>6 DEF Admit
  <2>2. CASE Open(waiting[u])
    BY <1>1, <1>6, <2>1, <2>2 DEF Admit
  <2>3. CASE ~Open(waiting[u])
    BY <1>s, <1>6, <2>3 DEF Admit, asyncVars, linkVars
  <2>4. QED
    BY <2>2, <2>3
<1>7. ASSUME NEW u \in Users, Reject(u) \/ \E r : Kick(r, u) PROVE CallersHadConnections'
  BY <1>7 DEF Reject, Kick, HangUp, asyncVars
<1>8. ASSUME NEW r, NEW u \in Users, Promote(r, u) \/ Demote(r, u) PROVE CallersHadConnections'
  BY <1>s, <1>8 DEF Promote, Demote, asyncVars, linkVars
<1>9. ASSUME NEW r, NEW b \in BOOLEAN, SetLocked(r, b) PROVE CallersHadConnections'
  BY <1>s, <1>9 DEF SetLocked, asyncVars, linkVars
<1>10. CASE EndMeeting \/ DeleteMeeting \/ RouterReady \/ RouterFails \/ UNCHANGED vars
  BY <1>s, <1>10 DEF EndMeeting, DeleteMeeting, RouterReady, RouterFails, vars, asyncVars, linkVars
<1>11. QED
  BY <1>2, <1>3, <1>4, <1>5, <1>6, <1>7, <1>8, <1>9, <1>10 DEF Next

LEMMA BoundInvHolds == Spec => []BoundInv
<1>1. Init => BoundInv
  BY InitTypes DEF Init, BoundInv, BoundParts, OwnConnections, WaitOrSit, SeatsHadConnections,
         CallersHadConnections, HeldTimers, EndedIsEmpty, Seated
<1>2. BoundInv /\ TypeOK' /\ EndedIsEmpty' /\ [Next]_vars => BoundInv'
  BY SeatStep, CallersStep DEF BoundInv
<1>3. QED
  BY <1>1, <1>2, TypeCorrect, EndedStaysEmpty, PTL DEF Spec

(* Whoever is left on a dead connection, without a timeout in a seat or    *)
(* without eviction in the waiting room, got there by a lookup that was    *)
(* answered after the connection dropped: handleDisconnect misses no other *)
(* seat and no other entry, in any deployment.                             *)
THEOREM NothingElseStrands == Spec => OnlyLateLookupsStrand
<1>1. BoundInv /\ [Next]_vars =>
        [\A u \in Users : Strands(u) => LateLookup(u)]_vars
  BY SeatStep DEF Keeps, Strands
<1>2. QED
  BY <1>1, BoundInvHolds, PTL DEF Spec, OnlyLateLookupsStrand

---------------------------------------------------------------------------
(* Timeouts that no seat knows of.                                         *)

(* Nothing new is armed, and who forgets a timeout has none armed.         *)
LEMMA NotForgotten ==
    ASSUME timers' \subseteq timers,
           \A u \in Users : \/ leaveTimer'[u] = leaveTimer[u]
                             \/ leaveTimer[u] \notin timers'
    PROVE  \A s \in Sockets : Stale(s)' => Stale(s)
BY DEF Stale

LEMMA JoinForgetsNothing ==
    ASSUME BoundInv, NEW s \in Sockets, NEW via \in Vias, NEW queue,
           BeginJoin(s, via, queue) \/ JoinMeeting(s, via, queue)
    PROVE  \A t \in Sockets : Stale(t)' => Stale(t)
<1> DEFINE u == UserOf[s]
<1>1. ASSUME UNCHANGED <<timers, leaveTimer>> PROVE \A t \in Sockets : Stale(t)' => Stale(t)
  BY <1>1 DEF Stale
<1>2. CASE Refuse(s, queue) \/ Park(s, via, queue)
  BY <1>1, <1>2 DEF Refuse, Park, seatVars
<1>3. CASE Rebind(s, queue)
  BY <1>3, NotForgotten DEF Rebind, CancelledTimers, BoundInv, TypeOK
<1>4. CASE TakeSeat(s, queue)
  <2>1. leaveTimer[u] = NoSocket
    BY <1>4, NoSeatNoTimer DEF TakeSeat, Existing
  <2>2. leaveTimer' = leaveTimer
    BY <1>4, <2>1 DEF TakeSeat, BoundInv, TypeOK
  <2>3. QED
    BY <1>1, <1>4, <2>2 DEF TakeSeat
<1>5. CASE BeginJoin(s, via, queue) /\ RedisEnabled
  BY <1>1, <1>5 DEF BeginJoin, seatVars
<1>6. QED
  BY <1>2, <1>3, <1>4, <1>5 DEF BeginJoin, JoinMeeting

LEMMA StaleStep ==
    ASSUME BoundInv, [Next]_vars, NEW t \in Sockets, Stale(t)', ~Stale(t)
    PROVE  LeavesBehind(t)
<1> USE DEF BoundInv, TypeOK
<1>s. ASSUME UNCHANGED <<timers, leaveTimer>> PROVE FALSE
  BY <1>s DEF Stale
<1>j. ASSUME NEW s \in Sockets, NEW via \in Vias, NEW queue,
             BeginJoin(s, via, queue) \/ JoinMeeting(s, via, queue)
      PROVE  FALSE
  BY <1>j, JoinForgetsNothing
<1>1. ASSUME NEW s \in Sockets, JoinRoom(s) PROVE FALSE
  BY <1>j, <1>1 DEF JoinRoom
<1>2. ASSUME NEW s \in Sockets, NEW via \in Vias, OwnerConfirmed(s, via) PROVE FALSE
  BY <1>j, <1>2 DEF OwnerConfirmed
<1>3. ASSUME NEW s \in Sockets, LeaveRoom(s) PROVE LeavesBehind(t)
  <2>1. CASE status' # "live"
    BY <2>1 DEF LeavesBehind
  <2>2. CASE Vacate(UserOf[s])
    <3>1. leaveTimer[UserOf[s]] = NoSocket
      BY <1>3, NoSeatNoTimer DEF LeaveRoom, Active
    <3>2. UNCHANGED <<timers, leaveTimer>>
      BY <1>3, <2>2, <3>1 DEF LeaveRoom, Vacate
    <3>3. QED
      BY <1>s, <3>2
  <2>3. QED
    BY <1>3, <2>1, <2>2 DEF LeaveRoom, FinalizeLeave, End
<1>4. ASSUME NEW s \in Sockets, Disconnect(s) \/ ServerDisconnects(s) PROVE FALSE
  <2> DEFINE u == UserOf[s]
  <2>1. Drop(s)
    BY <1>4 DEF Disconnect, ServerDisconnects
  <2>2. CASE ~IsEnded /\ ArmsTimer(s)
    <3>1. leaveTimer[u] = NoSocket
      BY <2>1, <2>2, NoSeatNoTimer DEF ArmsTimer, Drop
    <3>2. leaveTimer' = [leaveTimer EXCEPT ![u] = s] /\ timers' = timers \cup {s}
      BY <2>1, <2>2 DEF Drop
    <3>3. QED
      BY <3>1, <3>2 DEF Stale
  <2>3. CASE ~(~IsEnded /\ ArmsTimer(s))
    BY <1>s, <2>1, <2>3 DEF Drop
  <2>4. QED
    BY <2>2, <2>3
<1>5. ASSUME NEW s \in Sockets, LeaveTimerFires(s) PROVE LeavesBehind(t)
  <2> DEFINE u == UserOf[s]
  <2>1. CASE status' # "live"
    BY <2>1 DEF LeavesBehind
  <2>2. CASE ~Seated(u)
    <3>1. timers' \subseteq timers /\ leaveTimer' = leaveTimer
      BY <1>5, <2>2 DEF LeaveTimerFires, seatVars
    <3>2. QED
      BY <3>1 DEF Stale
  <2>3. CASE Vacate(u)
    <3>1. /\ s \in timers /\ timers' = timers \ {s}
          /\ leaveTimer' = [leaveTimer EXCEPT ![u] = NoSocket]
      BY <1>5, <2>3 DEF LeaveTimerFires, Vacate
    <3>2. UserOf[t] = u /\ t # s /\ leaveTimer[u] = t
      BY <3>1 DEF Stale
    <3>3. Stale(s)
      BY <3>1, <3>2 DEF Stale
    <3>4. QED
      BY <1>5, <3>2, <3>3 DEF LeavesBehind
  <2>4. QED
    BY <1>5, <2>1, <2>2, <2>3 DEF LeaveTimerFires, FinalizeLeave, End
<1>6. ASSUME NEW r \in Roles \cup {"trusted"}, NEW u \in Users, Kick(r, u) PROVE LeavesBehind(t)
  <2>1. timers' = timers /\ leaveTimer' = [leaveTimer EXCEPT ![u] = NoSocket]
    BY <1>6 DEF Kick, Vacate
  <2>2. UserOf[t] = u
    BY <2>1 DEF Stale
  <2>3. r \in Requesters("remove_participant")
    BY <1>6 DEF Kick
  <2>4. QED
    BY <1>6, <2>2, <2>3 DEF LeavesBehind
<1>7. ASSUME NEW u \in Users, Admit(u) PROVE FALSE
  <2>1. waiting[u] \in Sockets
    BY <1>7 DEF Admit
  <2>2. QED
    BY <1>j, <1>s, <1>7, <2>1 DEF Admit, seatVars
<1>8. CASE EndMeeting
  BY <1>8 DEF EndMeeting, End, LeavesBehind
<1>9. CASE DeleteMeeting
  BY <1>9 DEF DeleteMeeting, LeavesBehind
<1>10. ASSUME NEW s \in Sockets, Connect(s) PROVE FALSE
  BY <1>s, <1>10 DEF Connect, seatVars
<1>11. ASSUME NEW s \in Sockets, NEW via \in Vias, OwnerRefused(s, via) PROVE FALSE
  BY <1>s, <1>11 DEF OwnerRefused, seatVars
<1>12. ASSUME NEW u \in Users, Reject(u) PROVE FALSE
  BY <1>s, <1>12 DEF Reject, seatVars
<1>13. ASSUME NEW r, NEW u \in Users, Promote(r, u) \/ Demote(r, u) PROVE FALSE
  BY <1>s, <1>13 DEF Promote, Demote
<1>14. ASSUME NEW r, NEW b \in BOOLEAN, SetLocked(r, b) PROVE FALSE
  BY <1>s, <1>14 DEF SetLocked, seatVars
<1>15. CASE RouterReady \/ RouterFails \/ UNCHANGED vars
  BY <1>s, <1>15 DEF RouterReady, RouterFails, vars, seatVars
<1>16. QED
  BY <1>1, <1>2, <1>3, <1>4, <1>5, <1>6, <1>7, <1>8, <1>9, <1>10, <1>11, <1>12, <1>13,
     <1>14, <1>15 DEF Next

(* In a live meeting a timeout outlives what it was armed for by a kick,   *)
(* or in the wake of one that did, and never by a reconnect, a leave or a  *)
(* second drop, in any deployment.                                         *)
THEOREM NothingElseLeavesTimers == Spec => OnlyKicksLeaveTimers
<1>1. BoundInv /\ [Next]_vars =>
        [\A s \in Sockets : Stale(s)' /\ ~Stale(s) => LeavesBehind(s)]_vars
  BY StaleStep
<1>2. QED
  BY <1>1, BoundInvHolds, PTL DEF Spec, OnlyKicksLeaveTimers

---------------------------------------------------------------------------
(* One instance.                                                           *)

SeatParts ==
    /\ OwnConnections
    /\ WaitOrSit
    /\ SeatsHadConnections
    /\ SeatHasTimer
    /\ WaitersAreConnected

(* The inductive invariant behind SeatHasTimer and WaitersAreConnected.    *)
SeatInv == TypeOK /\ EndedIsEmpty /\ awaitingOwner = {} /\ SeatParts

(* Without Redis no join awaits a lookup, so none comes late.              *)
LEMMA NobodyAwaitsOwner ==
    ASSUME ~RedisEnabled
    PROVE  Spec => [](awaitingOwner = {})
<1> USE DEF asyncVars
<1>1. Init => awaitingOwner = {}
  BY DEF Init
<1>2. TypeOK /\ awaitingOwner = {} /\ [Next]_vars => (awaitingOwner = {})'
  <2> SUFFICES ASSUME TypeOK, awaitingOwner = {}, [Next]_vars PROVE awaitingOwner' = {}
    OBVIOUS
  <2>1. ASSUME NEW s \in Sockets,
               Connect(s) \/ LeaveRoom(s) \/ Disconnect(s) \/ ServerDisconnects(s) \/ LeaveTimerFires(s)
        PROVE  awaitingOwner' = {}
    BY <2>1 DEF Connect, LeaveRoom, Disconnect, ServerDisconnects, Drop, LeaveTimerFires
  <2>2. ASSUME NEW s \in Sockets, JoinRoom(s) PROVE awaitingOwner' = {}
    BY <2>2 DEF JoinRoom, BeginJoin
  <2>3. ASSUME NEW s \in Sockets, NEW via \in Vias, OwnerConfirmed(s, via) \/ OwnerRefused(s, via)
        PROVE  awaitingOwner' = {}
    BY <2>3 DEF OwnerConfirmed, OwnerRefused
  <2>4. ASSUME NEW u \in Users, Admit(u) \/ Reject(u) PROVE awaitingOwner' = {}
    BY <2>4 DEF Admit, Reject, BeginJoin
  <2>5. ASSUME NEW r, NEW u \in Users, Kick(r, u) \/ Promote(r, u) \/ Demote(r, u)
        PROVE  awaitingOwner' = {}
    BY <2>5 DEF Kick, Promote, Demote
  <2>6. ASSUME NEW r, NEW b \in BOOLEAN, SetLocked(r, b) PROVE awaitingOwner' = {}
    BY <2>6 DEF SetLocked
  <2>7. CASE RouterReady \/ RouterFails \/ EndMeeting \/ DeleteMeeting \/ UNCHANGED vars
    BY <2>7 DEF RouterReady, RouterFails, EndMeeting, DeleteMeeting, vars
  <2>8. QED
    BY <2>1, <2>2, <2>3, <2>4, <2>5, <2>6, <2>7 DEF Next
<1>3. QED
  BY <1>1, <1>2, TypeCorrect, PTL DEF Spec

LEMMA SeatInvHolds ==
    ASSUME ~RedisEnabled
    PROVE  Spec => []SeatInv
<1> DEFINE Kept == SeatHasTimer /\ WaitersAreConnected
<1>1. Init => Kept
  BY DEF Init, SeatHasTimer, WaitersAreConnected, Covered, Attached, Seated
<1>2. BoundInv /\ awaitingOwner = {} /\ Kept /\ [Next]_vars => Kept'
  <2> SUFFICES ASSUME BoundInv, awaitingOwner = {}, Kept, [Next]_vars PROVE Kept'
    OBVIOUS
  <2>1. \A u \in Users : ~LateLookup(u)
    BY DEF LateLookup, OwnerConfirmed
  <2>2. \A u \in Users : Keeps(u)
    BY <2>1, SeatStep
  <2>3. QED
    BY <2>2 DEF Keeps, SeatHasTimer, WaitersAreConnected
<1>3. BoundInv /\ awaitingOwner = {} /\ Kept => SeatInv
  BY DEF BoundInv, BoundParts, SeatInv, SeatParts
<1>4. QED
  BY <1>1, <1>2, <1>3, BoundInvHolds, NobodyAwaitsOwner, PTL DEF Spec

(* A dropped seat always has its timeout armed and a connected one has     *)
(* none, however drops, reconnects, kicks and timeouts interleave.         *)
THEOREM SeatsHaveTimers ==
    ASSUME ~RedisEnabled
    PROVE  Spec => []SeatHasTimer
<1>1. SeatInv => SeatHasTimer
  BY DEF SeatInv, SeatParts
<1>2. QED
  BY <1>1, SeatInvHolds, PTL

(* Nobody waits on a dead connection, so an admit never meets one.         *)
THEOREM WaitersStayConnected ==
    ASSUME ~RedisEnabled
    PROVE  Spec => []WaitersAreConnected
<1>1. SeatInv => WaitersAreConnected
  BY DEF SeatInv, SeatParts
<1>2. QED
  BY <1>1, SeatInvHolds, PTL
=============================================================================
