---------------------------- MODULE MeetingRoom ----------------------------
(***************************************************************************)
(* One meeting on the instance that owns it: seats, waiting room, lock,    *)
(* reconnect grace timers and the router's existence, as SignalingService, *)
(* MeetingService, ModerationService, WaitingRoomService and the gateways' *)
(* connection handlers drive them.                                         *)
(*                                                                         *)
(* The process is a single Node thread, so a handler runs to its next      *)
(* await in one step.  Steps interleave at the Redis ownership lookup (only *)
(* when RedisEnabled), at the creation of the router, at the grace timers,  *)
(* at the deferred disconnects of end(), and at every client event.  An    *)
(* await of an already settled promise takes only microtasks, during which *)
(* no other event is handled, and is not a step of its own.                *)
(*                                                                         *)
(* An operator MutX, next to the X it replaces, is X with a mistake in it: *)
(* it shows that a property notices the mistake, and the model never uses  *)
(* it.                                                                     *)
(***************************************************************************)

CONSTANTS
    Users,         \* user ids
    Host,          \* meeting.hostId
    Sockets,       \* connections; socket.io never reuses an id
    UserOf,        \* the authenticated user of each connection
    NoSocket,      \* "no connection"
    RedisEnabled   \* REDIS_URL configured: ownership lookup and remote disconnects

ASSUME HostAssumption == Host \in Users
ASSUME SocketsAssumption == UserOf \in [Sockets -> Users] /\ NoSocket \notin Sockets
ASSUME RedisAssumption == RedisEnabled \in BOOLEAN

VARIABLES
    type,                \* meeting.type, fixed at creation
    waitingRoomEnabled,  \* meeting.waitingRoomEnabled, fixed at creation
    status,              \* "live", "ended" (endedAt set) or "deleted" (record gone)
    locked,              \* meeting.locked
    router,              \* RouterManager: "none", "pending" (pendingRooms) or "ready" (rooms)
    socketId,            \* participants[u].socketId, NoSocket when u holds no seat
    role,                \* participants[u].role
    leaveTimer,          \* participants[u].pendingLeaveTimer, named by the dropped socket
    waiting,             \* waitingParticipants[u].socketId
    timers,              \* armed grace timeouts, each named by the dropped socket
    awaitingOwner,       \* joinRoom calls awaiting the ownership lookup
    awaitingRouter,      \* joinRoom calls awaiting the router
    sock,                \* connection state
    doomed,              \* connections a disconnectSockets() is under way for
    told                 \* what the client at s last heard of its own place

configVars == <<type, waitingRoomEnabled>>
seatVars   == <<socketId, role, leaveTimer>>
asyncVars  == <<awaitingOwner, awaitingRouter>>
linkVars   == <<sock, doomed>>
vars == <<configVars, status, locked, router, seatVars, waiting, timers,
          asyncVars, linkVars, told>>

Types   == {"group", "one_to_one"}
Roles   == {"host", "moderator", "participant"}
NoRole  == "none"
Places  == {"nothing", "waiting", "joined", "admittedToWait"}
Vias    == {"joinRoom", "admit"}
MaybeSocket == Sockets \cup {NoSocket}

----------------------------------------------------------------------------
(* Readings of the state.                                                  *)

Open(s)   == sock[s] = "open"
Seated(u) == socketId[u] # NoSocket
Participants == {u \in Users : Seated(u)}

MutIsEnded == status = "deleted"   \* overlooks an ended meeting kept on record
IsEnded    == status # "live"

MutResolveRole(u) == IF u = Host THEN "host" ELSE NoRole   \* only knows the host
ResolveRole(u) == IF u = Host THEN "host" ELSE "participant"

(* requireParticipant: s is the connection its user's seat is bound to.    *)
Active(s) == Open(s) /\ socketId[UserOf[s]] = s

(* DEFAULT_ROLE_PERMISSIONS for the operations of this module; nothing in  *)
(* the code writes Meeting.permissionOverrides.                            *)
Permissions(r) ==
    CASE r = "host" -> {"remove_participant", "manage_waiting_room", "lock_meeting",
                        "promote_moderator", "demote_moderator"}
      [] r = "moderator" -> {"remove_participant", "manage_waiting_room"}
      [] OTHER -> {}

(* The roles under which someone can invoke the operation now.  A call's   *)
(* gateway exposes no moderation; the REST routes act as "trusted" on any  *)
(* meeting.                                                                *)
LiveRequesters(p) ==
    {r \in Roles : /\ type = "group" /\ p \in Permissions(r)
                   /\ \E s \in Sockets : Active(s) /\ role[UserOf[s]] = r}
Requesters(p) == LiveRequesters(p) \cup {"trusted"}

----------------------------------------------------------------------------
(* Parts of handlers.                                                      *)

MutExisting(s) == socketId[UserOf[s]] = s   \* looks up by connection, not by user
Existing(s)    == Seated(UserOf[s])      \* participantService.findByUserId

MustWait(u)     == waitingRoomEnabled /\ ResolveRole(u) # "host"
MutLockedOut(u) == locked /\ ResolveRole(u) = "moderator"   \* tests the wrong role
LockedOut(u)    == locked /\ ResolveRole(u) # "host"

MutClosedRouter == "none"   \* forgets the creation under way, and who awaits it
ClosedRouter    == IF router = "ready" THEN "none" ELSE router   \* closeRouter

MutCancelledTimers(u) == timers   \* forgets the timeout, cancels nothing
CancelledTimers(u)    == timers \ {leaveTimer[u]}   \* clearTimeout

Vacate(u) ==
    /\ socketId'   = [socketId EXCEPT ![u] = NoSocket]
    /\ role'       = [role EXCEPT ![u] = NoRole]
    /\ leaveTimer' = [leaveTimer EXCEPT ![u] = NoSocket]

(* MeetingService.end, with `seats` the socketId map it finds: empties the *)
(* meeting, closes the router and defers one disconnect per participant.   *)
ClearMeeting(seats) ==
    /\ socketId'   = [u \in Users |-> NoSocket]
    /\ role'       = [u \in Users |-> NoRole]
    /\ leaveTimer' = [u \in Users |-> NoSocket]
    /\ waiting'    = [u \in Users |-> NoSocket]
    /\ router'     = ClosedRouter
    /\ doomed'     = doomed \cup {s \in Sockets : Open(s) /\ seats[UserOf[s]] = s}

End(seats) == status' = "ended" /\ ClearMeeting(seats)

(* Off by one: the last but one to leave closes the router.                *)
MutLastOut(u) == \A v, w \in Participants \ {u} : v = w
LastOut(u)    == Participants \subseteq {u}

FinalizeLeave(u) ==
    \/ /\ type = "one_to_one"
       /\ End([socketId EXCEPT ![u] = NoSocket])
    \/ /\ type = "group"
       /\ Vacate(u)
       /\ router' = IF LastOut(u) THEN ClosedRouter ELSE router
       /\ UNCHANGED <<status, waiting, doomed>>

(* RealtimeBroadcaster.disconnectSocket: at once on a single instance,     *)
(* through the Redis adapter's channel otherwise.                          *)
HangUp(s) ==
    IF RedisEnabled
    THEN doomed' = (IF Open(s) THEN doomed \cup {s} ELSE doomed) /\ UNCHANGED <<sock, told>>
    ELSE /\ sock' = [sock EXCEPT ![s] = "closed"]
         /\ told' = [told EXCEPT ![s] = "nothing"]
         /\ doomed' = doomed \ {s}

Tell(s, place) == told' = [told EXCEPT ![s] = IF Open(s) THEN place ELSE @]

(* The end of joinRoom: getOrCreateRouter and the reply.                   *)
MutAwaitRouter(s, newcomer) ==   \* answers without awaiting the creation
    Tell(s, "joined") /\ router' = "ready" /\ UNCHANGED awaitingRouter

AwaitRouter(s, newcomer) ==
    IF router = "ready"
    THEN Tell(s, "joined") /\ UNCHANGED <<router, awaitingRouter>>
    ELSE /\ router' = "pending"
         /\ awaitingRouter' = awaitingRouter \cup {[socket |-> s, newcomer |-> newcomer]}
         /\ Tell(s, "nothing")

Refuse(s, queue) ==
    /\ IsEnded \/ (~Existing(s) /\ ~MustWait(UserOf[s]) /\ LockedOut(UserOf[s]))
    /\ waiting' = queue
    /\ Tell(s, "nothing")
    /\ UNCHANGED <<router, seatVars, timers, awaitingRouter>>

Rebind(s, queue) ==
    LET u == UserOf[s] IN
    /\ ~IsEnded /\ Existing(s)
    /\ timers' = CancelledTimers(u)
    /\ leaveTimer' = [leaveTimer EXCEPT ![u] = NoSocket]
    /\ socketId' = [socketId EXCEPT ![u] = s]
    /\ waiting' = queue
    /\ AwaitRouter(s, FALSE)
    /\ UNCHANGED role

Park(s, via, queue) ==
    /\ ~IsEnded /\ ~Existing(s) /\ MustWait(UserOf[s])
    /\ waiting' = [queue EXCEPT ![UserOf[s]] = s]
    /\ Tell(s, IF via = "admit" THEN "admittedToWait" ELSE "waiting")
    /\ UNCHANGED <<router, seatVars, timers, awaitingRouter>>

TakeSeat(s, queue) ==
    LET u == UserOf[s] IN
    /\ ~IsEnded /\ ~Existing(s) /\ ~MustWait(u) /\ ~LockedOut(u)
    /\ socketId' = [socketId EXCEPT ![u] = s]
    /\ role' = [role EXCEPT ![u] = ResolveRole(u)]
    /\ leaveTimer' = [leaveTimer EXCEPT ![u] = NoSocket]
    /\ waiting' = queue
    /\ AwaitRouter(s, TRUE)
    /\ UNCHANGED timers

(* joinRoom after its ownership check, with `queue` the waiting room as it *)
(* stands then.                                                            *)
JoinMeeting(s, via, queue) ==
    /\ \/ Refuse(s, queue)
       \/ Rebind(s, queue)
       \/ Park(s, via, queue)
       \/ TakeSeat(s, queue)
    /\ UNCHANGED <<configVars, status, locked, linkVars>>

(* joinRoom: the ownership lookup is a no-op without Redis.                *)
BeginJoin(s, via, queue) ==
    IF RedisEnabled
    THEN /\ awaitingOwner' = awaitingOwner \cup {[socket |-> s, via |-> via]}
         /\ waiting' = queue
         /\ Tell(s, "nothing")
         /\ UNCHANGED <<configVars, status, locked, router, seatVars, timers,
                        awaitingRouter, linkVars>>
    ELSE JoinMeeting(s, via, queue) /\ UNCHANGED awaitingOwner

----------------------------------------------------------------------------
(* Actions.                                                                *)

Connect(s) ==
    /\ sock[s] = "new"
    /\ sock' = [sock EXCEPT ![s] = "open"]
    /\ UNCHANGED <<configVars, status, locked, router, seatVars, waiting, timers,
                   asyncVars, doomed, told>>

JoinRoom(s) == Open(s) /\ BeginJoin(s, "joinRoom", waiting)

(* The lookup answers "here" or "nobody": joinRoom goes on, whatever has   *)
(* become of the connection meanwhile.                                     *)
OwnerConfirmed(s, via) ==
    /\ [socket |-> s, via |-> via] \in awaitingOwner
    /\ awaitingOwner' = awaitingOwner \ {[socket |-> s, via |-> via]}
    /\ JoinMeeting(s, via, waiting)

(* The lookup fails or names another instance: joinRoom throws.            *)
OwnerRefused(s, via) ==
    /\ [socket |-> s, via |-> via] \in awaitingOwner
    /\ awaitingOwner' = awaitingOwner \ {[socket |-> s, via |-> via]}
    /\ UNCHANGED <<configVars, status, locked, router, seatVars, waiting, timers,
                   awaitingRouter, linkVars, told>>

(* createRoom settles; every join that awaits it goes on in that tick.     *)
RouterReady ==
    /\ router = "pending"
    /\ router' = "ready"
    /\ awaitingRouter' = {}
    /\ told' = [s \in Sockets |->
                  IF Open(s) /\ \E c \in awaitingRouter : c.socket = s
                  THEN "joined" ELSE told[s]]
    /\ UNCHANGED <<configVars, status, locked, seatVars, waiting, timers,
                   awaitingOwner, linkVars>>

RouterFails ==
    /\ router = "pending"
    /\ router' = "none"
    /\ awaitingRouter' = {}
    /\ UNCHANGED <<configVars, status, locked, seatVars, waiting, timers,
                   awaitingOwner, linkVars, told>>

LeaveRoom(s) ==
    /\ Active(s)
    /\ FinalizeLeave(UserOf[s])
    /\ Tell(s, "nothing")
    /\ UNCHANGED <<configVars, locked, timers, asyncVars, sock>>

MutEvictsWaiter(s) == FALSE   \* joinRoom did not stamp the waiting connection
EvictsWaiter(s)    == waiting[UserOf[s]] = s

(* Two wrong rules: any old connection of a participant arms a timeout; or *)
(* the host's seat is kept for ever.                                       *)
MutArmsTimer(s)     == ~EvictsWaiter(s) /\ Seated(UserOf[s])
MutHostKeepsSeat(s) ==
    ~EvictsWaiter(s) /\ socketId[UserOf[s]] = s /\ UserOf[s] # Host
ArmsTimer(s)        == ~EvictsWaiter(s) /\ socketId[UserOf[s]] = s

(* The connection goes away and the gateway's handleDisconnect runs.       *)
Drop(s) ==
    LET u == UserOf[s] IN
    /\ Open(s)
    /\ sock' = [sock EXCEPT ![s] = "closed"]
    /\ told' = [told EXCEPT ![s] = "nothing"]
    /\ doomed' = doomed \ {s}
    /\ IF ~IsEnded /\ EvictsWaiter(s)
       THEN waiting' = [waiting EXCEPT ![u] = NoSocket]
       ELSE UNCHANGED waiting
    /\ IF ~IsEnded /\ ArmsTimer(s)
       THEN /\ leaveTimer' = [leaveTimer EXCEPT ![u] = s]
            /\ timers' = timers \cup {s}
       ELSE UNCHANGED <<leaveTimer, timers>>
    /\ UNCHANGED <<configVars, status, locked, router, socketId, role, asyncVars>>

Disconnect(s) == Drop(s)

(* A disconnect of end()'s setImmediate, or one sent through Redis, lands. *)
ServerDisconnects(s) == s \in doomed /\ Drop(s)

(* The timeout armed when s dropped fires; it knows only the user.         *)
LeaveTimerFires(s) ==
    /\ s \in timers
    /\ timers' = timers \ {s}
    /\ IF Seated(UserOf[s])
       THEN FinalizeLeave(UserOf[s])
       ELSE UNCHANGED <<status, router, seatVars, waiting, doomed>>
    /\ UNCHANGED <<configVars, locked, asyncVars, sock, told>>

Kick(r, u) ==
    /\ r \in Requesters("remove_participant")
    /\ Seated(u)
    /\ ~(r = "moderator" /\ role[u] = "host")
    /\ Vacate(u)
    /\ HangUp(socketId[u])
    /\ UNCHANGED <<configVars, status, locked, router, waiting, timers, asyncVars>>

Promote(r, u) ==
    /\ r \in Requesters("promote_moderator")
    /\ Seated(u) /\ role[u] # "host"
    /\ role' = [role EXCEPT ![u] = "moderator"]
    /\ UNCHANGED <<configVars, status, locked, router, socketId, leaveTimer, waiting,
                   timers, asyncVars, linkVars, told>>

Demote(r, u) ==
    /\ r \in Requesters("demote_moderator")
    /\ Seated(u) /\ role[u] # "host"
    /\ role' = [role EXCEPT ![u] = "participant"]
    /\ UNCHANGED <<configVars, status, locked, router, socketId, leaveTimer, waiting,
                   timers, asyncVars, linkVars, told>>

(* setLocked does not look at isEnded: a kept record can still be locked.  *)
SetLocked(r, b) ==
    /\ r \in Requesters("lock_meeting")
    /\ status # "deleted"
    /\ locked' = b
    /\ UNCHANGED <<configVars, status, router, seatVars, waiting, timers, asyncVars,
                   linkVars, told>>

(* onAdmit: the entry goes, then its connection's joinRoom is called.      *)
Admit(u) ==
    LET s == waiting[u]
        queue == [waiting EXCEPT ![u] = NoSocket] IN
    /\ LiveRequesters("manage_waiting_room") # {}
    /\ s # NoSocket
    /\ IF Open(s)
       THEN BeginJoin(s, "admit", queue)
       ELSE /\ waiting' = queue
            /\ UNCHANGED <<configVars, status, locked, router, seatVars, timers,
                           asyncVars, linkVars, told>>

Reject(u) ==
    /\ LiveRequesters("manage_waiting_room") # {}
    /\ waiting[u] # NoSocket
    /\ waiting' = [waiting EXCEPT ![u] = NoSocket]
    /\ HangUp(waiting[u])
    /\ UNCHANGED <<configVars, status, locked, router, seatVars, timers, asyncVars>>

(* The host's endMeeting, either party's end of a call, or REST.           *)
EndMeeting ==
    /\ status = "live"
    /\ End(socketId)
    /\ UNCHANGED <<configVars, locked, timers, asyncVars, sock, told>>

DeleteMeeting ==
    /\ \/ status = "live" /\ ClearMeeting(socketId)
       \/ status = "ended" /\ UNCHANGED <<router, seatVars, waiting, doomed>>
    /\ status' = "deleted"
    /\ UNCHANGED <<configVars, locked, timers, asyncVars, sock, told>>

Init ==
    /\ type \in Types
    /\ waitingRoomEnabled \in {w \in BOOLEAN : w => type = "group"}
    /\ status = "live"
    /\ locked = FALSE
    /\ router = "none"
    /\ socketId = [u \in Users |-> NoSocket]
    /\ role = [u \in Users |-> NoRole]
    /\ leaveTimer = [u \in Users |-> NoSocket]
    /\ waiting = [u \in Users |-> NoSocket]
    /\ timers = {}
    /\ awaitingOwner = {}
    /\ awaitingRouter = {}
    /\ sock = [s \in Sockets |-> "new"]
    /\ doomed = {}
    /\ told = [s \in Sockets |-> "nothing"]

RouterSettles == RouterReady \/ RouterFails
OwnerSettles(s, via) == OwnerConfirmed(s, via) \/ OwnerRefused(s, via)

Next ==
    \/ \E s \in Sockets :
          \/ Connect(s)
          \/ JoinRoom(s)
          \/ LeaveRoom(s)
          \/ Disconnect(s)
          \/ ServerDisconnects(s)
          \/ LeaveTimerFires(s)
          \/ \E via \in Vias : OwnerConfirmed(s, via) \/ OwnerRefused(s, via)
    \/ RouterReady
    \/ RouterFails
    \/ \E r \in Roles \cup {"trusted"} :
          \/ \E u \in Users : Kick(r, u) \/ Promote(r, u) \/ Demote(r, u)
          \/ \E b \in BOOLEAN : SetLocked(r, b)
    \/ \E u \in Users : Admit(u) \/ Reject(u)
    \/ EndMeeting
    \/ DeleteMeeting

Spec == Init /\ [][Next]_vars

(* What Redis and mediasoup owe the code: each awaited promise settles.    *)
SettlingSpec ==
    /\ Spec
    /\ WF_vars(RouterSettles)
    /\ \A s \in Sockets, via \in Vias : WF_vars(OwnerSettles(s, via))

----------------------------------------------------------------------------
(* Type correctness; a seat and its role come and go together.             *)
TypeOK ==
    /\ type \in Types
    /\ waitingRoomEnabled \in BOOLEAN
    /\ status \in {"live", "ended", "deleted"}
    /\ locked \in BOOLEAN
    /\ router \in {"none", "pending", "ready"}
    /\ socketId \in [Users -> MaybeSocket]
    /\ role \in [Users -> Roles \cup {NoRole}]
    /\ leaveTimer \in [Users -> MaybeSocket]
    /\ waiting \in [Users -> MaybeSocket]
    /\ timers \subseteq Sockets
    /\ awaitingOwner \subseteq [socket : Sockets, via : Vias]
    /\ awaitingRouter \subseteq [socket : Sockets, newcomer : BOOLEAN]
    /\ sock \in [Sockets -> {"new", "open", "closed"}]
    /\ doomed \subseteq Sockets
    /\ told \in [Sockets -> Places]
    /\ \A u \in Users : Seated(u) <=> role[u] # NoRole

(* A meeting that has ended holds nobody, neither in a seat nor in its     *)
(* waiting room, whatever joins were in flight when end() emptied it.      *)
EndedIsEmpty ==
    status # "live" => \A u \in Users : ~Seated(u) /\ waiting[u] = NoSocket

Covered(u) ==
    Seated(u) => IF Open(socketId[u])
                 THEN leaveTimer[u] = NoSocket
                 ELSE leaveTimer[u] = socketId[u] /\ socketId[u] \in timers

(* A seat waits on a grace timeout exactly while its connection is down:   *)
(* a dropped seat always has one armed, so it cannot linger for ever, and  *)
(* a seat with a live connection has none of its own.                      *)
SeatHasTimer == \A u \in Users : Covered(u)

Attached(u) == waiting[u] # NoSocket => Open(waiting[u])

(* No waiting entry points at a dead connection (handleDisconnect evicts). *)
WaitersAreConnected == \A u \in Users : Attached(u)

(* joinRoom goes on for a connection that dropped during the lookup.       *)
LateLookup(u) ==
    \E s \in Sockets, via \in Vias :
        UserOf[s] = u /\ ~Open(s) /\ OwnerConfirmed(s, via)

(* A seat loses its connection and gets no timeout, or a waiting entry its *)
(* connection.                                                             *)
Strands(u) == (Covered(u) /\ ~Covered(u)') \/ (Attached(u) /\ ~Attached(u)')

(* A seat that lost its connection and its timeout, or a waiting entry on  *)
(* a dead connection, comes from such a lookup and from nothing else,      *)
(* whatever drops, reconnects, kicks and timeouts interleave with it: the  *)
(* one await that handleDisconnect does not know of.                       *)
OnlyLateLookupsStrand == [][\A u \in Users : Strands(u) => LateLookup(u)]_vars

(* An armed timeout that its user's seat no longer knows of.               *)
Stale(s) == s \in timers /\ leaveTimer[UserOf[s]] # s

(* What may leave the timeout s armed behind.                              *)
LeavesBehind(s) ==
    \/ status' # "live"
    \/ \E r \in Requesters("remove_participant") : Kick(r, UserOf[s])
    \/ \E t \in Sockets : UserOf[t] = UserOf[s] /\ Stale(t) /\ LeaveTimerFires(t)

(* While the meeting lives only a kick leaves a timeout behind that no seat *)
(* knows of, or the firing of one so left behind: a reconnect cancels, a   *)
(* leave and a second drop find nothing to leave.                          *)
OnlyKicksLeaveTimers == [][\A s \in Sockets : Stale(s)' /\ ~Stale(s) => LeavesBehind(s)]_vars

(* A client that was told it joined and still holds its seat finds the     *)
(* router there, so its createTransport is not refused "Router not ready". *)
JoinedHasRouter ==
    \A s \in Sockets : (told[s] = "joined" /\ Active(s)) => router = "ready"

(* While a meeting is locked nobody but the host takes a seat, whatever    *)
(* joins were under way when it was locked.                                *)
LockedRoomOnlyShrinks ==
    [][locked /\ locked' => Participants' \subseteq Participants \cup {Host}]_vars

(* Joins wait for a router only while one is being created, so that its    *)
(* end answers them, although leaves, kicks, ends and the failure of a     *)
(* creation come between.                                                  *)
NoJoinIsForgotten == awaitingRouter # {} => router = "pending"

(* Every join that awaits the ownership lookup or the router is answered.  *)
JoinsAreAnswered ==
    /\ \A s \in Sockets, via \in Vias :
          [socket |-> s, via |-> via] \in awaitingOwner
             ~> [socket |-> s, via |-> via] \notin awaitingOwner
    /\ \A s \in Sockets, newcomer \in BOOLEAN :
          [socket |-> s, newcomer |-> newcomer] \in awaitingRouter
             ~> [socket |-> s, newcomer |-> newcomer] \notin awaitingRouter

(* A seat whose connection dropped is given up or taken over in the end.   *)
DroppedSeatsResolve ==
    \A s \in Sockets :
        (socketId[UserOf[s]] = s /\ ~Open(s)) ~> socketId[UserOf[s]] # s

(* The place a user has in the meeting, for Attendance.                    *)
PlaceOf(u) ==
    CASE Seated(u) /\ Open(socketId[u])  -> "in"
      [] Seated(u) /\ ~Open(socketId[u]) -> "grace"
      [] ~Seated(u) /\ waiting[u] # NoSocket -> "waiting"
      [] OTHER -> "out"

Promise == INSTANCE Attendance WITH
    over  <- status # "live",
    place <- [u \in Users |-> PlaceOf(u)],
    rank  <- role

(* The room keeps what Attendance promises: a reconnect within the grace   *)
(* period keeps the seat and the role, a grace period always ends, one     *)
(* user's coming or going moves nobody else, and the end empties the room. *)
KeepsAttendance == Promise!AttendanceSpec

(* A lookup that answers late seats a newcomer whose connection is gone.   *)
LateEntry(u) == LateLookup(u) /\ PlaceOf(u) = "out" /\ PlaceOf(u)' = "grace"

(* With Redis too each handler is a step of Attendance, but for that one:  *)
(* a user who enters the meeting in the grace period, without having been  *)
(* in it.                                                                  *)
OnlyLateEntriesBreakAttendance ==
    [][Promise!AttendanceNext \/ \E u \in Users : LateEntry(u)]_(Promise!attendance)

RoomRouter == INSTANCE RouterContract WITH
    Meetings <- {"this"},
    router   <- [m \in {"this"} |-> router]

(* The room's view of its router takes only the steps of the contract that  *)
(* RouterPool implements, whatever joins, leaves and ends come between.     *)
KeepsRouterContract == RoomRouter!ContractSafety

(* What participant.entity.ts says of pendingLeaveTimer, "cleared if the   *)
(* peer reconnects within the grace period": a timeout that fires never    *)
(* takes the seat of a user whose connection is up.                        *)
TimersSpareTheConnected ==
    [][\A s \in Sockets : LeaveTimerFires(s) =>
         LET u == UserOf[s] IN Seated(u) /\ Open(socketId[u]) => Seated(u)']_vars

(* What end() says of itself, "tears down its router": once the meeting    *)
(* is over its router is gone or still being created, never standing.      *)
RouterTornDown == status # "live" => router # "ready"

(* What the integration guide says of `admitted`: it carries the full join *)
(* result, so nobody is admitted back into the waiting room.               *)
AdmittedMeansSeated == \A s \in Sockets : told[s] # "admittedToWait"
============================================================================
