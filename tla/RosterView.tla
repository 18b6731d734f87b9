----------------------------- MODULE RosterView -----------------------------
(***************************************************************************)
(* MeetingRoom with the broadcasts its handlers make to the meeting's      *)
(* socket.io room, and the list of participants a client keeps from them:  *)
(* the join reply's list, userJoined, userLeft, participantRemoved and     *)
(* meetingEnded.  One process delivers to its own sockets in order, so a   *)
(* broadcast is heard in the step that makes it.                           *)
(***************************************************************************)
EXTENDS MeetingRoom

VARIABLES
    room,    \* connections in the meeting's socket.io room
    roster   \* users the client on each connection shows, {} out of the room

viewVars == <<room, roster>>
allVars  == <<vars, viewVars>>

ASSUME SingleInstance == ~RedisEnabled

(* The connections of `fresh` get a join reply, which lists everyone; the  *)
(* others in the room hear who came and who went.                          *)
Hear(fresh, joined, left) ==
    roster' = [s \in Sockets |->
                 IF s \notin room' THEN {}
                 ELSE IF s \in fresh THEN Participants'
                 ELSE (roster[s] \cup joined) \ left]

(* Whom finalizeLeave tells the room to drop: meetingEnded drops all.      *)
Gone(u) == IF type = "one_to_one" THEN Users ELSE {u}

(* A reconnect forgets client.join.                                        *)
MutJoinsRoom(s) ==
    ~IsEnded /\ ~Existing(s) /\ ~MustWait(UserOf[s]) /\ ~LockedOut(UserOf[s])
JoinsRoom(s) ==
    ~IsEnded /\ (Existing(s) \/ (~MustWait(UserOf[s]) /\ ~LockedOut(UserOf[s])))

MutAnnounced(s) == {}   \* no userJoined
Announced(s)    == IF Existing(s) THEN {} ELSE {UserOf[s]}

JoinHeard(s) ==
    IF JoinsRoom(s)
    THEN /\ room' = room \cup {s}
         /\ IF router = "ready" THEN Hear({s}, Announced(s), {}) ELSE Hear({}, {}, {})
    ELSE UNCHANGED viewVars

ViewJoinRoom(s) == JoinRoom(s) /\ JoinHeard(s)

ViewAdmit(u) ==
    /\ Admit(u)
    /\ IF Open(waiting[u]) THEN JoinHeard(waiting[u]) ELSE UNCHANGED viewVars

ViewRouterReady ==
    /\ RouterReady
    /\ UNCHANGED room
    /\ Hear({c.socket : c \in awaitingRouter},
            {UserOf[c.socket] : c \in {d \in awaitingRouter : d.newcomer}}, {})

ViewLeaveRoom(s) ==
    /\ LeaveRoom(s)
    /\ room' = room \ {s}
    /\ Hear({}, {}, Gone(UserOf[s]))

ViewDrop(s) ==
    /\ Disconnect(s) \/ ServerDisconnects(s)
    /\ room' = room \ {s}
    /\ Hear({}, {}, {})

ViewLeaveTimerFires(s) ==
    /\ LeaveTimerFires(s)
    /\ UNCHANGED room
    /\ Hear({}, {}, IF Seated(UserOf[s]) THEN Gone(UserOf[s]) ELSE {})

ViewKick(r, u) ==
    /\ Kick(r, u)
    /\ room' = room \ {socketId[u]}
    /\ Hear({}, {}, {u})

ViewReject(u) ==
    /\ Reject(u)
    /\ room' = room \ {waiting[u]}
    /\ Hear({}, {}, {})

ViewEnd ==
    /\ EndMeeting \/ DeleteMeeting
    /\ UNCHANGED room
    /\ Hear({}, {}, IF status = "live" THEN Users ELSE {})

(* Handlers whose broadcasts do not touch a list of participants.          *)
ViewUnchanged ==
    /\ \/ RouterFails
       \/ \E s \in Sockets : Connect(s)
       \/ \E r \in Roles \cup {"trusted"} :
             \/ \E u \in Users : Promote(r, u) \/ Demote(r, u)
             \/ \E b \in BOOLEAN : SetLocked(r, b)
    /\ UNCHANGED viewVars

ViewInit == Init /\ room = {} /\ roster = [s \in Sockets |-> {}]

ViewNext ==
    \/ \E s \in Sockets :
          ViewJoinRoom(s) \/ ViewLeaveRoom(s) \/ ViewDrop(s) \/ ViewLeaveTimerFires(s)
    \/ \E u \in Users : ViewAdmit(u) \/ ViewReject(u)
    \/ \E r \in Roles \cup {"trusted"}, u \in Users : ViewKick(r, u)
    \/ ViewRouterReady
    \/ ViewEnd
    \/ ViewUnchanged

ViewSpec == ViewInit /\ [][ViewNext]_allVars

(* What Node owes the code: an armed timeout fires.                        *)
TimelyViewSpec == ViewSpec /\ \A s \in Sockets : WF_allVars(ViewLeaveTimerFires(s))

----------------------------------------------------------------------------
(* A client that was told it joined and still holds its seat shows exactly *)
(* the meeting's participants, whatever joined, left, was kicked, dropped  *)
(* or reconnected since, and however their joins and its own overlapped.   *)
RosterIsExact ==
    \A s \in Sockets : (told[s] = "joined" /\ Active(s)) => roster[s] = Participants

(* A participant's live connection is in the room: it misses no broadcast. *)
SeatedHearBroadcasts == \A s \in Sockets : Active(s) => s \in room
=============================================================================
