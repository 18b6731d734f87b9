------------------------------ MODULE Traffic ------------------------------
(***************************************************************************)
(* What connections may send, and how often: ConnectionGuardService with   *)
(* its two SlidingWindowLimiters, the throttle of ReactionsService, the    *)
(* demo keys of DeveloperController, and the chat history of ChatService   *)
(* that a join reply carries while the messages themselves are broadcast.  *)
(*                                                                         *)
(* A limiter keeps, per key, the times of the hits it accepted.  A hit is  *)
(* numbered, since several may fall in the same millisecond.               *)
(***************************************************************************)
EXTENDS Naturals, Sequences, FiniteSets

CONSTANTS
    Sockets, UserOf, AddressOf,   \* connections, their user and their address
    Scenarios,      \* what each connection may send, of Acts (a bound)
    MaxHits,        \* per limiter: hits accepted per window
    Window,         \* per limiter: length of the window
    HistoryLimit,   \* CHAT_HISTORY_LIMIT
    MaxTime,        \* bound on the clock
    MaxMessages     \* bound on the messages sent

Limiters == {"connection", "event", "reaction", "key"}
Keys     == {UserOf[s] : s \in Sockets} \cup {AddressOf[s] : s \in Sockets} \cup Sockets

Acts     == {"guarded", "join", "reaction", "chat", "key"}

ASSUME ScenariosAssumption == Scenarios \subseteq [Sockets -> SUBSET Acts]
(* env.validation.ts asks for integers and no more: 0 is a limit too, and a *)
(* negative one acts as 0 does.                                            *)
ASSUME LimitsAssumption == MaxHits \in [Limiters -> Nat] /\ Window \in [Limiters -> Nat]
ASSUME HistoryAssumption == HistoryLimit \in Nat
ASSUME BoundsAssumption == MaxTime \in Nat /\ MaxMessages \in Nat

VARIABLES
    acts,       \* the scenario
    now,        \* Date.now()
    hits,       \* each limiter's map from keys to hits
    accepted,   \* all hits a limiter accepted (history)
    refused,    \* what a limiter refuses at this instant (history)
    connected,  \* connections that are up
    auth,       \* "none", "pending", "user" (stamped) or "failed"
    seat,       \* "out", "joining" (in the room, the reply is due) or "in"
    ended,
    buffer,     \* chat history
    sent,       \* messages sent; they are numbered
    shown,      \* messages the client on a connection has got
    replied     \* messages sent when its join reply came (history)

limiterVars == <<hits, accepted, refused>>
chatVars    == <<buffer, sent, shown, replied>>
vars == <<acts, now, limiterVars, connected, auth, seat, ended, chatVars>>

Hit == [at : Nat, n : Nat]

----------------------------------------------------------------------------
(* SlidingWindowLimiter.                                                   *)

MutRecent(l, key) == {h \in hits[l][key] : now - h.at < Window[l] - 1}   \* window too short
Recent(l, key)    == {h \in hits[l][key] : now - h.at < Window[l]}

Admits(l, key) == Cardinality(Recent(l, key)) < MaxHits[l]

NewHit(l, key) == [at |-> now, n |-> Cardinality(accepted[l][key])]

(* A refusal stores the list it has filtered; ReactionsService throws      *)
(* before it stores.                                                       *)
MutRefusal(l, key) == Recent(l, key) \cup {NewHit(l, key)}   \* a refused call is a hit
Refusal(l, key)    == IF l = "reaction" THEN hits[l][key] ELSE Recent(l, key)

Put(map, l, key, value) == [map EXCEPT ![l][key] = value]

AfterCall(l, key) ==
    Put(hits, l, key, IF Admits(l, key) THEN Recent(l, key) \cup {NewHit(l, key)}
                                        ELSE Refusal(l, key))

Recorded(l, key) ==
    IF Admits(l, key)
    THEN /\ accepted' = Put(accepted, l, key, accepted[l][key] \cup {NewHit(l, key)})
         /\ UNCHANGED refused
    ELSE /\ refused' = refused \cup {<<l, key>>}
         /\ UNCHANGED accepted

Consume(l, key) == hits' = AfterCall(l, key) /\ Recorded(l, key)

----------------------------------------------------------------------------
(* ConnectionGuardService and the gateways' connection handlers.           *)

May(s, what) == s \in connected /\ what \in acts[s]

Connect(s) ==
    /\ acts[s] # {} /\ auth[s] = "none"
    /\ connected' = connected \cup {s}
    /\ auth' = [auth EXCEPT ![s] = "pending"]
    /\ UNCHANGED <<acts, now, limiterVars, seat, ended, chatVars>>

MutReleased(map, s) == map                         \* releaseConnection is not called
Released(map, s)    == Put(map, "event", s, {})

(* handleDisconnect; a seat it leaves to the grace period hears nothing.   *)
Gone(s) ==
    /\ connected' = connected \ {s}
    /\ seat' = [seat EXCEPT ![s] = "out"]
    /\ shown' = [shown EXCEPT ![s] = {}]
    /\ UNCHANGED <<buffer, sent, replied>>

(* The client goes, or the end of the meeting disconnects it.              *)
Disconnect(s) ==
    /\ s \in connected
    /\ Gone(s)
    /\ hits' = Released(hits, s)
    /\ UNCHANGED <<acts, now, accepted, refused, auth, ended>>

Admitted(s) ==
    /\ Admits("connection", UserOf[s])
    /\ Consume("connection", UserOf[s])
    /\ auth' = [auth EXCEPT ![s] = "user"]
    /\ UNCHANGED <<connected, seat, chatVars>>

(* A user over the limit, or nobody verified: then the address is counted. *)
Rejected(s, key) ==
    /\ key = UserOf[s] => ~Admits("connection", key)
    /\ hits' = Released(AfterCall("connection", key), s)
    /\ Recorded("connection", key)
    /\ auth' = [auth EXCEPT ![s] = "failed"]
    /\ Gone(s)

(* verifyServiceUser answers, from the static map or after a look at the   *)
(* database; the client may have gone meanwhile.                           *)
Authenticated(s) ==
    /\ auth[s] = "pending"
    /\ Admitted(s) \/ Rejected(s, UserOf[s]) \/ Rejected(s, AddressOf[s])
    /\ UNCHANGED <<acts, now, ended>>

(* createTransport, produce and consume call checkEventRate first.         *)
GuardedEvent(s) ==
    /\ May(s, "guarded")
    /\ Consume("event", s)
    /\ UNCHANGED <<acts, now, connected, auth, seat, ended, chatVars>>

----------------------------------------------------------------------------
(* The meeting: joins, reactions and chat.  Both can be switched off at    *)
(* any time, and are refused then: to their senders, no more is said.      *)

(* joinRoom gets nowhere before the user is stamped; it enters the room,   *)
(* then awaits the router.  A user has one seat, on the last connection.   *)
Seats(s) == [t \in Sockets |-> IF t = s THEN "joining"
                               ELSE IF UserOf[t] = UserOf[s] THEN "out" ELSE seat[t]]

MutMayJoin(s) == ~ended                          \* before the user is known
MayJoin(s)    == auth[s] = "user" /\ ~ended

JoinRoom(s) ==
    /\ May(s, "join") /\ seat[s] = "out"
    /\ Consume("event", s)
    /\ seat' = IF Admits("event", s) /\ MayJoin(s) THEN Seats(s) ELSE seat
    /\ shown' = [t \in Sockets |-> IF seat'[t] = "out" THEN {} ELSE shown[t]]
    /\ UNCHANGED <<acts, now, connected, auth, ended, buffer, sent, replied>>

(* The join reply, with the chat history.                                  *)
JoinAnswered(s) ==
    /\ seat[s] = "joining"
    /\ seat' = [seat EXCEPT ![s] = "in"]
    /\ shown' = [shown EXCEPT ![s] = @ \cup {buffer[k] : k \in DOMAIN buffer}]
    /\ replied' = [replied EXCEPT ![s] = sent]
    /\ UNCHANGED <<acts, now, limiterVars, connected, auth, ended, buffer, sent>>

LeaveRoom(s) ==
    /\ seat[s] # "out"
    /\ seat' = [seat EXCEPT ![s] = "out"]
    /\ shown' = [shown EXCEPT ![s] = {}]
    /\ UNCHANGED <<acts, now, limiterVars, connected, auth, ended, buffer, sent, replied>>

Reaction(s) ==
    /\ May(s, "reaction") /\ seat[s] # "out"
    /\ Consume("reaction", UserOf[s])
    /\ UNCHANGED <<acts, now, connected, auth, seat, ended, chatVars>>

MutHears(s, t) == seat[t] # "out" /\ t # s   \* all but the sender
Hears(s, t)    == seat[t] # "out"

MutKept(list) == IF Len(list) >= HistoryLimit THEN Tail(list) ELSE list   \* one too few
Kept(list)    == IF Len(list) > HistoryLimit THEN Tail(list) ELSE list

ChatMessage(s) ==
    /\ May(s, "chat") /\ seat[s] # "out" /\ sent < MaxMessages
    /\ sent' = sent + 1
    /\ buffer' = Kept(Append(buffer, sent'))
    /\ shown' = [t \in Sockets |-> IF Hears(s, t) THEN shown[t] \cup {sent'} ELSE shown[t]]
    /\ UNCHANGED <<acts, now, limiterVars, connected, auth, seat, ended, replied>>

(* end clears the participants and the chat history.                       *)
EndMeeting ==
    /\ ~ended
    /\ ended' = TRUE
    /\ seat' = [s \in Sockets |-> "out"]
    /\ shown' = [s \in Sockets |-> {}]
    /\ buffer' = <<>>
    /\ UNCHANGED <<acts, now, limiterVars, connected, auth, sent, replied>>

----------------------------------------------------------------------------
(* POST /developer/api-keys, from a visitor's address.                     *)
CreateKey(s) ==
    /\ "key" \in acts[s]
    /\ Consume("key", AddressOf[s])
    /\ UNCHANGED <<acts, now, connected, auth, seat, ended, chatVars>>

Tick ==
    /\ now < MaxTime
    /\ now' = now + 1
    /\ refused' = {}
    /\ UNCHANGED <<acts, hits, accepted, connected, auth, seat, ended, chatVars>>

Init ==
    /\ acts \in Scenarios
    /\ now = 0
    /\ hits = [l \in Limiters |-> [key \in Keys |-> {}]]
    /\ accepted = hits
    /\ refused = {}
    /\ connected = {}
    /\ auth = [s \in Sockets |-> "none"]
    /\ seat = [s \in Sockets |-> "out"]
    /\ ended = FALSE
    /\ buffer = <<>>
    /\ sent = 0
    /\ shown = [s \in Sockets |-> {}]
    /\ replied = [s \in Sockets |-> 0]

ConnectionStep(s) ==
    \/ Connect(s) \/ Authenticated(s) \/ Disconnect(s) \/ GuardedEvent(s) \/ CreateKey(s)

MeetingStep(s) ==
    \/ JoinRoom(s) \/ JoinAnswered(s) \/ LeaveRoom(s) \/ Reaction(s) \/ ChatMessage(s)

Next ==
    \/ \E s \in Sockets : ConnectionStep(s) \/ MeetingStep(s)
    \/ EndMeeting
    \/ Tick

Spec == Init /\ [][Next]_vars

----------------------------------------------------------------------------
(* Types; whoever has a seat is connected and known.                       *)
TypeOK ==
    /\ acts \in Scenarios
    /\ now \in Nat
    /\ hits \in [Limiters -> [Keys -> SUBSET Hit]]
    /\ accepted \in [Limiters -> [Keys -> SUBSET Hit]]
    /\ refused \subseteq Limiters \X Keys
    /\ connected \subseteq Sockets
    /\ auth \in [Sockets -> {"none", "pending", "user", "failed"}]
    /\ seat \in [Sockets -> {"out", "joining", "in"}]
    /\ ended \in BOOLEAN
    /\ buffer \in Seq(Nat)
    /\ sent \in Nat
    /\ shown \in [Sockets -> SUBSET Nat]
    /\ replied \in [Sockets -> Nat]
    /\ \A s \in Sockets : seat[s] # "out" => s \in connected /\ auth[s] = "user"

(* The hits of a set that fall into the window that starts at t.           *)
InWindow(set, l, t) == {h \in set : t <= h.at /\ h.at < t + Window[l]}

(* No window, wherever it starts, holds more accepted hits than the limit: *)
(* the filtering of the lists, the refusals that store them and the resets *)
(* of closed connections let nothing slip through.                         *)
NeverOverLimit ==
    \A l \in Limiters, key \in Keys :
        \A t \in 0..now : Cardinality(InWindow(accepted[l][key], l, t)) <= MaxHits[l]

(* Only a key that used up its limit within the last window is refused:    *)
(* neither refusals nor hits one window old count against it.              *)
RefusedOnlyAtLimit ==
    \A l \in Limiters, key \in Keys :
        <<l, key>> \in refused =>
            Cardinality({h \in accepted[l][key] : now - h.at < Window[l]}) = MaxHits[l]

(* The event limiter remembers open connections only: the entries of those *)
(* that came and went do not pile up.                                      *)
ClosedAreForgotten ==
    \A s \in Sockets : s \notin connected => hits["event"][s] = {}

(* The history is the latest messages of the meeting, up to its limit.     *)
HistoryIsRecent ==
    buffer = IF ended THEN <<>>
             ELSE LET kept == IF sent < HistoryLimit THEN sent ELSE HistoryLimit
                  IN  [k \in 1..kept |-> sent - kept + k]

(* A client that got its join reply has every message since, and of those  *)
(* before it the last ones up to the history's limit: none falls between   *)
(* the history in the reply and the broadcasts.                            *)
NoMessageIsMissed ==
    \A s \in Sockets : seat[s] = "in" =>
        \A m \in 1..sent : m + HistoryLimit > replied[s] => m \in shown[s]
=============================================================================
