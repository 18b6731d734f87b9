------------------------------- MODULE Media -------------------------------
(***************************************************************************)
(* The media of one meeting's participants, as SignalingService,           *)
(* ScreenShareService, ModerationService and ProducerConsumerService drive *)
(* it: producers, consumers, the public flags (audioMuted, videoEnabled,   *)
(* presenting) and the presenter slot, on top of seats that come and go.   *)
(*                                                                         *)
(* Every media call awaits the mediasoup worker and then uses the          *)
(* Participant object it read before.  The worker answers its requests in  *)
(* order, so what is under way is one FIFO channel; each record in it says *)
(* what has become of the caller's seat since: "current", "rebound" (the   *)
(* user reconnected, which closed its media) or "gone" (the object is no   *)
(* longer in the meeting, even if the user has joined again), and for the  *)
(* creation of a transport "closed" once its router is closed.             *)
(*                                                                         *)
(* A producer is named by its user and source.  The clients of the         *)
(* repository send each source once at a time (Free), which makes the      *)
(* name unique among the live ones, and control the producers whose ids    *)
(* their own produce calls returned, so that of the closed ones left in    *)
(* the map only those in `stopped` are within a client's reach.            *)
(***************************************************************************)
EXTENDS Naturals, Sequences, FiniteSets

CONSTANTS
    Users,         \* user ids
    Sends,         \* the sources each user may send, by type of meeting
    NoUser,        \* "no presenter"
    MaxRequests,   \* bound on the requests under way when a client sends one more
    MaxStopped     \* bound on the stopped screens of a user who shares once more

Sources == {"mic", "cam", "screen"}
Types   == {"group", "one_to_one"}

ASSUME SendsAssumption == Sends \in [Types -> [Users -> SUBSET Sources]] /\ NoUser \notin Users
ASSUME BoundAssumption == MaxRequests \in Nat \ {0} /\ MaxStopped \in Nat

VARIABLES
    type,                \* meeting.type
    isEnded,             \* meeting.isEnded
    screenShareEnabled,  \* meeting.screenShareEnabled
    activePresenterId,   \* meeting.activePresenterId: the presenter slot
    seated,              \* u has a Participant in meeting.participants
    transports,          \* it has a transport to produce and consume on
    orphaned,            \* a transport is live that no Participant of the meeting has
    producers,           \* its live producers: "none", "on" or "paused"
    stopped,             \* closed screens in its producers map: the forced stops'
    deadProducers,       \* sources of the entries of producers answered too late
    consumers,           \* the live producers it has a live consumer of
    audioMuted,          \* flags of the Participant
    videoEnabled,
    presenting,
    known,               \* producers the client at u's seat has been told of
    channel              \* requests to the worker and notifications from it

meetingVars == <<type, isEnded, screenShareEnabled>>
flagVars    == <<audioMuted, videoEnabled, presenting>>
mediaVars   == <<transports, orphaned, producers, stopped, deadProducers, consumers>>
vars == <<meetingVars, activePresenterId, seated, mediaVars, flagVars, known, channel>>

Producers == Users \X Sources
Kinds == {"createTransport", "produce", "observe", "pause", "resume", "mute",
          "consume", "producerclose"}
Requests == [kind : Kinds, user : Users, of : SUBSET Producers,
             seat : {"current", "rebound", "gone", "closed"}]

Request(kind, u, of) == [kind |-> kind, user |-> u, of |-> {of}, seat |-> "current"]
Room        == Len(channel) < MaxRequests
Send(r)     == channel' = Append(channel, r)
Under(r)    == \E i \in 1..Len(channel) : channel[i] = r

NoMedia == [s \in Sources |-> "none"]
LiveOf(u) == {p \in Producers : p[1] = u /\ producers[u][p[2]] # "none"}

(* What findProducer and listExistingProducers find: dead entries too.     *)
LeftOf(u)   == deadProducers[u] \cup (IF stopped[u] > 0 THEN {"screen"} ELSE {})
ListedOf(u) == LiveOf(u) \cup {<<u, s>> : s \in LeftOf(u)}
MutListedFor(v) == {p \in UNION {ListedOf(u) : u \in Users \ {v}} :
                       producers[p[1]][p[2]] # "paused"}   \* leaves out paused ones
ListedFor(v)    == UNION {ListedOf(u) : u \in Users \ {v}}

(* The client has its producer's id only from the reply.                   *)
Replied(u, s) == ~Under(Request("observe", u, <<u, s>>))
Free(u, s)    == producers[u][s] = "none" /\ ~Under(Request("produce", u, <<u, s>>))

----------------------------------------------------------------------------
(* Parts of handlers.                                                      *)

CanStart(u) == screenShareEnabled /\ activePresenterId \in {NoUser, u}

OnStarted(u) == activePresenterId' = u /\ presenting' = [presenting EXCEPT ![u] = TRUE]

MutOnStopped(u) ==   \* frees the slot, leaves the flag
    /\ activePresenterId' = IF activePresenterId = u THEN NoUser ELSE activePresenterId
    /\ UNCHANGED presenting

OnStopped(u) ==
    /\ activePresenterId' = IF activePresenterId = u THEN NoUser ELSE activePresenterId
    /\ presenting' = [presenting EXCEPT ![u] = FALSE]

(* NEW_PRODUCER, to everyone in the room but its sender.                   *)
Announce(u, s) ==
    known' = [v \in Users |-> IF seated[v] /\ v # u THEN known[v] \cup {<<u, s>>} ELSE known[v]]

(* The worker notifies the consumers of producers that close, those still  *)
(* being created included: their creation is answered first.               *)
Watched(P) ==
    {p \in P : \/ \E v \in Users : p \in consumers[v]
               \/ \E i \in 1..Len(channel) : channel[i].kind = "consume" /\ p \in channel[i].of}
Notified(ch, P) ==
    IF Watched(P) = {} THEN ch
    ELSE Append(ch, [kind |-> "producerclose", user |-> CHOOSE u \in Users : TRUE,
                     of |-> Watched(P), seat |-> "current"])

(* What becomes of a request when the media of U are closed, whose seat    *)
(* turns into `seat`, and with closes the router too.                      *)
Overtaken(r, U, seat, closes) ==
    IF closes /\ r.kind = "createTransport" THEN [r EXCEPT !.seat = "closed"]
    ELSE IF r.user \in U /\ r.kind # "producerclose" /\ r.seat \notin {"gone", "closed"}
         THEN [r EXCEPT !.seat = seat]
    ELSE r

(* closeAllMedia, for each u in U.                                         *)
MutClosedProducers(U) == producers   \* removes the participant, closes nothing
ClosedProducers(U) == [u \in Users |-> IF u \in U THEN NoMedia ELSE producers[u]]

CloseAllMedia(U, seat, closes) ==
    /\ transports' = [u \in Users |-> transports[u] /\ u \notin U]
    /\ orphaned' = (orphaned /\ ~closes)
    /\ producers' = ClosedProducers(U)
    /\ stopped' = [u \in Users |-> IF u \in U THEN 0 ELSE stopped[u]]
    /\ deadProducers' = [u \in Users |-> IF u \in U THEN {} ELSE deadProducers[u]]
    /\ consumers' = [u \in Users |-> IF u \in U THEN {} ELSE consumers[u]]
    /\ channel' = Notified([i \in 1..Len(channel) |-> Overtaken(channel[i], U, seat, closes)],
                           UNION {LiveOf(u) : u \in U})

(* The seats of U are given up; the others are told, or are gone too.  If  *)
(* the router closes, so does every transport left on it.                  *)
Vacate(U, closes) ==
    /\ seated' = [u \in Users |-> seated[u] /\ u \notin U]
    /\ CloseAllMedia(U, "gone", closes)
    /\ known' = [v \in Users |-> IF v \in U THEN {} ELSE {p \in known[v] : p[1] \notin U}]
    /\ audioMuted' = [u \in Users |-> audioMuted[u] \/ u \in U]
    /\ videoEnabled' = [u \in Users |-> videoEnabled[u] /\ u \notin U]
    /\ presenting' = [u \in Users |-> presenting[u] /\ u \notin U]

(* applyProducerStateChange.                                               *)
ApplyStateChange(u, s, paused) ==
    /\ audioMuted' = IF s = "mic" THEN [audioMuted EXCEPT ![u] = paused] ELSE audioMuted
    /\ videoEnabled' = IF s = "cam" THEN [videoEnabled EXCEPT ![u] = ~paused] ELSE videoEnabled

(* muteParticipant's loop over the audio producers it has not visited yet, *)
(* with the microphone as `mic` and what follows in the channel as `rest`. *)
(* Pausing a dead entry is refused, which ends the mute with an error.     *)
MutToPause(mic) == FALSE   \* marks the user muted and pauses nothing
ToPause(mic)    == mic = "on"

MuteLoop(u, mic, rest) ==
    \/ /\ "mic" \in deadProducers[u]
       /\ channel' = rest
       /\ UNCHANGED audioMuted
    \/ /\ ToPause(mic)
       /\ channel' = Append(rest, Request("mute", u, <<u, "mic">>))
       /\ UNCHANGED audioMuted
    \/ /\ ~ToPause(mic) /\ "mic" \notin deadProducers[u]
       /\ channel' = rest
       /\ audioMuted' = [audioMuted EXCEPT ![u] = TRUE]

----------------------------------------------------------------------------
(* Seats.                                                                  *)

JoinRoom(u) ==
    /\ ~isEnded /\ ~seated[u]
    /\ seated' = [seated EXCEPT ![u] = TRUE]
    /\ known' = [known EXCEPT ![u] = ListedFor(u)]
    /\ UNCHANGED <<meetingVars, activePresenterId, mediaVars, flagVars, channel>>

(* joinRoom of a user who holds a seat.                                    *)
Rejoin(u) ==
    /\ ~isEnded /\ seated[u]
    /\ IF presenting[u] THEN OnStopped(u) ELSE UNCHANGED <<activePresenterId, presenting>>
    /\ CloseAllMedia({u}, "rebound", FALSE)
    /\ audioMuted' = [audioMuted EXCEPT ![u] = TRUE]
    /\ videoEnabled' = [videoEnabled EXCEPT ![u] = FALSE]
    /\ known' = [known EXCEPT ![u] = ListedFor(u)]
    /\ UNCHANGED <<meetingVars, seated>>

(* finalizeLeave, after leaveRoom or at the end of the grace period; the   *)
(* last one to leave closes the router.                                    *)
FinalizeLeave(u) ==
    /\ seated[u]
    /\ activePresenterId' = IF presenting[u] /\ activePresenterId = u
                            THEN NoUser ELSE activePresenterId
    /\ IF type = "one_to_one"
       THEN isEnded' = TRUE /\ Vacate(Users, TRUE)
       ELSE Vacate({u}, \A w \in Users \ {u} : ~seated[w]) /\ UNCHANGED isEnded
    /\ UNCHANGED <<type, screenShareEnabled>>

(* Kicking does not call onStopped: the slot stays with the one removed.   *)
(* Nor does it close the router, whoever was kicked.                       *)
Kick(u) ==
    /\ seated[u]
    /\ Vacate({u}, FALSE)
    /\ UNCHANGED <<meetingVars, activePresenterId>>

EndMeeting ==
    /\ ~isEnded
    /\ isEnded' = TRUE
    /\ Vacate(Users, TRUE)
    /\ UNCHANGED <<type, screenShareEnabled, activePresenterId>>

----------------------------------------------------------------------------
(* What a client asks of its own media.                                    *)

CreateTransport(u) ==
    /\ seated[u] /\ ~transports[u] /\ Room
    /\ Send([kind |-> "createTransport", user |-> u, of |-> {}, seat |-> "current"])
    /\ UNCHANGED <<meetingVars, activePresenterId, seated, mediaVars, flagVars, known>>

Produce(u, s) ==
    /\ seated[u] /\ transports[u] /\ s \in Sends[type][u] /\ Free(u, s) /\ Room
    /\ s = "screen" => CanStart(u) /\ stopped[u] < MaxStopped
    /\ Send(Request("produce", u, <<u, s>>))
    /\ UNCHANGED <<meetingVars, activePresenterId, seated, mediaVars, flagVars, known>>

(* A call that has nothing to await applies its change at once.            *)
PauseProducer(u, s) ==
    /\ seated[u] /\ producers[u][s] # "none" /\ Replied(u, s)
    /\ IF producers[u][s] = "on"
       THEN Room /\ Send(Request("pause", u, <<u, s>>)) /\ UNCHANGED <<audioMuted, videoEnabled>>
       ELSE ApplyStateChange(u, s, TRUE) /\ UNCHANGED channel
    /\ UNCHANGED <<meetingVars, activePresenterId, seated, mediaVars, presenting, known>>

ResumeProducer(u, s) ==
    /\ seated[u] /\ producers[u][s] # "none" /\ Replied(u, s)
    /\ IF producers[u][s] = "paused"
       THEN Room /\ Send(Request("resume", u, <<u, s>>)) /\ UNCHANGED <<audioMuted, videoEnabled>>
       ELSE ApplyStateChange(u, s, FALSE) /\ UNCHANGED channel
    /\ UNCHANGED <<meetingVars, activePresenterId, seated, mediaVars, presenting, known>>

CloseProducer(u, s) ==
    /\ seated[u] /\ producers[u][s] # "none" /\ Replied(u, s)
    /\ producers' = [producers EXCEPT ![u][s] = "none"]
    /\ channel' = Notified(channel, {<<u, s>>})
    /\ known' = [v \in Users |-> known[v] \ {<<u, s>>}]
    /\ ApplyStateChange(u, s, TRUE)
    /\ IF s = "screen" THEN OnStopped(u) ELSE UNCHANGED <<activePresenterId, presenting>>
    /\ UNCHANGED <<meetingVars, seated, transports, orphaned, stopped, deadProducers, consumers>>

(* closeProducer of a screen that a forced stop closed: its entry is still *)
(* found, so the flag and the slot go, whatever the user shares by now.    *)
CloseStopped(u) ==
    /\ seated[u] /\ stopped[u] > 0
    /\ stopped' = [stopped EXCEPT ![u] = @ - 1]
    /\ known' = IF \/ stopped[u] > 1 \/ producers[u]["screen"] # "none"
                   \/ "screen" \in deadProducers[u]
                THEN known ELSE [v \in Users |-> known[v] \ {<<u, "screen">>}]
    /\ OnStopped(u)
    /\ UNCHANGED <<meetingVars, seated, transports, orphaned, producers, deadProducers, consumers,
                   audioMuted, videoEnabled, channel>>

(* pauseProducer and resumeProducer of one change nothing: the worker      *)
(* refuses a closed producer, and a screen has no flag.                    *)
ControlStopped(u) == seated[u] /\ stopped[u] > 0 /\ UNCHANGED vars

StartScreenShare(u) ==
    /\ seated[u] /\ CanStart(u)
    /\ activePresenterId' = u
    /\ UNCHANGED <<meetingVars, seated, mediaVars, flagVars, known, channel>>

StopScreenShare(u) ==
    /\ seated[u]
    /\ producers' = [producers EXCEPT ![u]["screen"] = "none"]
    /\ stopped' = [stopped EXCEPT ![u] = 0]
    /\ deadProducers' = [deadProducers EXCEPT ![u] = @ \ {"screen"}]
    /\ channel' = Notified(channel, LiveOf(u) \cap {<<u, "screen">>})
    /\ OnStopped(u)
    /\ UNCHANGED <<meetingVars, seated, transports, orphaned, consumers, audioMuted, videoEnabled,
                   known>>

(* A producer that is dead is still found, and then refused.               *)
Consume(v, p) ==
    /\ seated[v] /\ transports[v] /\ Room
    /\ p \in known[v] /\ p \notin consumers[v] /\ p \in LiveOf(p[1])
    /\ Send(Request("consume", v, p))
    /\ UNCHANGED <<meetingVars, activePresenterId, seated, mediaVars, flagVars, known>>

----------------------------------------------------------------------------
(* What a moderator or the backend does to others'.                        *)

Mute(u) ==
    /\ seated[u] /\ Room
    /\ MuteLoop(u, producers[u]["mic"], channel)
    /\ UNCHANGED <<meetingVars, activePresenterId, seated, mediaVars, videoEnabled, presenting,
                   known>>

EnableScreenShare ==
    /\ type = "group" /\ \E u \in Users : seated[u]
    /\ screenShareEnabled' = TRUE
    /\ UNCHANGED <<type, isEnded, activePresenterId, seated, mediaVars, flagVars, known, channel>>

(* disableFeature; forceStopActivePresenter closes the presenter's screens *)
(* and leaves their entries in its map.  Only the host and moderators may  *)
(* call it, and anyone can have been promoted.                             *)
MutStoppedScreen(u) == producers[u]["screen"]   \* marks it stopped, closes nothing
StoppedScreen(u)    == "none"

DisableScreenShare ==
    LET u == activePresenterId IN
    /\ type = "group" /\ \E w \in Users : seated[w]
    /\ screenShareEnabled' = FALSE
    /\ \/ /\ u = NoUser
          /\ UNCHANGED <<activePresenterId, presenting, producers, stopped, channel>>
       \/ /\ u # NoUser /\ ~seated[u]
          /\ activePresenterId' = NoUser
          /\ UNCHANGED <<presenting, producers, stopped, channel>>
       \/ /\ u # NoUser /\ seated[u]
          /\ producers' = [producers EXCEPT ![u]["screen"] = StoppedScreen(u)]
          /\ stopped' = [stopped EXCEPT ![u] =
                IF producers[u]["screen"] # "none" THEN @ + 1 ELSE @]
          /\ channel' = Notified(channel, LiveOf(u) \cap {<<u, "screen">>})
          /\ OnStopped(u)
    /\ UNCHANGED <<type, isEnded, seated, transports, orphaned, deadProducers, consumers,
                   audioMuted, videoEnabled, known>>

----------------------------------------------------------------------------
(* The worker answers; the handler goes on with the object it holds.       *)

Answers(kind) == channel # <<>> /\ Head(channel).kind = kind
Asker         == Head(channel).user
Seat          == Head(channel).seat
Subject       == CHOOSE p \in Head(channel).of : TRUE
Answered      == channel' = Tail(channel)

(* The worker refuses what a client got wrong, or a router closed since.   *)
Refused ==
    /\ channel # <<>> /\ Head(channel).kind \in {"createTransport", "produce", "consume"}
    /\ Answered
    /\ UNCHANGED <<meetingVars, activePresenterId, seated, mediaVars, flagVars, known>>

(* The Participant takes the transport, in the meeting or not.  One that   *)
(* has left it is never closed again: its transport lives as long as the   *)
(* router.                                                                 *)
TransportCreated ==
    /\ Answers("createTransport") /\ Seat # "closed" /\ Answered
    /\ transports' = IF Seat = "gone" THEN transports ELSE [transports EXCEPT ![Asker] = TRUE]
    /\ orphaned' = (orphaned \/ Seat = "gone")
    /\ UNCHANGED <<meetingVars, activePresenterId, seated, producers, stopped, deadProducers,
                   consumers, flagVars, known>>

(* A microphone's handler first awaits the audio level observer, which     *)
(* refuses a dead producer: then nobody is told of it.                     *)
Produced ==
    LET u == Asker
        s == Subject[2] IN
    /\ Answers("produce")
    /\ producers' = IF Seat = "current" THEN [producers EXCEPT ![u][s] = "on"] ELSE producers
    /\ deadProducers' = IF Seat = "rebound"
                        THEN [deadProducers EXCEPT ![u] = @ \cup {s}] ELSE deadProducers
    /\ channel' = IF s = "mic" /\ Seat = "current"
                  THEN Append(Tail(channel), Request("observe", u, <<u, s>>))
                  ELSE Tail(channel)
    /\ IF s = "mic" THEN UNCHANGED known ELSE Announce(u, s)
    /\ IF s # "screen" THEN UNCHANGED <<activePresenterId, presenting>>
       ELSE IF Seat = "gone" THEN activePresenterId' = u /\ UNCHANGED presenting
       ELSE OnStarted(u)
    /\ videoEnabled' = IF s = "cam" /\ Seat # "gone"
                       THEN [videoEnabled EXCEPT ![u] = TRUE] ELSE videoEnabled
    /\ UNCHANGED <<meetingVars, seated, transports, orphaned, stopped, consumers, audioMuted>>

Observed ==
    /\ Answers("observe") /\ Answered
    /\ audioMuted' = IF Seat = "gone" THEN audioMuted ELSE [audioMuted EXCEPT ![Asker] = FALSE]
    /\ Announce(Asker, "mic")
    /\ UNCHANGED <<meetingVars, activePresenterId, seated, mediaVars, videoEnabled, presenting>>

PauseAnswered ==
    LET u == Asker
        s == Subject[2]
        paused == Head(channel).kind = "pause" IN
    /\ channel # <<>> /\ Head(channel).kind \in {"pause", "resume"} /\ Answered
    /\ producers' = IF Seat = "current" /\ producers[u][s] # "none"
                    THEN [producers EXCEPT ![u][s] = IF paused THEN "paused" ELSE "on"]
                    ELSE producers
    /\ IF Seat = "gone" THEN UNCHANGED <<audioMuted, videoEnabled>>
       ELSE ApplyStateChange(u, s, paused)
    /\ UNCHANGED <<meetingVars, activePresenterId, seated, transports, orphaned, stopped,
                   deadProducers, consumers, presenting, known>>

MuteAnswered ==
    LET u == Asker
        mic == IF Seat = "current" /\ producers[u]["mic"] # "none"
               THEN "paused" ELSE producers[u]["mic"] IN
    /\ Answers("mute")
    /\ IF Seat = "gone"
       THEN Answered /\ UNCHANGED <<producers, audioMuted>>
       ELSE /\ producers' = [producers EXCEPT ![u]["mic"] = mic]
            /\ MuteLoop(u, mic, Tail(channel))
    /\ UNCHANGED <<meetingVars, activePresenterId, seated, transports, orphaned, stopped,
                   deadProducers, consumers, videoEnabled, presenting, known>>

Consumed ==
    /\ Answers("consume") /\ Answered
    /\ consumers' = IF Seat = "current"
                    THEN [consumers EXCEPT ![Asker] = @ \cup Head(channel).of] ELSE consumers
    /\ UNCHANGED <<meetingVars, activePresenterId, seated, transports, orphaned, producers, stopped,
                   deadProducers, flagVars, known>>

(* The consumer's 'producerclose': the entry goes and its client is told.  *)
MutForgotten(v) == consumers[v] \cap Head(channel).of \cap LiveOf(v)   \* keeps the entry
Forgotten(v)    == consumers[v] \cap Head(channel).of

ProducerClosed ==
    /\ Answers("producerclose") /\ Answered
    /\ consumers' = [v \in Users |-> consumers[v] \ Forgotten(v)]
    /\ known' = [v \in Users |-> known[v] \ Forgotten(v)]
    /\ UNCHANGED <<meetingVars, activePresenterId, seated, transports, orphaned, producers, stopped,
                   deadProducers, flagVars>>

----------------------------------------------------------------------------
Init ==
    /\ type \in Types
    /\ isEnded = FALSE
    /\ screenShareEnabled = TRUE
    /\ activePresenterId = NoUser
    /\ seated = [u \in Users |-> FALSE]
    /\ transports = [u \in Users |-> FALSE]
    /\ producers = [u \in Users |-> NoMedia]
    /\ orphaned = FALSE
    /\ stopped = [u \in Users |-> 0]
    /\ deadProducers = [u \in Users |-> {}]
    /\ consumers = [u \in Users |-> {}]
    /\ audioMuted = [u \in Users |-> TRUE]
    /\ videoEnabled = [u \in Users |-> FALSE]
    /\ presenting = [u \in Users |-> FALSE]
    /\ known = [u \in Users |-> {}]
    /\ channel = <<>>

(* The media events the gateways hand to SignalingService, the same ones   *)
(* for /meetings and /calls.  connectTransport, resumeConsumer,            *)
(* setPreferredLayers and restartIce change nothing of this state.         *)
Streams(u) ==
    \/ CreateTransport(u)
    \/ \E s \in Sources : Produce(u, s)
    \/ \E p \in Producers : p[1] # u /\ Consume(u, p)

Controls(u) ==
    \/ \E s \in Sources : PauseProducer(u, s) \/ ResumeProducer(u, s) \/ CloseProducer(u, s)
    \/ CloseStopped(u)
    \/ ControlStopped(u)
    \/ StartScreenShare(u)
    \/ StopScreenShare(u)

GroupStreams(u)  == type = "group" /\ Streams(u)
GroupControls(u) == type = "group" /\ Controls(u)
CallStreams(u)   == type = "one_to_one" /\ Streams(u)
CallControls(u)  == type = "one_to_one" /\ Controls(u)

WorkerAnswers ==
    \/ Refused \/ TransportCreated \/ Produced \/ Observed \/ PauseAnswered \/ MuteAnswered
    \/ Consumed \/ ProducerClosed

Next ==
    \/ \E u \in Users : \/ JoinRoom(u) \/ Rejoin(u) \/ FinalizeLeave(u) \/ Kick(u)
                        \/ GroupStreams(u) \/ GroupControls(u) \/ CallStreams(u)
                        \/ CallControls(u) \/ Mute(u)
    \/ EndMeeting
    \/ EnableScreenShare
    \/ DisableScreenShare
    \/ WorkerAnswers

Spec == Init /\ [][Next]_vars

----------------------------------------------------------------------------
(* Types; a user without a seat has nothing left in the meeting, whichever *)
(* of leave, kick, reconnect and end took it away, and once the meeting    *)
(* has ended not even a transport answered too late is left in the worker. *)
TypeOK ==
    /\ type \in Types
    /\ {isEnded, screenShareEnabled, orphaned} \subseteq BOOLEAN
    /\ activePresenterId \in Users \cup {NoUser}
    /\ seated \in [Users -> BOOLEAN] /\ transports \in [Users -> BOOLEAN]
    /\ producers \in [Users -> [Sources -> {"none", "on", "paused"}]]
    /\ stopped \in [Users -> Nat] /\ deadProducers \in [Users -> SUBSET Sources]
    /\ consumers \in [Users -> SUBSET Producers] /\ known \in [Users -> SUBSET Producers]
    /\ {audioMuted, videoEnabled, presenting} \subseteq [Users -> BOOLEAN]
    /\ channel \in Seq(Requests)
    /\ \A u \in Users : ~seated[u] =>
          /\ ~transports[u] /\ ListedOf(u) = {} /\ consumers[u] = {}
          /\ audioMuted[u] /\ ~videoEnabled[u] /\ ~presenting[u]
    /\ isEnded => ~orphaned

(* What everyone is shown as off is off: no sound flows from a participant *)
(* marked muted, unless its announcement is the next thing to happen to    *)
(* it, and no picture from a camera marked off, however pauses, resumes,   *)
(* forced mutes, closes and reconnects overlap.                            *)
OffMeansOff ==
    \A u \in Users : seated[u] =>
        /\ audioMuted[u] /\ producers[u]["mic"] = "on" => ~Replied(u, "mic")
        /\ ~videoEnabled[u] => producers[u]["cam"] # "on"

(* Whoever's screen flows is shown as presenting, through shares, stops,   *)
(* forced stops and reconnects that overlap: only a late closeProducer of  *)
(* a screen that a forced stop closed hides the one shared since.          *)
Presented(u) == producers[u]["screen"] # "none" => presenting[u]

OnlyStaleClosesHide ==
    [][\A u \in Users : Presented(u) /\ ~Presented(u)' => CloseStopped(u)]_vars

(* Whoever is shown as presenting has a screen, flowing, or answered too   *)
(* late to flow: the flag goes with the screen, whichever of close, stop,  *)
(* forced stop, reconnect and leave takes it away, and comes only with     *)
(* one, however late the worker answers.                                   *)
PresentersHaveScreens ==
    \A u \in Users : presenting[u] =>
        producers[u]["screen"] # "none" \/ "screen" \in deadProducers[u]

(* What the integration guide says of existingProducers and newProducer:   *)
(* between them every client in the meeting learns of every live producer, *)
(* whenever it joins or reconnects.                                        *)
LiveIsKnown ==
    \A u, v \in Users : \A s \in Sources :
        (seated[v] /\ u # v /\ producers[u][s] # "none" /\ Replied(u, s))
           => <<u, s>> \in known[v]

(* No frozen tile: a consumer's producer is live, or the notice that it    *)
(* closed is on its way to the consumer.                                   *)
TilesAreLive ==
    \A v \in Users : \A p \in consumers[v] :
        \/ p \in LiveOf(p[1])
        \/ \E i \in 1..Len(channel) : channel[i].kind = "producerclose" /\ p \in channel[i].of

(* What ScreenShareService says of itself: "only one active presentation   *)
(* at a time".                                                             *)
OnePresenter == Cardinality({u \in Users : presenting[u]}) <= 1
=============================================================================
