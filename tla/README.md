# call-service: TLA+ models, checks and proofs

call-service is a NestJS signaling server in front of the mediasoup SFU. It keeps
meetings (group, namespace `/meetings`) and 1:1 calls (`/calls`) in memory, seats
users that connect over Socket.IO, moves their media through mediasoup workers,
tolerates short disconnects, and broadcasts who is there. Several instances share a
Redis that says which of them holds which meeting. This directory models that code
(`src/src/`), checks it with TLC and proves what matters most with TLAPS.

## 1. Inventory

| part (under `src/src/`) | state | operations | hard because | module |
|---|---|---|---|---|
| `websocket/signaling.service.ts`, session half | on `Participant`: bound socket, role, pending leave timer; on the socket: meeting and user | joinRoom, leaveRoom, handleDisconnect, the grace timeout | joinRoom awaits Redis, then the router; drops, reconnects and timeouts interleave with it | `MeetingRoom` |
| same, media half; `mediasoup/transport`, `producer-consumer` | transports, producers, consumers, mute flags | createTransport ... closeProducer, mute | every call awaits mediasoup and then uses what it read before | `Media` |
| `meeting/meeting.service.ts` | the meeting record, ended or not | create, end, delete | end() runs while joins are in flight; it defers its disconnects | `MeetingRoom`, `Directory` |
| `meeting/waiting-room.service.ts` | waiting entries | add, admit, reject | the entry names a connection that may change or die | `MeetingRoom` |
| `moderation/` | lock, roles, feature flags | kick, promote, demote, lock, mute, disableFeature; REST acts as "trusted" | kick bypasses the leave path | `MeetingRoom`, `Media` |
| `websocket/*.gateway.ts`, `realtime-broadcaster` | Socket.IO rooms | connection handlers, broadcasts, disconnectSocket | room membership and membership of the meeting are kept apart | `RosterView`, `Media`, `Traffic` |
| `mediasoup/router-manager`, `workers/worker-pool` | `rooms`, `pendingRooms`; workers and their router counts | getOrCreateRouter, closeRouter, spawn, died | creation is shared by its callers, and pending while meetings end and workers die | `RouterPool` |
| `screen-share/` | the presenter slot | assertCanStart, onStarted, onStopped, forceStop | tested before an await, taken after it | `Media` |
| `meeting/meeting-directory`, ownership middleware, forwarder | Redis owner keys with a 24 h lifetime | register, get, clear, forward | several instances, last writer wins, crashes | `Directory` |
| `utils/sliding-window-limiter`, connection guard, `reactions/` | hit timestamps | consume, reset, validate | window boundaries; entries re-created after release | `Traffic` |
| `chat/` | bounded history per meeting | add, get, clear | the limit; a join reply overlaps the broadcasts | `Traffic` |
| auth, developer keys | a database | token and key checks | their delay and their two headers matter to others | `Traffic`, `Directory` |
| coturn, health, metrics, config | none | reporting, reading the environment | not modelled: no state of their own | |

What makes each part correct:

* Sessions: one seat per user; the seat follows the last connection that joined; a
  dropped seat has a timeout and a connected one none; a reconnect keeps the role;
  every join is answered; clients show the participants there are.
* Meetings: an ended meeting is empty and stays so, with no router standing.
* Waiting room: entries point at live connections; admitted means seated.
* Moderation: a locked meeting only shrinks; the host keeps the host's rank.
* Media: what is shown as off is off; every client knows every live producer; no
  consumer outlives its producer unnoticed.
* Screen sharing: who shares is shown as presenting, until they stop, and only one does.
* Router manager and workers: everybody in a meeting is on one router; a worker's
  count is exact; a router stands until it is closed, and none is lost.
* Directory: a live meeting is listed and found, and every request is answered.
* Limits: never more than the limit in a window, never fewer; nothing piles up.
* Chat: the history is the latest messages, and leaves no gap before the broadcasts.

`PROJECT.json` lists the hazards at their lines, with the properties that cover them.

## 2. Modules

    Attendance            what a meeting promises its users (abstract)
        ^ implemented by
    MeetingRoom           one meeting on its owning instance
        ^ extended by         \ relies on
    RosterView                RouterContract      the router of each meeting (abstract)
      + socket.io room            ^ implemented by
        and clients' lists    RouterPool          router manager over the worker pool

    Media                 producers, consumers, flags and the presenter slot of one meeting
    Directory             several instances over one Redis
    Traffic               rate limits, reactions and chat

    MC*                   the instances TLC checks
    MeetingRoom_proofs <- Seats_proofs <- Attendance_proofs, RosterView_proofs
    RouterPool_proofs, Media_proofs, Directory_proofs, Traffic_proofs

Node runs a handler to its next `await` in one step, so everywhere an action is a handler, or
the part of a handler between two awaits that can really wait. An await of a settled promise
(the directory without Redis, a router that exists) takes microtasks only: no other
event runs in between and the models have no step there.

Every operator `MutX` next to an `X` is `X` with one plausible mistake (a dropped guard,
the wrong key, an off-by-one). The models never use them: each shows that a property
notices the mistake.

### MeetingRoom

| variable | code |
|---|---|
| `type`, `waitingRoomEnabled`, `status`, `locked` | `Meeting`; `status` is "ended" once `endedAt` is set, "deleted" once the record is gone |
| `socketId`, `role`, `leaveTimer` | `meeting.participants`: `NoSocket` when the user holds no seat; `leaveTimer` is `pendingLeaveTimer` |
| `timers` | armed `setTimeout`s of `scheduleDisconnectCleanup`, each named by the socket that dropped (a socket drops once) |
| `waiting` | `meeting.waitingParticipants` |
| `router` | `RouterManagerService`: "pending" while in `pendingRooms`, "ready" while in `rooms` |
| `awaitingOwner`, `awaitingRouter` | joinRoom calls at their two awaits |
| `sock`, `doomed` | connections; those a server-side disconnect is under way for |
| `told` | what a client last heard of its own place, for the properties |

| action | code |
|---|---|
| `Connect` | `handleConnection`, authenticated |
| `JoinRoom`, `OwnerConfirmed`, `OwnerRefused`, `RouterReady`, `RouterFails` | `joinRoom`, cut at the ownership lookup (a real wait only with Redis) and at the router |
| `LeaveRoom`, `Disconnect`, `LeaveTimerFires` | `leaveRoom`, `handleDisconnect`, the grace timeout; all end in `finalizeLeave` |
| `ServerDisconnects` | the `setImmediate` of `end()`, or a disconnect that travels through the Redis adapter |
| `Kick`, `Promote`, `Demote`, `SetLocked` | the moderation handlers of the gateway (a live role with the permission) and of REST ("trusted") |
| `Admit`, `Reject` | the waiting-room handlers; `Admit` calls joinRoom for the admitted connection |
| `EndMeeting`, `DeleteMeeting` | endMeeting on a socket or REST; the REST delete |

joinRoom's branches are the disjuncts `Refuse`, `Rebind`, `Park`, `TakeSeat`. With one
instance `HangUp` closes the connection in the same step, as Socket.IO's in-memory
adapter does; with Redis the request travels through pub/sub and lands later.

### RosterView

Adds the meeting's socket.io room and, per client, the list of participants that
results from the join reply and `userJoined`, `userLeft`, `participantRemoved`,
`meetingEnded`. It assumes one instance (`SingleInstance`), where a broadcast reaches
the process's own sockets in the order of the calls.

### Attendance

The abstract specification: a user is out, waiting, in, or in the grace period; the
grace period keeps the rank and ends by itself; one user's coming or going moves
nobody else; the end empties the meeting for good. `MeetingRoom` implements it under
the mapping `Promise` (`place` from seats, waiting entries and connections; `rank` from
`role`) on one instance, and with Redis but for the newcomer whose lookup answers after its
connection dropped (`LateEntry`).

### RouterContract and RouterPool

`RouterContract` is what `MeetingRoom` takes for granted of a meeting's router: absent,
being created, standing; a creation ends, and a router stands until it is closed.
Both sides are shown to keep it: `MeetingRoom` through its `router`, `RouterPool`
through `RouterState`.

| variable of `RouterPool` | code |
|---|---|
| `entries`, `routerCount`, `indexOf`, `spawning`, `spawned`, `nextPid` | `WorkerPoolService.entries` and spawnWorker calls at their two awaits (the process, its WebRtcServer); "failed" once a replacement failed, which ends the service's process |
| `rooms`, `creations` | `RouterManagerService.rooms`, `pendingRooms`; `stage` is the await createRoom is at, `awaited` says that a join waits for it |
| `live`, `home` | routers that exist in a worker, and which |
| `handed`, `abandoned` | history, for the properties |

| action | code |
|---|---|
| `JoinStanding`, `JoinFirst`, `JoinPending` | getOrCreateRouter: a router there is, a creation to start on the least loaded worker, one to share |
| `RouterCreated`, `ObserverCreated`, `CreationFails` | createRoom after each await |
| `MeetingEmpties` | closeRouter, at the end and at the last leave |
| `WorkerDies`, `ProcessStarted`, `ServerCreated`, `SpawnFails` | the 'died' handler and the replacement; when that fails, nobody handles the rejection and Node (20, `main.ts` sets no handler) ends the process |
| `Shutdown` | onModuleDestroy |

### Media

| variable | code |
|---|---|
| `type`, `isEnded`, `screenShareEnabled`, `activePresenterId` | `Meeting` |
| `seated`, `transports`, `producers`, `consumers` | `Participant` and its maps |
| `stopped`, `deadProducers` | closed producers still in the map: the screens a forced stop closed, counted, and producers answered after their transport had closed |
| `orphaned` | a transport is live that no participant of the meeting has |
| `audioMuted`, `videoEnabled`, `presenting` | its public flags |
| `known` | the producers a client has been told of: existingProducers, newProducer, producerClosed |
| `channel` | requests to the mediasoup worker and its notifications, answered in order |

A handler holds the `Participant` it read before its await. `seat` in a channel record
says what became of that object: "current", "rebound" (the user reconnected, closing
its media, on the same object) or "gone" (it is no longer the meeting's, even if the
user is back); a transport is "closed" once the router it is created on is
(`Overtaken`). So a late answer is applied to exactly what the code applies it to: a
transport answered after its user left goes to the `Participant` that left, and lives as
long as the router.

Clients are assumed to send each source once at a time (`Free`) and to control only
producers whose id one of their own produce calls returned, as those of the repository do
(`testing/browser-app/client.ts:300`, `367-383`). A screen that a forced stop closed is such
a producer, and still found: `CloseStopped`, `ControlStopped`. The ids of `deadProducers`
were never returned to the connection that holds the seat.

| action | code |
|---|---|
| `JoinRoom`, `Rejoin`, `FinalizeLeave`, `Kick`, `EndMeeting` | what joinRoom, finalizeLeave, removeParticipant and end do to media: `CloseAllMedia`, `Vacate`, and the slot |
| `CreateTransport`, `Produce`, `Consume`, `PauseProducer`, `ResumeProducer`, `CloseProducer`, `StartScreenShare`, `StopScreenShare` | the handlers of both gateways up to their await |
| `CloseStopped`, `ControlStopped` | closeProducer, and pauseProducer or resumeProducer, of a screen that a forced stop closed |
| `Mute`, `EnableScreenShare`, `DisableScreenShare` | moderation; the mute loops over its producers with an await in each turn (`MuteLoop`) |
| `TransportCreated`, `Produced`, `Observed`, `PauseAnswered`, `MuteAnswered`, `Consumed`, `Refused` | the rest of each handler, when the worker answers |
| `ProducerClosed` | the consumer's 'producerclose' |

### Directory

| variable | code |
|---|---|
| `up`, `run` | processes of each instance, one after another |
| `record` | the instance's record of one meeting id (`MeetingRepository`) |
| `entry` | the Redis owner key |
| `queue` | commands an instance's Redis connection has yet to run: register, clear, look up, claim; only the last two are awaited |
| `request` | where each REST request or join stands: asking, found, claiming, moving, done, and how it was answered |
| `creates`; `creators`, `faulty`, `steady` | a bound; history, for the properties |

| action | code |
|---|---|
| `Create`, `EndBySocket` | `MeetingService.create`, end by the host or by hanging up |
| `Ask`, `Continue`, `Arrive` | `MeetingOwnershipMiddleware` and the controllers, `InstanceForwarderService`; joinRoom's WRONG_INSTANCE, its claim of a meeting the directory does not know, and the client that follows the redirect |
| `RedisRuns`, `RedisFails`, `Expire` | Redis |
| `Crash`, `Restart` | a process takes its records, its queue and the requests that went through it along; an entry stays |

### Traffic

| variable | code |
|---|---|
| `now`, `hits` | the clock; the maps of the four `SlidingWindowLimiter`-like windows (connections, events, reactions, demo keys) |
| `connected`, `auth`, `seat`, `ended` | connections, whether verification has answered, the chat room |
| `buffer`, `sent`, `shown` | `ChatService`'s history; what each client got |
| `acts` | what each connection tries, a bound |
| `accepted`, `refused`, `replied` | history, for the properties |

| action | code |
|---|---|
| `Connect`, `Authenticated`, `Disconnect` | handleConnection up to and after its await, handleDisconnect with releaseConnection |
| `GuardedEvent`, `Reaction`, `CreateKey` | the handlers that call a limiter |
| `JoinRoom`, `JoinAnswered`, `LeaveRoom`, `ChatMessage`, `EndMeeting` | entering the room, the reply with the history, messages, the end |
| `Tick` | a millisecond passes |

## 3. Runs

| run | instance | states | shows |
|---|---|---|---|
| `roster` | no Redis; the host on one connection, the guest on two; both meeting types, with and without a waiting room | 128,684 | `SeatHasTimer`, `WaitersAreConnected`, `RosterIsExact`, `SeatedHearBroadcasts`; `DroppedSeatsResolve`, `OnlyKicksLeaveTimers` and `KeepsAttendance` (the refinement with its liveness) |
| `redis` | Redis; host and guest, one connection each | 48,694 | `TypeOK`, `EndedIsEmpty`, `JoinedHasRouter`, `NoJoinIsForgotten`, `LockedRoomOnlyShrinks`, `JoinsAreAnswered`, `KeepsRouterContract`, `OnlyLateLookupsStrand`, `OnlyLateEntriesBreakAttendance` |
| `media` | two users; one sends microphone and screen in a group meeting, a camera in a call; a client sends only while fewer than two records are under way, and shares again after at most one forced stop | 468,581 | `TypeOK`, `OffMeansOff`, `LiveIsKnown`, `TilesAreLive`, `PresentersHaveScreens`, `OnlyStaleClosesHide` |
| `pool` | two meetings, two workers, one replacement process, three routers | 117,006 | `TypeOK`, `OneRouterPerMeeting`, `RoomsOutliveOnlyWorkers`, `CountsAreExact`, `RoutersAreAccountedFor`, `KeepsRouterContract` with its liveness |
| `directory` | two instances with fixed ids; a join, and a request of any kind; the id used for two meetings; one instance may crash and restart once | 295,889 | `TypeOK`, `LiveMeetingIsListed`, `LiveMeetingIsFound`, `NoRequestIsForgotten`, `RequestsAreAnswered`, `HopsLeadHome` |
| `traffic` | three connections of two users behind one address; limits 1 and 2, windows of two ticks, time up to 2, a history of one, two messages; three scenarios | 214,561 | `TypeOK`, `NeverOverLimit`, `RefusedOnlyAtLimit`, `ClosedAreForgotten`, `HistoryIsRecent`, `NoMessageIsMissed` |
| `stale_timer`, `router_leak`, `admit` | as `roster`, `MeetingRoom` alone, no fairness | | **violated**: `TimersSpareTheConnected`, `RouterTornDown`, `AdmittedMeansSeated` |
| `presenters` | as `media`, both send screens | | **violated**: `OnePresenter` |
| `forward` | as `directory`, one request, no faults and no fairness | | **violated**: `ForwardedAreServed` |
| `restart` | as `directory`, one request, no `INSTANCE_ID` | | **violated**: `RequestsAreAnswered` |

Bounds, and why they are enough.

* `MeetingRoom` and `RosterView` have one bound, the number of connections, since a
  Socket.IO id is used once; nothing else is capped. Two users are enough for each rule
  about "another user" (host and guest differ in rank, waiting and lock); two
  connections for one user give every reconnect, old-tab and rejoin interleaving.
* `MaxRequests` bounds the requests a client adds to a channel that is already that
  long; what handlers and the worker add by themselves (the observer, the next turn of
  a mute, notices) is not bounded. Two under way is what an overtaking needs: a late
  answer and the request that overtook it. `MaxStopped` bounds the closed screens a user has left when
  sharing again: with one, a stale close meets the screen shared since. One sender and one viewer are enough, since
  no handler looks at a third participant; the presenter slot, where two senders
  meet, has its run.
* `pool`: a replacement beside a survivor, and a third router on a pool that has lost a
  worker. Process and router numbers are never reused, so they only bound the length of
  a behaviour.
* `directory`: two meetings with the same id make a late clear meet a new
  registration; two requests make a claim meet an end. The rest of the faults (a failed
  write, an expiry) are not bounded.
* `traffic`: windows of two ticks have an inside, an edge and an outside; limits 1 and 2
  are full after one and not full after one. Messages beyond the history's limit fall out
  of it. A limit of 0 is covered by the proofs.

`CHECK_DEADLOCK FALSE` is set everywhere because each system may really stop: once all
connections, processes, requests or ticks are used up and the meeting is over, nothing
is left to do.

Fairness. No client, connection, moderator, fault or crash is ever assumed to happen.

| specification | assumes | because |
|---|---|---|
| `SettlingSpec` (`redis`) | each awaited promise settles; nothing of which way | Redis answers or errors, the mediasoup worker answers or dies |
| `TimelyViewSpec` (`roster`) | each armed `setTimeout` fires | Node's event loop |
| `AnsweringSpec` (`pool`) | for each meeting a creation under way ends; nothing of which way | mediasoup answers or rejects each request of a worker, also when it dies |
| `ProgressSpec` (`directory`, `restart`) | Redis commands are run or rejected; a request that may go on does, and what is sent to an instance arrives there or is refused | event loop, Redis client, HTTP |

### What the violated runs show

1. **A kick leaves its target's timeout armed** (`moderation.service.ts:82`). The user
   drops (timeout armed), is kicked in the grace period, joins again on a new
   connection; the old timeout calls `finalizeLeave(meeting, userId)` and removes the
   connected user. `participant.entity.ts:23` says it is "cleared if the peer
   reconnects within the grace period". While the meeting lives the kick is the only
   handler that leaves a timeout behind (`OnlyKicksLeaveTimers`, proved): clearing it
   there is a complete repair.
2. **A router that outlives its meeting** (`meeting.service.ts:106`). `closeRouter`
   does nothing while the creation is pending; the router is registered afterwards
   and no code path closes it. `meeting.service.ts:81` says end "tears down its router".
3. **Admitting puts the visitor back in the queue** (`meetings.gateway.ts:667`).
   joinRoom applies the waiting-room test again, so `admitted` carries
   `{ waiting: true }`, against `docs/INTEGRATION.md:384`.
4. **Two presenters** (`signaling.service.ts:435`). `produce` tests the presenter slot
   before it awaits mediasoup and takes it afterwards, whoever holds it by then: two
   users who produce their screens together both pass and both present.
   `screen-share.service.ts:13` says "only one active presentation at a time".
5. **A forwarded request is refused** (`instance-forwarder.service.ts:25`). The forwarder
   passes `X-API-Key` on but not the `X-Secret-Key` that `ApiKeyGuard` asks for too, so a
   REST call that lands on another instance than the owner is answered 401. The
   forwarder's comment (lines 8-11) says the guard authorizes it as if it had come
   directly, `scripts/cross-instance-test.js:133` expects a lock through the other
   instance to succeed, and `docs/INTEGRATION.md:442-445` promises transparent
   forwarding. Joins are redirected instead and are not affected; they, and requests
   made at the holder, are the subject of `LiveMeetingIsFound`.
6. **A restarted instance forwards to itself** (`config.module.ts:24`). Without
   `INSTANCE_ID` a process is named by host and pid, while its URL stays. After a restart it
   finds its predecessor's entry, takes it for somebody else's and forwards the request
   to its own URL, where the same happens again until the entry expires after a day.
   `.env.example:36-38` calls the setting cosmetic. With fixed ids no crash, restart or
   expiry makes a meeting of one creator hop twice (`HopsLeadHome`, proved).

Seen on the way, and without a run of their own:

* A seat for a dead connection (`signaling.service.ts:188`). With Redis the
  connection may drop while joinRoom awaits the ownership lookup. The socket carries no
  meeting id yet, so `handleDisconnect` does nothing, and joinRoom then seats it. No
  timeout ever frees that seat, unlike what `docs/INTEGRATION.md:346-348` says of any
  dropped socket: with Redis `SeatHasTimer` is false. `OnlyLateLookupsStrand`, checked by
  `redis` and proved for any deployment, says that nothing else strands a seat or a
  waiting entry: a test after that one await is a complete repair.
* A screen that flows unannounced (`signaling.service.ts:604-616`). A forced stop leaves
  the closed screen in the participant's map. When the user has shared again, a
  closeProducer of the old id finds it, clears `presenting`, frees the slot and
  broadcasts `screenShareStopped` while the new screen flows, and another user may then
  present beside it; `docs/INTEGRATION.md:361-364` ties that broadcast to the close of the
  track. `OnlyStaleClosesHide` (proved) says that nothing else does it.
* A late transport (`signaling.service.ts:388-396`). One that is answered after its user
  left or was kicked is added to the `Participant` that left, which nothing closes again:
  it stays in the worker until the router closes (`orphaned`). `TypeOK` (proved) says that
  it does not outlive an ended meeting.
* A router without an observer (`router-manager.service.ts:69`). If
  `createAudioLevelObserver` fails, the router stays in its worker, counted and never
  closed. `RoutersAreAccountedFor` exempts these (`abandoned`) and says that no other
  router is lost.
* A replacement worker that cannot be started ends the service's process, with the
  meetings on its other workers (`worker-pool.service.ts:114`: the rejection is not handled).
* `docs/INTEGRATION.md:381` gives lock and unlock to host and moderator,
  `permission.enum.ts:28-39` to the host only.
* `connection-guard.service.ts:74` wants checkEventRate at the top of every handler; only
  joinRoom, createTransport, produce and consume call it. The limiters of users, demo
  keys and reactions are never pruned.
* Events that arrive before the awaited authentication has answered run their handlers;
  joinRoom counts as an event then, and nothing else happens.
* `worker-pool.service.ts:111-113` says that the rooms of a dead worker "must be
  rejoined by clients"; the room keeps its entry, and a rejoin gets the closed router. The
  death is the only way to such a room (`RoomsOutliveOnlyWorkers`, proved).
* A kicked presenter, or one who leaves between startScreenShare and produce, leaves
  the presenter slot taken until the feature is disabled.
* A join that arrives at an instance with an ended meeting, whose entry is gone, registers it again.
* Nothing keeps two instances from creating a meeting of the same id; the last
  registration wins.

## 4. Proofs

All theorems hold for every value of the constants: any users, connections, workers,
instances, limits and bounds. Each module's named ASSUMEs are what they rest on, and TLC
evaluates them in the runs.

| theorem | property | module | |
|---|---|---|---|
| `TypeCorrect` | `TypeOK` | `MeetingRoom_proofs` | any deployment |
| `EndedStaysEmpty` | `EndedIsEmpty` | `MeetingRoom_proofs` | any deployment |
| `JoinedFindRouter` | `JoinedHasRouter` | `MeetingRoom_proofs` | any deployment |
| `LockKeepsOut` | `LockedRoomOnlyShrinks` | `MeetingRoom_proofs` | any deployment |
| `SeatsHaveTimers` | `SeatHasTimer` | `Seats_proofs` | one instance |
| `WaitersStayConnected` | `WaitersAreConnected` | `Seats_proofs` | one instance |
| `ImplementsAttendance` | the safety of `KeepsAttendance` | `Attendance_proofs` | one instance |
| `RoomKeepsRouterContract` | `KeepsRouterContract` | `MeetingRoom_proofs` | any deployment |
| `JoinsAreRemembered` | `NoJoinIsForgotten` | `MeetingRoom_proofs` | any deployment |
| `NothingElseStrands` | `OnlyLateLookupsStrand` | `Seats_proofs` | any deployment |
| `NothingElseLeavesTimers` | `OnlyKicksLeaveTimers` | `Seats_proofs` | any deployment |
| `NothingElseBreaksAttendance` | `OnlyLateEntriesBreakAttendance` | `Attendance_proofs` | any deployment |
| `SeatedHear` | `SeatedHearBroadcasts` | `RosterView_proofs` | one instance |
| `RostersExact` | `RosterIsExact` | `RosterView_proofs` | one instance |
| `MediaTypes` | `TypeOK` | `Media_proofs` |  |
| `StaleClosesOnly` | `OnlyStaleClosesHide` | `Media_proofs` |  |
| `NoFrozenTiles` | `TilesAreLive` | `Media_proofs` |  |
| `LiveProducersAreKnown` | `LiveIsKnown` | `Media_proofs` |  |
| `WhatIsOffIsOff` | `OffMeansOff` | `Media_proofs` |  |
| `PresentersShare` | `PresentersHaveScreens` | `Media_proofs` |  |
| `PoolTypes` | `TypeOK` | `RouterPool_proofs` |  |
| `OneRouter` | `OneRouterPerMeeting` | `RouterPool_proofs` |  |
| `CountsExact` | `CountsAreExact` | `RouterPool_proofs` |  |
| `RoomsOutlive` | `RoomsOutliveOnlyWorkers` | `RouterPool_proofs` |  |
| `RoutersAccounted` | `RoutersAreAccountedFor` | `RouterPool_proofs` |  |
| `PoolKeepsContract` | the safety of `RouterContract` | `RouterPool_proofs` |  |
| `LiveIsListed` | `LiveMeetingIsListed` | `Directory_proofs` |  |
| `DirectoryTypes` | `TypeOK` | `Directory_proofs` |  |
| `LiveIsFound` | `LiveMeetingIsFound` | `Directory_proofs` |  |
| `RequestsAreRemembered` | `NoRequestIsForgotten` | `Directory_proofs` |  |
| `NobodyIsPassedOnTwice` | `HopsLeadHome` | `Directory_proofs` |  |
| `TrafficTypes` | `TypeOK` | `Traffic_proofs` |  |
| `LimitHolds` | `NeverOverLimit` | `Traffic_proofs` |  |
| `RefusalsAreDue` | `RefusedOnlyAtLimit` | `Traffic_proofs` |  |
| `ClosedForgotten` | `ClosedAreForgotten` | `Traffic_proofs` |  |
| `HistoryKept` | `HistoryIsRecent` | `Traffic_proofs` |  |
| `NothingMissed` | `NoMessageIsMissed` | `Traffic_proofs` |  |

* `MeetingRoom_proofs`. `TypeOK` is inductive, handler part by handler part.
  `EndedIsEmpty` is inductive with it: `Refuse` is the only branch of an ended
  meeting. `JoinedHasRouter` needs `ToldAreOpen` besides (only a connection that is
  up holds an answer): otherwise a connection that comes up could already count as joined.
  `LockedRoomOnlyShrinks` is a step property: only `TakeSeat` adds a participant, and
  it tests the lock in the same step.
  `NoJoinIsForgotten` is inductive with `TypeOK`: every close and every answer of a
  creation takes the joins that waited for it along.
* `Seats_proofs` first says what holds in any deployment. With Redis `SeatHasTimer` and
  `WaitersAreConnected` are false (the seat for a dead connection above), so the theorem there is that
  nothing else makes them so: a step breaks one of them for a user only if it is the
  answer of a lookup whose connection dropped. It needs what does not depend on the
  lookup, `BoundInv`: seats and waiting entries are bound to their
  own user's connections (`OwnConnections`), no seat or join to a connection yet to come
  up, nobody both sits and waits (`WaitOrSit`), since `handleDisconnect` looks at the
  waiting entry first and then forgets the seat, and a seat knows only of the timeout of
  its own connection. `WaitOrSit` says why: those who must wait never sit, which is the
  third finding seen from the other side. A repair of `onAdmit` will need another argument
  here. `NothingElseLeavesTimers` is the same kind of theorem for the first finding: while
  the meeting lives a timeout loses its seat by a kick, or in the wake of an earlier kick.
  On one instance no join awaits a lookup (`SeatInv`), so nothing strands anybody, and
  `SeatsHaveTimers` and `WaitersStayConnected` follow.
* `Attendance_proofs`. Under `BoundInv` and `HostRank` (the host's rank survives
  every promotion and demotion) each handler is one step of `Attendance` or a stutter, or
  is a late entry: a newcomer seated after the connection dropped, who goes from out to
  grace. `Attendance` forbids by its shape that a second user moves in the same step, so
  each case also shows that everybody else's place is unchanged. On one instance there is
  no late entry, and the refinement (`ImplementsAttendance`) is a corollary.
* `RosterView_proofs`. Each step of `RosterView` is one of `MeetingRoom`, so `SeatInv`,
  `ToldAreOpen` and `JoinedHasRouter` carry over (`RoomFacts`). `Shown`, the two theorems
  together, is then inductive: that broadcasts reach every seat is why the lists stay
  exact, and that a seat has one connection is why a connection may leave the room.
* `RouterPool_proofs`. `PoolInv` adds to the three properties that numbers not yet given
  out are unused (`PidsAreFresh`, `RoutersAreNew`), that a meeting has one creation under
  way and none beside a router (`CreationsAreOne`), that a router is one meeting's
  (`RoomsAreOwn`) and where live routers are (`LiveAreHome`), and that joins got the
  registered one (`HandedIsRoom`). The counts need all of it: a death takes a worker's
  routers and its creations at once, and a creation that was answered adds one router
  and one to the count of a worker that is still in the pool. `RoomsOutlive` is read off
  the same invariant: a room's router is live, or was a dead worker's; so is `RoutersAccounted`,
  which lets go of the routers whose observer failed (`abandoned`). `PoolKeepsContract` and
  `RoomKeepsRouterContract` are the two sides of the composition.
* `Directory_proofs`. `ListingInv` adds `Quiet`: until something fails every instance runs, and one
  that never used the id has only lookups queued, so that the owner's own writes, in
  their order, decide the entry. `FoundInv` follows the requests: the queues hold for a
  request at most the one command it waits for (`Attended`), only creators have writes
  queued and the entry names one of them (`Holders`), joins are never forwarded (`Direct`),
  and a request made in time is at the holder or about to be sent there (`Steady`), where
  it is served unless it was forwarded. TLC
  confirmed it with fixed and with changing ids. `RequestsAreRemembered` adds to it, per
  request, that the command it waits for is queued at its instance: a crash takes both
  together, and a command leaves the queue with the wait. `NobodyIsPassedOnTwice` adds
  `OwnersAreCreators`: whatever the entry, or a request's lookup, names is an instance that
  used the id. Neither looks at `steady`, so both hold after every fault.
* `Traffic_proofs`. A limiter's list is not the whole history: `Remembered` says that it
  holds every accepted hit of the current window, but for the connections that were
  closed; `Unheard` that a connection yet to come has no hits, so that a released
  list never belongs to one that still counts; `Counted` that lists hold accepted
  hits only. For the chat, the reply closes the gap because `HistoryIsRecent` holds
  at that moment and the seat is in the room already.
* `Media_proofs`. `MediaInv` adds `Tagged` (a request whose caller has not lost its seat is
  that of a seated user) and `Tiles` (every consumer, and the creation of one under way, is
  of a live producer or precedes the notice of its end in the channel) to `TypeOK`:
  consumers may be created while their producer closes. `Ended` says that in a meeting
  that has ended no transport under way will be answered, since the router's close rejects it,
  so that none stays in the worker (`MediaTypes`). `StaleClosesOnly` is a step
  property: whoever's screen comes to flow is marked in the same step, and every handler
  that clears the flag takes the screen with it, but `CloseStopped`. `Play`, for
  `LiveIsKnown` and `OffMeansOff`, adds `Ordered` and `Sessions`, which TLC confirmed first: calls of a
  session that is over, and notices of what it closed, come before a producer of the same
  user and source is live or under way again, and that one is under way once at
  most. So a late answer never touches the wrong producer. It rests on the worker answering in
  order and on `Free`. `PresentersShare` is the converse of `StaleClosesOnly`
  and needs only `MediaInv`: a screen is taken away only together with the flag (`Screened`,
  user by user), the forced stop's included; the flag comes only with a
  screen because both are decided by what became of the request's seat, not by the slot.

`NoJoinIsForgotten`, `NoRequestIsForgotten` and `HopsLeadHome` are the safety cores of
`JoinsAreAnswered` and `RequestsAreAnswered`, for any values of the constants: the router a
join waits for is still being created, the command a request waits for is still queued,
and, with fixed ids and one creator, no request is passed around. What is left to TLC is
that fairness then brings the answer.

Only model-checked: the liveness properties (`DroppedSeatsResolve`, `JoinsAreAnswered`,
`RequestsAreAnswered`, the fairness halves of `KeepsAttendance` and
`KeepsRouterContract`), which need `ENABLED` and fairness, out of TLAPS's reach here. Every
safety property of the passing runs is proved.

## 5. Not modelled

* connectTransport, resumeConsumer, setPreferredLayers, restartIce, raised hands: they
  change no state another call reads. Media parameters, ICE, statistics, the chat and
  reaction switches, formatting and payload validation.
* TURN credentials, health, metrics: computed on request, no state. Hashing, tokens and
  the database: their delay and outcome are choices in `Traffic`.
* More than one meeting per connection (`client.data.meetingId` is overwritten). A model
  with two meetings squares `MeetingRoom`'s states, for one overwritten field.
* Broadcasts across instances: a meeting's participants are all on its owner, so the
  adapter only carries disconnects, which `MeetingRoom` delays.
* Worker deaths in `Media` (`RouterPool` has them without media), and clients that send
  a source twice at once (`Free`): the repository's clients do not, and producers could
  not be named by user and source. For the same reason a client does not control producers
  whose id only an earlier connection, or a call that failed, could know.
* In `Directory`: commands a crashed process had already handed to its socket, a client
  that ignores `redirectUrl`, the list of participants (which the middleware does not
  cover), and more than one meeting id (their keys do not interact).
* A clock that goes backwards; `permissionOverrides`, which no code writes.
* A restart of a single instance: all but the owner keys is in memory and lost with it.

## 6. What is left

* The host's view of the waiting room, which only later arrivals update.
* Two meetings on one connection, on a cut of `MeetingRoom` without moderation.
* Worker deaths in `Media`, on top of `RouterContract`.
