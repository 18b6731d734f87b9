----------------------------- MODULE RouterPool -----------------------------
(***************************************************************************)
(* RouterManagerService over WorkerPoolService: the routers of several     *)
(* meetings on a pool of mediasoup worker processes that die and are       *)
(* replaced.                                                               *)
(*                                                                         *)
(* createRoom awaits the worker twice, for the router and for its audio    *)
(* level observer; spawnWorker awaits twice, for the process and for its   *)
(* WebRtcServer.  When a worker dies mediasoup closes its routers, rejects *)
(* every request under way to it and emits 'died', in one go.              *)
(***************************************************************************)
EXTENDS Naturals, FiniteSets

CONSTANTS
    Meetings,
    NumWorkers,    \* config.numWorkers
    MaxPid,        \* bound on the worker processes ever started
    MaxRouter      \* bound on the routers ever asked for

ASSUME NumWorkersAssumption == NumWorkers \in Nat \ {0}
ASSUME BoundsAssumption == MaxPid \in Nat /\ MaxPid >= NumWorkers /\ MaxRouter \in Nat

Indexes == 1..NumWorkers
Pids    == 1..MaxPid
Routers == 1..MaxRouter
Nothing == 0

VARIABLES
    entries,      \* pids in WorkerPoolService.entries
    routerCount,  \* entries[p].routerCount
    indexOf,      \* the index worker p was spawned with (its port)
    spawning,     \* per index: "no", "process", "server", or "failed" once the process ended
    spawned,      \* the process a spawn at "server" has started
    nextPid,
    up,           \* the service has neither been shut down nor failed
    rooms,        \* RouterManagerService.rooms: the router of each meeting
    creations,    \* pendingRooms: createRoom calls under way
    live,         \* routers that exist in their worker
    home,         \* the worker a router was created on
    nextRouter,
    handed,       \* routers given to those now in the meeting (history)
    abandoned     \* routers whose observer could not be created (history)

poolVars == <<entries, routerCount, indexOf, spawning, spawned, nextPid>>
roomVars == <<rooms, creations, live, home, nextRouter, handed, abandoned>>
vars == <<poolVars, up, roomVars>>

Creations == [meeting : Meetings, pid : Pids, router : Routers,
              stage : {"router", "observer"}, awaited : BOOLEAN]

RoutersOn(p) == {r \in live : home[r] = p}

----------------------------------------------------------------------------
(* RouterManagerService.                                                   *)

MutLeastLoaded(p) == \A q \in entries : routerCount[p] <= routerCount[q]   \* any process
LeastLoaded(p)    == p \in entries /\ \A q \in entries : routerCount[p] <= routerCount[q]

(* getOrCreateRouter starts a creation only when there is neither a router *)
(* nor a creation to share.                                                *)
MutIdle(m) == rooms[m] = Nothing   \* does not look for a creation under way
Idle(m)    == rooms[m] = Nothing /\ \A c \in creations : c.meeting # m

JoinStanding(m) ==
    /\ up /\ rooms[m] # Nothing
    /\ handed' = [handed EXCEPT ![m] = @ \cup {rooms[m]}]
    /\ UNCHANGED <<poolVars, up, rooms, creations, live, home, nextRouter, abandoned>>

(* Without workers the creation fails at once.                             *)
JoinFirst(m) ==
    /\ up /\ Idle(m) /\ nextRouter <= MaxRouter
    /\ \E p \in Pids :
          /\ LeastLoaded(p)
          /\ creations' = creations \cup
                {[meeting |-> m, pid |-> p, router |-> nextRouter, stage |-> "router",
                  awaited |-> TRUE]}
          /\ home' = [home EXCEPT ![nextRouter] = p]
    /\ nextRouter' = nextRouter + 1
    /\ UNCHANGED <<poolVars, up, rooms, live, handed, abandoned>>

JoinPending(m) ==
    /\ up /\ rooms[m] = Nothing /\ ~Idle(m)
    /\ creations' = {IF c.meeting = m THEN [c EXCEPT !.awaited = TRUE] ELSE c : c \in creations}
    /\ UNCHANGED <<poolVars, up, rooms, live, home, nextRouter, handed, abandoned>>

(* createRouter answers; registerRouterCreated; the observer is asked for. *)
RouterCreated(c) ==
    /\ c.stage = "router"
    /\ live' = live \cup {c.router}
    /\ routerCount' = IF c.pid \in entries
                      THEN [routerCount EXCEPT ![c.pid] = @ + 1] ELSE routerCount
    /\ creations' = (creations \ {c}) \cup {[c EXCEPT !.stage = "observer"]}
    /\ UNCHANGED <<entries, indexOf, spawning, spawned, nextPid, up, rooms, home, nextRouter,
                   handed, abandoned>>

ObserverCreated(c) ==
    /\ c.stage = "observer"
    /\ rooms' = [rooms EXCEPT ![c.meeting] = c.router]
    /\ handed' = IF c.awaited THEN [handed EXCEPT ![c.meeting] = @ \cup {c.router}] ELSE handed
    /\ creations' = creations \ {c}
    /\ UNCHANGED <<poolVars, up, live, home, nextRouter, abandoned>>

(* Either request fails; nothing closes a router that was created.         *)
CreationFails(c) ==
    /\ creations' = creations \ {c}
    /\ abandoned' = IF c.stage = "observer" THEN abandoned \cup {c.router} ELSE abandoned
    /\ UNCHANGED <<poolVars, up, rooms, live, home, nextRouter, handed>>

(* registerRouterClosed.                                                   *)
MutCountAfterClose(p) == routerCount   \* closes the router, keeps the count
CountAfterClose(p) ==
    IF p \in entries
    THEN [routerCount EXCEPT ![p] = IF @ > 0 THEN @ - 1 ELSE 0] ELSE routerCount

(* Drops the room and leaves its router running; or closes them all.       *)
MutClosed(r)    == live
MutClosesAll(r) == live \ RoutersOn(home[r])
Closed(r)       == live \ {r}

(* The last participant leaves, or the meeting ends: closeRouter.  Joins   *)
(* that still await a creation have left too.                              *)
MeetingEmpties(m) ==
    /\ up
    /\ handed' = [handed EXCEPT ![m] = {}]
    /\ creations' = {IF c.meeting = m THEN [c EXCEPT !.awaited = FALSE] ELSE c : c \in creations}
    /\ IF rooms[m] = Nothing
       THEN UNCHANGED <<rooms, live, routerCount>>
       ELSE /\ live' = Closed(rooms[m])
            /\ routerCount' = CountAfterClose(home[rooms[m]])
            /\ rooms' = [rooms EXCEPT ![m] = Nothing]
    /\ UNCHANGED <<entries, indexOf, spawning, spawned, nextPid, up, home, nextRouter, abandoned>>

----------------------------------------------------------------------------
(* WorkerPoolService.                                                      *)

(* 'died': its entry goes and a replacement is started.  The rooms on it   *)
(* keep their entry, now for a router that is closed.                      *)
WorkerDies(p) ==
    /\ p \in entries
    /\ entries' = entries \ {p}
    /\ spawning' = [spawning EXCEPT ![indexOf[p]] = "process"]
    /\ live' = live \ RoutersOn(p)
    /\ creations' = {c \in creations : c.pid # p}
    /\ UNCHANGED <<routerCount, indexOf, spawned, nextPid, up, rooms, home, nextRouter, handed,
                   abandoned>>

ProcessStarted(i) ==
    /\ spawning[i] = "process" /\ nextPid <= MaxPid
    /\ spawning' = [spawning EXCEPT ![i] = "server"]
    /\ spawned' = [spawned EXCEPT ![i] = nextPid]
    /\ nextPid' = nextPid + 1
    /\ UNCHANGED <<entries, routerCount, indexOf, up, roomVars>>

ServerCreated(i) ==
    /\ spawning[i] = "server"
    /\ entries' = entries \cup {spawned[i]}
    /\ indexOf' = [indexOf EXCEPT ![spawned[i]] = i]
    /\ routerCount' = [routerCount EXCEPT ![spawned[i]] = 0]
    /\ spawning' = [spawning EXCEPT ![i] = "no"]
    /\ UNCHANGED <<spawned, nextPid, up, roomVars>>

(* Neither await is guarded: the rejection is unhandled and ends the       *)
(* process, its workers with it; what it had in memory stands still.       *)
SpawnFails(i) ==
    /\ spawning[i] \in {"process", "server"}
    /\ spawning' = [j \in Indexes |-> "failed"]
    /\ up' = FALSE
    /\ entries' = {} /\ live' = {} /\ creations' = {}
    /\ UNCHANGED <<routerCount, indexOf, spawned, nextPid, rooms, home, nextRouter, handed,
                   abandoned>>

(* onModuleDestroy.                                                        *)
Shutdown ==
    /\ up
    /\ up' = FALSE
    /\ entries' = {}
    /\ live' = {r \in live : home[r] \notin entries}
    /\ creations' = {c \in creations : c.pid \notin entries}
    /\ UNCHANGED <<routerCount, indexOf, spawning, spawned, nextPid, rooms, home, nextRouter,
                   handed, abandoned>>

----------------------------------------------------------------------------
(* onModuleInit has started every worker before a request is served.       *)
Init ==
    /\ entries = Indexes
    /\ routerCount = [p \in Pids |-> 0]
    /\ indexOf = [p \in Pids |-> IF p \in Indexes THEN p ELSE 1]
    /\ spawning = [i \in Indexes |-> "no"]
    /\ spawned = [i \in Indexes |-> Nothing]
    /\ nextPid = NumWorkers + 1
    /\ up = TRUE
    /\ rooms = [m \in Meetings |-> Nothing]
    /\ creations = {}
    /\ live = {}
    /\ home = [r \in Routers |-> Nothing]
    /\ nextRouter = 1
    /\ handed = [m \in Meetings |-> {}]
    /\ abandoned = {}

CreationStep(c) == RouterCreated(c) \/ ObserverCreated(c) \/ CreationFails(c)
SpawnStep(i)    == ProcessStarted(i) \/ ServerCreated(i) \/ SpawnFails(i)

Next ==
    \/ \E m \in Meetings : JoinStanding(m) \/ JoinFirst(m) \/ JoinPending(m) \/ MeetingEmpties(m)
    \/ \E c \in creations : CreationStep(c)
    \/ \E p \in Pids : WorkerDies(p)
    \/ \E i \in Indexes : SpawnStep(i)
    \/ Shutdown

Spec == Init /\ [][Next]_vars

(* What mediasoup owes the code: a request to a worker is answered.        *)
Settles(m) == \E c \in creations : c.meeting = m /\ CreationStep(c)
AnsweringSpec == Spec /\ \A m \in Meetings : WF_vars(Settles(m))

----------------------------------------------------------------------------
(* Types; a creation under way is always on a worker of the pool.          *)
TypeOK ==
    /\ entries \subseteq Pids
    /\ routerCount \in [Pids -> Nat]
    /\ indexOf \in [Pids -> Indexes]
    /\ spawning \in [Indexes -> {"no", "process", "server", "failed"}]
    /\ spawned \in [Indexes -> Pids \cup {Nothing}]
    /\ nextPid \in 1..(MaxPid + 1)
    /\ up \in BOOLEAN
    /\ rooms \in [Meetings -> Routers \cup {Nothing}]
    /\ creations \subseteq Creations
    /\ live \subseteq Routers
    /\ home \in [Routers -> Pids \cup {Nothing}]
    /\ nextRouter \in 1..(MaxRouter + 1)
    /\ handed \in [Meetings -> SUBSET Routers]
    /\ abandoned \subseteq Routers
    /\ \A c \in creations : c.pid \in entries

(* Nobody in a meeting is on a different router than the others, which is  *)
(* what getOrCreateRouter's comment says memoizing the creation is for.    *)
OneRouterPerMeeting ==
    \A m \in Meetings : \A r, s \in handed[m] : r = s

(* A worker's count is the number of routers it runs, through deaths,      *)
(* replacements and failed creations: the least loaded worker is chosen    *)
(* from true figures, and the Math.max(0, ...) never hides a miscount.     *)
CountsAreExact ==
    \A p \in entries : routerCount[p] = Cardinality(RoutersOn(p))

(* A running router belongs to a meeting that can close it, or to a        *)
(* creation under way; only a failed observer leaves one behind, which     *)
(* createRoom neither registers nor closes.                                *)
RoutersAreAccountedFor ==
    \A r \in live : \/ \E m \in Meetings : rooms[m] = r
                    \/ \E c \in creations : c.router = r
                    \/ r \in abandoned

(* The room of a meeting stands for a router of its own that runs, through *)
(* other meetings' ends and failed creations: only the death of its worker *)
(* leaves a meeting with a room whose router is closed.                    *)
RoomsOutliveOnlyWorkers ==
    \A m \in Meetings : rooms[m] # Nothing =>
        /\ rooms[m] \in live \/ home[rooms[m]] \notin entries
        /\ \A n \in Meetings \ {m} : rooms[n] # rooms[m]

RouterState(m) ==
    IF rooms[m] # Nothing THEN "ready"
    ELSE IF \E c \in creations : c.meeting = m THEN "pending" ELSE "none"

Contract == INSTANCE RouterContract WITH router <- [m \in Meetings |-> RouterState(m)]

(* The pool keeps the contract MeetingRoom relies on: a router stands until *)
(* it is closed, and no creation stays under way for ever, worker deaths    *)
(* included.                                                                *)
KeepsRouterContract == Contract!ContractSpec
=============================================================================
