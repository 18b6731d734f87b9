----------------------------- MODULE Directory -----------------------------
(***************************************************************************)
(* Several instances of the service over one Redis: which of them holds a  *)
(* meeting (MeetingService's repository), which one the directory names    *)
(* (MeetingDirectoryService), and how REST requests and joins that reach   *)
(* any instance find their way (MeetingOwnershipMiddleware,                *)
(* InstanceForwarderService, joinRoom's WRONG_INSTANCE).  Directory keys   *)
(* do not interact: the module follows one meeting id.                     *)
(*                                                                         *)
(* An instance sends its Redis commands over one connection, which runs    *)
(* them in order; writes are not awaited, except a join's own claim.       *)
(***************************************************************************)
EXTENDS Naturals, Sequences

CONSTANTS
    Instances,
    Requests,      \* REST requests and joins, each made once
    Asks,          \* the kinds each request may be of
    Nobody,        \* neither an owner, an instance nor a request
    FixedIds,      \* INSTANCE_ID is set, and survives a restart
    MaxCreates,    \* bound on the times the id is used for a new meeting
    Crashing,      \* instances whose process may crash (a bound)
    MaxRuns        \* bound on the processes an instance runs one after another

Kinds == {"join", "read", "end", "delete"}   \* "read": any other route under :id

ASSUME AsksAssumption == Asks \in [Requests -> SUBSET Kinds]
ASSUME FixedIdsAssumption == FixedIds \in BOOLEAN
ASSUME CrashingAssumption == Crashing \subseteq Instances
ASSUME BoundsAssumption == MaxCreates \in Nat /\ MaxRuns \in Nat \ {0}

Owners == [url : Instances, run : 0..MaxRuns]

ASSUME NobodyAssumption == Nobody \notin Owners \cup Instances \cup Requests

VARIABLES
    up,         \* instances whose process runs
    run,        \* how many processes an instance has run
    record,     \* the instance's record of the meeting: "none", "live", "ended"
    entry,      \* the directory's entry, an owner or Nobody
    queue,      \* commands an instance's Redis connection has yet to run
    request,    \* where each request stands
    creates,    \* times the id was used
    creators,   \* instances that used it (history)
    faulty,     \* a write failed, an entry expired or an instance crashed (history)
    steady      \* requests whose meeting was reachable ever since they were made (history)

historyVars == <<creators, faulty, steady>>
vars == <<up, run, record, entry, queue, request, creates, historyVars>>

(* An instance is reached at its INSTANCE_INTERNAL_URL and named by its    *)
(* INSTANCE_ID; without one a new process has a new name.                  *)
Self(i) == [url |-> i, run |-> IF FixedIds THEN 0 ELSE run[i]]

MutForeign(i, owner) == owner # Nobody   \* does not recognise itself
Foreign(i, owner)    == owner # Nobody /\ owner # Self(i)

Answers == {"served", "notFound", "ended", "unauthorized", "unreachable", "error", "lost"}

Command == [op : {"set", "clear", "get", "claim"}, by : Requests \cup {Nobody}]

Fresh == [stage |-> "idle", kind |-> "join", at |-> Nobody, via |-> {}, found |-> Nobody,
          answer |-> Nobody]

Done(r) == request[r].stage = "done"
At(r)   == request[r].at

(* Commands are queued as their call is made.                              *)
Sent(i, op, r) == [queue EXCEPT ![i] = Append(@, [op |-> op, by |-> r])]

MovedOn(r, via)    == [request EXCEPT ![r] = [Fresh EXCEPT   \* on its way to the owner found
                          !.stage = "moving", !.kind = request[r].kind, !.via = via,
                          !.at = request[r].found.url]]
Moved(r, stage)    == [request EXCEPT ![r].stage = stage]
Closed(r, reply)   == [Fresh EXCEPT !.stage = "done", !.via = request[r].via, !.answer = reply]
Answered(r, reply) == [request EXCEPT ![r] = Closed(r, reply)]

----------------------------------------------------------------------------
(* Which requests have a right to be served (history).                     *)

SoleCreator(i) == creators = {i}

(* The registration has been carried out.                                  *)
Listed(i) == entry = Self(i) /\ \A k \in 1..Len(queue[i]) : queue[i][k].op # "clear"

(* Asked of the instance that holds the meeting, or of any other once the  *)
(* meeting is listed.                                                      *)
Reachable(i) ==
    \E h \in Instances : SoleCreator(h) /\ record[h] = "live" /\ (h = i \/ Listed(h))

----------------------------------------------------------------------------
(* MeetingService.                                                         *)

Create(i) ==
    /\ i \in up /\ record[i] = "none" /\ creates < MaxCreates
    /\ record' = [record EXCEPT ![i] = "live"]
    /\ queue' = Sent(i, "set", Nobody)
    /\ creates' = creates + 1
    /\ creators' = creators \cup {i}
    /\ steady' = {}
    /\ UNCHANGED <<up, run, entry, request, faulty>>

(* end and delete, on the record `i` holds.                                *)
EndsAs(i, after) ==
    /\ record' = [record EXCEPT ![i] = after]
    /\ queue' = IF record[i] = "live" THEN Sent(i, "clear", Nobody) ELSE queue
    /\ steady' = {}

(* The host's endMeeting event, or the other party hanging up.             *)
EndBySocket(i) ==
    /\ i \in up /\ record[i] = "live"
    /\ EndsAs(i, "ended")
    /\ UNCHANGED <<up, run, entry, request, creates, creators, faulty>>

----------------------------------------------------------------------------
(* Requests.                                                               *)

(* A request or a join reaches an instance, which asks for the owner.      *)
Ask(r, i, kind) ==
    /\ i \in up /\ request[r].stage = "idle"
    /\ request' = [request EXCEPT ![r] = [Fresh EXCEPT !.stage = "asking", !.kind = kind, !.at = i]]
    /\ queue' = Sent(i, "get", r)
    /\ steady' = IF Reachable(i) THEN steady \cup {r} ELSE steady
    /\ UNCHANGED <<up, run, record, entry, creates, creators, faulty>>

(* Once nobody else is named, joinRoom looks for the meeting itself.       *)
JoinLocally(r) ==
    /\ request' = Answered(r, CASE record[At(r)] = "none"  -> "notFound"
                                [] record[At(r)] = "ended" -> "ended"
                                [] record[At(r)] = "live"  -> "served")
    /\ UNCHANGED <<up, run, record, entry, queue, creates, historyVars>>

MutRedirects(r) == Foreign(At(r), request[r].found) /\ record[At(r)] # "none"   \* looks here first
Redirects(r)    == Foreign(At(r), request[r].found)

(* A meeting held here that the directory does not know is claimed.        *)
MutClaims(r) == request[r].found = Nobody   \* whether held here or not
Claims(r)    == request[r].found = Nobody /\ record[At(r)] # "none"

(* The client opens a new connection at redirectUrl and joins again.       *)
JoinRedirected(r) ==
    /\ Redirects(r)
    /\ request' = MovedOn(r, {})
    /\ UNCHANGED <<up, run, record, entry, queue, creates, historyVars>>

JoinClaims(r) ==
    /\ ~Redirects(r) /\ Claims(r)
    /\ request' = Moved(r, "claiming")
    /\ queue' = Sent(At(r), "claim", r)
    /\ UNCHANGED <<up, run, record, entry, creates, historyVars>>

JoinContinues(r) ==
    /\ request[r].kind = "join"
    /\ \/ /\ request[r].stage = "found"
          /\ \/ JoinRedirected(r)
             \/ JoinClaims(r)
             \/ ~Redirects(r) /\ ~Claims(r) /\ JoinLocally(r)
       \/ request[r].stage = "claimed" /\ JoinLocally(r)

(* The forwarder passes X-API-Key on, and not the X-Secret-Key that        *)
(* ApiKeyGuard asks for as well.                                           *)
Authorized(r) == request[r].via = {}

Handle(r) ==
    LET i == At(r)
        kind == request[r].kind
    IN  IF ~Authorized(r) \/ kind = "read" \/ record[i] = "none"
        THEN /\ request' = Answered(r, IF ~Authorized(r) THEN "unauthorized"
                                       ELSE IF kind # "delete" /\ record[i] = "none" THEN "notFound"
                                       ELSE "served")
             /\ UNCHANGED <<record, queue, steady>>
        ELSE /\ request' = Answered(r, "served")
             /\ EndsAs(i, IF kind = "end" THEN "ended" ELSE "none")

(* The middleware, and the controller behind it.                           *)
RestContinues(r) ==
    /\ request[r].kind # "join" /\ request[r].stage = "found"
    /\ IF Foreign(At(r), request[r].found)
       THEN /\ request' = MovedOn(r, request[r].via \cup {At(r)})
            /\ UNCHANGED <<record, queue, steady>>
       ELSE Handle(r)
    /\ UNCHANGED <<up, run, entry, creates, creators, faulty>>

Continue(r) == JoinContinues(r) \/ RestContinues(r)

MutReached(r) == TRUE   \* takes every owner it reads of to be there
Reached(r)    == At(r) \in up

(* A forwarded request or a redirected client arrives: 502 when nobody is  *)
(* there.                                                                  *)
Arrive(r) ==
    /\ request[r].stage = "moving"
    /\ IF Reached(r)
       THEN request' = Moved(r, "asking") /\ queue' = Sent(At(r), "get", r)
       ELSE request' = Answered(r, "unreachable") /\ UNCHANGED queue
    /\ UNCHANGED <<up, run, record, entry, creates, historyVars>>

----------------------------------------------------------------------------
(* Redis and the processes.                                                *)

(* A request whose way back has crashed is lost, its last lookup is not.   *)
MutAwaited(c) == c.by # Nobody /\ ~Done(c.by) /\ c.op = "get"   \* drops a claim's reply
Awaited(c)    == c.by # Nobody /\ ~Done(c.by)

RedisRuns(i) ==
    /\ queue[i] # <<>>
    /\ LET c == Head(queue[i])
       IN  /\ entry' = CASE c.op \in {"set", "claim"} -> Self(i)
                         [] c.op = "clear" -> Nobody
                         [] c.op = "get" -> entry
           /\ request' = IF ~Awaited(c) THEN request
                         ELSE IF c.op = "claim" THEN Moved(c.by, "claimed")
                         ELSE [request EXCEPT ![c.by].stage = "found", ![c.by].found = entry]
    /\ queue' = [queue EXCEPT ![i] = Tail(@)]
    /\ UNCHANGED <<up, run, record, creates, historyVars>>

(* A failed write is logged; a failed lookup or claim is the request's     *)
(* error.                                                                  *)
RedisFails(i) ==
    /\ queue[i] # <<>>
    /\ LET c == Head(queue[i])
       IN  request' = IF Awaited(c) THEN Answered(c.by, "error") ELSE request
    /\ queue' = [queue EXCEPT ![i] = Tail(@)]
    /\ faulty' = TRUE
    /\ steady' = {}
    /\ UNCHANGED <<up, run, record, entry, creates, creators>>

(* OWNER_TTL_SECONDS after it was written.                                 *)
Expire ==
    /\ entry # Nobody
    /\ entry' = Nobody
    /\ faulty' = TRUE
    /\ steady' = {}
    /\ UNCHANGED <<up, run, record, queue, request, creates, creators>>

(* The repository goes with the process, and so do the requests it was     *)
(* working on or waiting for.                                              *)
Crash(i) ==
    /\ i \in up \cap Crashing
    /\ up' = up \ {i}
    /\ record' = [record EXCEPT ![i] = "none"]
    /\ queue' = [queue EXCEPT ![i] = <<>>]
    /\ request' = [r \in Requests |->
          IF request[r].stage \notin {"idle", "done"}
             /\ (i \in request[r].via \/ (At(r) = i /\ request[r].stage # "moving"))
          THEN Closed(r, "lost") ELSE request[r]]
    /\ faulty' = TRUE
    /\ steady' = {}
    /\ UNCHANGED <<run, entry, creates, creators>>

Restart(i) ==
    /\ i \notin up /\ run[i] < MaxRuns
    /\ up' = up \cup {i}
    /\ run' = [run EXCEPT ![i] = @ + 1]
    /\ UNCHANGED <<record, entry, queue, request, creates, historyVars>>

----------------------------------------------------------------------------
Init ==
    /\ up = Instances
    /\ run = [i \in Instances |-> 1]
    /\ record = [i \in Instances |-> "none"]
    /\ entry = Nobody
    /\ queue = [i \in Instances |-> <<>>]
    /\ request = [r \in Requests |-> Fresh]
    /\ creates = 0
    /\ creators = {}
    /\ faulty = FALSE
    /\ steady = {}

Next ==
    \/ \E i \in Instances : \/ Create(i) \/ EndBySocket(i) \/ RedisRuns(i) \/ RedisFails(i)
                            \/ Crash(i) \/ Restart(i)
    \/ \E r \in Requests : Continue(r) \/ Arrive(r)
    \/ \E r \in Requests, i \in Instances : \E kind \in Asks[r] : Ask(r, i, kind)
    \/ Expire

Spec == Init /\ [][Next]_vars

(* Node and Redis go on: commands are answered or rejected, replies and    *)
(* calls between instances arrive.                                         *)
ProgressSpec ==
    /\ Spec
    /\ \A i \in Instances : WF_vars(RedisRuns(i) \/ RedisFails(i))
    /\ \A r \in Requests : WF_vars(Continue(r)) /\ WF_vars(Arrive(r))

----------------------------------------------------------------------------
(* Types; a request in work is at an instance that runs.                   *)
TypeOK ==
    /\ up \subseteq Instances
    /\ run \in [Instances -> 1..MaxRuns]
    /\ record \in [Instances -> {"none", "live", "ended"}]
    /\ entry \in Owners \cup {Nobody}
    /\ queue \in [Instances -> Seq(Command)]
    /\ request \in [Requests ->
          [stage : {"idle", "asking", "found", "claiming", "claimed", "moving", "done"},
           kind : Kinds, at : Instances \cup {Nobody}, via : SUBSET Instances,
           found : Owners \cup {Nobody}, answer : Answers \cup {Nobody}]]
    /\ creates \in 0..MaxCreates
    /\ creators \subseteq Instances
    /\ faulty \in BOOLEAN
    /\ steady \subseteq Requests
    /\ \A r \in Requests : request[r].stage \in {"asking", "found", "claiming", "claimed"}
                              => At(r) \in up

(* The last write `i` has queued registers it, or none is queued and the   *)
(* entry is its own.                                                       *)
Writes(i) == {k \in 1..Len(queue[i]) : queue[i][k].op # "get"}
SettlesOn(i) ==
    IF Writes(i) = {} THEN entry = Self(i)
    ELSE \E k \in Writes(i) : /\ queue[i][k].op \in {"set", "claim"}
                              /\ \A l \in Writes(i) : l <= k

(* While nothing fails and the id is used on one instance only, a live     *)
(* meeting is in the directory or about to be, though nobody awaits the    *)
(* writes, whoever looks it up meanwhile, and however often it is ended,   *)
(* deleted and created again.                                              *)
LiveMeetingIsListed ==
    \A i \in Instances : (SoleCreator(i) /\ record[i] = "live" /\ ~faulty) => SettlesOn(i)

(* A join that reaches the holder, or any instance once the meeting is     *)
(* listed, gets in as long as the meeting lives and nothing fails, and a   *)
(* REST request that reaches the holder is served by it, though both act   *)
(* on an owner that was read before.  Requests that had to be forwarded    *)
(* are those of ForwardedAreServed.                                        *)
LiveMeetingIsFound ==
    \A r \in steady : Done(r) /\ Authorized(r) => request[r].answer = "served"

(* A REST request that another instance forwards to the holder of a live,  *)
(* listed meeting is served like one that reached the holder directly.     *)
ForwardedAreServed ==
    \A r \in steady : Done(r) /\ request[r].via # {} => request[r].answer = "served"

(* A request that waits for Redis has its command queued where it stands,  *)
(* through every crash, restart and failure: no reply it waits for is lost *)
(* without the request.                                                    *)
NoRequestIsForgotten ==
    \A r \in Requests : request[r].stage \in {"asking", "claiming"} =>
        \E k \in 1..Len(queue[At(r)]) : queue[At(r)][k].by = r

(* A request is forwarded, or a client redirected.                         *)
Hops(r) == request[r].stage # "moving" /\ request'[r].stage = "moving"

(* With fixed ids a request for a meeting that one instance created hops   *)
(* from elsewhere to that instance, and so at most once, however often the *)
(* meeting ends, the entry expires and the instances restart meanwhile.    *)
HopsLeadHome ==
    [][\A r \in Requests, h \in Instances :
          FixedIds /\ SoleCreator(h) /\ Hops(r) => At(r) # h /\ request'[r].at = h]_vars

(* Every request and every join is answered: nothing is passed around for  *)
(* ever, whatever crashes, expires or is created twice.                    *)
RequestsAreAnswered == \A r \in Requests : request[r].stage # "idle" ~> Done(r)
=============================================================================
