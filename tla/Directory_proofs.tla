-------------------------- MODULE Directory_proofs --------------------------
(***************************************************************************)
(* Proofs about Directory, for any instances, requests and bounds.         *)
(***************************************************************************)
EXTENDS Directory, TLAPS

(* SettlesOn, of a queue by itself.                                        *)
WritesIn(q) == {k \in 1..Len(q) : q[k].op # "get"}
Registers(q) ==
    \E k \in WritesIn(q) : q[k].op \in {"set", "claim"} /\ \A l \in WritesIn(q) : l <= k

(* A lookup queued after the writes changes nothing of them.               *)
LEMMA LookupQueued ==
    ASSUME NEW q \in Seq(Command), NEW c \in Command, c.op = "get"
    PROVE  /\ WritesIn(Append(q, c)) = WritesIn(q)
           /\ Registers(Append(q, c)) <=> Registers(q)
  <1> DEFINE p == Append(q, c)
  <1>1. /\ Len(p) = Len(q) + 1 /\ p[Len(q) + 1] = c /\ Len(q) \in Nat
        /\ \A k \in 1..Len(q) : p[k] = q[k]
    OBVIOUS
  <1> HIDE DEF p
  <1>2. WritesIn(p) = WritesIn(q)
    BY <1>1 DEF WritesIn
  <1>3. \A k \in WritesIn(q) : p[k] = q[k]
    BY <1>1 DEF WritesIn
  <1>4. Registers(p) <=> Registers(q)
    BY <1>2, <1>3 DEF Registers
  <1> QED BY <1>2, <1>4 DEF p

(* A registration queued last settles the entry.                           *)
LEMMA RegistrationQueued ==
    ASSUME NEW q \in Seq(Command), NEW c \in Command, c.op \in {"set", "claim"}
    PROVE  WritesIn(Append(q, c)) # {} /\ Registers(Append(q, c))
  <1> DEFINE p == Append(q, c)
  <1>1. Len(p) = Len(q) + 1 /\ p[Len(q) + 1] = c /\ Len(q) \in Nat
    OBVIOUS
  <1> HIDE DEF p
  <1>2. Len(p) \in WritesIn(p) /\ p[Len(p)].op \in {"set", "claim"}
    BY <1>1 DEF WritesIn
  <1>3. \A l \in WritesIn(p) : l <= Len(p)
    BY DEF WritesIn
  <1> QED BY <1>2, <1>3 DEF Registers, p

(* What is left to write once the head of the queue has run.               *)
LEMMA HeadRuns ==
    ASSUME NEW q \in Seq(Command), q # <<>>
    PROVE  /\ WritesIn(q) = {} => Head(q).op = "get" /\ WritesIn(Tail(q)) = {}
           /\ Registers(q) /\ WritesIn(Tail(q)) # {} => Registers(Tail(q))
           /\ Registers(q) /\ WritesIn(Tail(q)) = {} => Head(q).op \in {"set", "claim"}
  <1> DEFINE t == Tail(q)
  <1>1. /\ t \in Seq(Command) /\ Len(t) = Len(q) - 1 /\ Len(q) \in Nat /\ Len(q) >= 1
        /\ \A k \in 1..Len(t) : t[k] = q[k + 1]
        /\ Head(q) = q[1]
    OBVIOUS
  <1> HIDE DEF t
  <1>2. \A k \in WritesIn(t) : k \in Nat /\ k + 1 \in WritesIn(q) /\ t[k] = q[k + 1]
    BY <1>1 DEF WritesIn
  <1>3. \A k \in WritesIn(q) : k \in Nat /\ (k = 1 \/ (k - 1 \in WritesIn(t) /\ t[k - 1] = q[k]))
    <2> SUFFICES ASSUME NEW k \in WritesIn(q), k # 1
                 PROVE  k \in Nat /\ k - 1 \in WritesIn(t) /\ t[k - 1] = q[k]
      BY DEF WritesIn
    <2>1. k \in Nat /\ k - 1 \in 1..Len(t) /\ (k - 1) + 1 = k
      BY <1>1 DEF WritesIn
    <2>2. t[k - 1] = q[k]
      BY <1>1, <2>1
    <2> QED BY <2>1, <2>2 DEF WritesIn
  <1>4. ASSUME Registers(q), WritesIn(t) # {} PROVE Registers(t)
    <2>1. PICK k \in WritesIn(q) : q[k].op \in {"set", "claim"} /\ \A l \in WritesIn(q) : l <= k
      BY <1>4 DEF Registers
    <2>2. PICK l \in WritesIn(t) : TRUE
      BY <1>4
    <2>3. l + 1 <= k /\ l >= 1 /\ l \in Nat /\ k \in Nat
      BY <1>2, <1>3, <2>1, <2>2 DEF WritesIn
    <2>4. k - 1 \in WritesIn(t) /\ t[k - 1] = q[k]
      BY <1>3, <2>1, <2>3
    <2>5. \A j \in WritesIn(t) : j <= k - 1
      BY <1>2, <2>1, <2>3
    <2> QED BY <2>1, <2>4, <2>5 DEF Registers
  <1>5. ASSUME Registers(q), WritesIn(t) = {} PROVE Head(q).op \in {"set", "claim"}
    BY <1>1, <1>3, <1>5 DEF Registers
  <1>6. ASSUME WritesIn(q) = {} PROVE Head(q).op = "get" /\ WritesIn(t) = {}
    <2>1. 1 \in 1..Len(q)
      BY <1>1
    <2> QED BY <1>1, <1>2, <1>6, <2>1 DEF WritesIn
  <1> QED BY <1>4, <1>5, <1>6 DEF t

(* The same, of the queue of one instance.                                 *)
LEMMA Unaffected ==
    ASSUME NEW j, queue'[j] = queue[j], entry' = entry, Self(j)' = Self(j)
    PROVE  Writes(j)' = Writes(j) /\ (SettlesOn(j)' <=> SettlesOn(j))
  <1>1. Writes(j)' = Writes(j)
    BY DEF Writes
  <1> QED BY <1>1 DEF SettlesOn

LEMMA AfterLookup ==
    ASSUME NEW j, NEW c \in Command, c.op = "get", queue[j] \in Seq(Command),
           queue'[j] = Append(queue[j], c), entry' = entry, Self(j)' = Self(j)
    PROVE  Writes(j)' = Writes(j) /\ (SettlesOn(j)' <=> SettlesOn(j))
  <1> DEFINE q == queue[j]
             p == queue'[j]
  <1>1. WritesIn(p) = WritesIn(q) /\ (Registers(p) <=> Registers(q))
    BY LookupQueued
  <1>2. Writes(j) = WritesIn(q) /\ Writes(j)' = WritesIn(p)
    BY DEF Writes, WritesIn
  <1>3. /\ SettlesOn(j) <=> IF WritesIn(q) = {} THEN entry = Self(j) ELSE Registers(q)
        /\ SettlesOn(j)' <=> IF WritesIn(p) = {} THEN entry' = Self(j)' ELSE Registers(p)
    BY DEF SettlesOn, Writes, WritesIn, Registers
  <1> HIDE DEF p, q
  <1> QED BY <1>1, <1>2, <1>3

LEMMA AfterRegistration ==
    ASSUME NEW j, NEW c \in Command, c.op \in {"set", "claim"}, queue[j] \in Seq(Command),
           queue'[j] = Append(queue[j], c)
    PROVE  SettlesOn(j)'
  <1> DEFINE p == queue'[j]
  <1>1. WritesIn(p) # {} /\ Registers(p)
    BY RegistrationQueued
  <1>2. SettlesOn(j)' <=> IF WritesIn(p) = {} THEN entry' = Self(j)' ELSE Registers(p)
    BY DEF SettlesOn, Writes, WritesIn, Registers
  <1> HIDE DEF p
  <1> QED BY <1>1, <1>2

LEMMA AfterHead ==
    ASSUME NEW j, queue[j] \in Seq(Command), queue[j] # <<>>, queue'[j] = Tail(queue[j]),
           Self(j)' = Self(j),
           Head(queue[j]).op = "get" => entry' = entry,
           Head(queue[j]).op \in {"set", "claim"} => entry' = Self(j)
    PROVE  /\ SettlesOn(j) => SettlesOn(j)'
           /\ Writes(j) = {} => Writes(j)' = {} /\ Head(queue[j]).op = "get"
  <1> DEFINE q == queue[j]
             p == queue'[j]
  <1>1. /\ WritesIn(q) = {} => Head(q).op = "get" /\ WritesIn(p) = {}
        /\ Registers(q) /\ WritesIn(p) # {} => Registers(p)
        /\ Registers(q) /\ WritesIn(p) = {} => Head(q).op \in {"set", "claim"}
    <2>1. p = Tail(q) /\ q \in Seq(Command) /\ q # <<>>
      OBVIOUS
    <2> HIDE DEF p, q
    <2> QED BY <2>1, HeadRuns
  <1>2. Writes(j) = WritesIn(q) /\ Writes(j)' = WritesIn(p)
    BY DEF Writes, WritesIn
  <1>3. /\ SettlesOn(j) <=> IF WritesIn(q) = {} THEN entry = Self(j) ELSE Registers(q)
        /\ SettlesOn(j)' <=> IF WritesIn(p) = {} THEN entry' = Self(j)' ELSE Registers(p)
    BY DEF SettlesOn, Writes, WritesIn, Registers
  <1>4. /\ Head(q).op = "get" => entry' = entry
        /\ Head(q).op \in {"set", "claim"} => entry' = Self(j)
        /\ Self(j)' = Self(j)
    OBVIOUS
  <1>5. Head(queue[j]).op = Head(q).op
    OBVIOUS
  <1> HIDE DEF p, q
  <1> QED BY <1>1, <1>2, <1>3, <1>4, <1>5

----------------------------------------------------------------------------
(* Until something fails nobody but a creator has anything to write, and   *)
(* every process still has the name it registered under.                   *)
Quiet ==
    ~faulty => /\ up = Instances
               /\ \A i \in Instances \ creators : record[i] = "none" /\ Writes(i) = {}

ListingInv ==
    /\ record \in [Instances -> {"none", "live", "ended"}]
    /\ queue \in [Instances -> Seq(Command)]
    /\ Quiet
    /\ LiveMeetingIsListed

USE DEF SoleCreator

LEMMA InitListing == Init => ListingInv
  <1> SUFFICES ASSUME Init PROVE ListingInv
    OBVIOUS
  <1>1. queue \in [Instances -> Seq(Command)]
    BY DEF Init
  <1>2. \A i \in Instances : Writes(i) = {}
    <2> TAKE i \in Instances
    <2>1. queue[i] = <<>>
      BY DEF Init
    <2>2. 1..Len(queue[i]) = {}
      BY <2>1
    <2> QED BY <2>2 DEF Writes
  <1> QED BY <1>1, <1>2 DEF Init, ListingInv, Quiet, LiveMeetingIsListed

(* A command is queued: what else the step does depends on the command.    *)
LEMMA CommandSent ==
    ASSUME ListingInv, NEW i, NEW c \in Command,
           queue' = [queue EXCEPT ![i] = Append(@, c)],
           UNCHANGED <<up, run, entry, faulty>>,
           record' \in [Instances -> {"none", "live", "ended"}],
           creators \subseteq creators',
           \A j \in Instances : j # i => record'[j] = record[j],
           \/ c.op = "get" /\ record' = record /\ creators' = creators
           \/ c.op = "claim" /\ record[i] # "none" /\ record' = record /\ creators' = creators
           \/ c.op = "set" /\ creators' = creators \cup {i}
           \/ c.op = "clear" /\ record[i] = "live" /\ record'[i] # "live" /\ creators' = creators
    PROVE  ListingInv'
  <1>1. \A j \in Instances : queue[j] \in Seq(Command)
                            /\ queue'[j] = IF j = i THEN Append(queue[j], c) ELSE queue[j]
    BY DEF ListingInv
  <1>2. queue' \in [Instances -> Seq(Command)]
    <2>1. queue' = [j \in Instances |-> IF j = i THEN Append(queue[j], c) ELSE queue[j]]
      BY DEF ListingInv
    <2>2. ASSUME NEW q \in Seq(Command) PROVE Append(q, c) \in Seq(Command)
      OBVIOUS
    <2> QED BY <1>1, <2>1, <2>2
  <1>3. \A j : Self(j)' = Self(j)
    BY DEF Self
  <1>4. \A j \in Instances : j # i \/ c.op = "get"
                                => Writes(j)' = Writes(j) /\ (SettlesOn(j)' <=> SettlesOn(j))
    BY <1>1, <1>3, Unaffected, AfterLookup
  <1>5. ASSUME i \in Instances, c.op \in {"set", "claim"} PROVE SettlesOn(i)'
    BY <1>1, <1>5, AfterRegistration
  <1>6. Quiet'
    <2> SUFFICES ASSUME ~faulty, NEW j \in Instances \ creators'
                 PROVE  record'[j] = "none" /\ Writes(j)' = {}
      BY DEF ListingInv, Quiet
    <2>1. j \notin creators /\ record[j] = "none" /\ Writes(j) = {}
      BY DEF ListingInv, Quiet
    <2>2. j # i \/ c.op = "get"
      BY <2>1
    <2> QED BY <1>4, <2>1, <2>2
  <1>7. LiveMeetingIsListed'
    <2> SUFFICES ASSUME NEW j \in Instances, creators' = {j}, record'[j] = "live", ~faulty
                 PROVE  SettlesOn(j)'
      BY DEF LiveMeetingIsListed
    <2>1. CASE j = i
      <3>1. c.op \in {"set", "claim"} \/ (c.op = "get" /\ record[j] = "live" /\ creators = {j})
        BY <2>1
      <3> QED BY <1>4, <1>5, <2>1, <3>1 DEF ListingInv, LiveMeetingIsListed
    <2>2. CASE j # i
      <3>1. record[j] = "live" /\ j \in creators
        BY <2>2 DEF ListingInv, Quiet
      <3>2. creators = {j}
        BY <3>1
      <3> QED BY <1>4, <2>2, <3>1, <3>2 DEF ListingInv, LiveMeetingIsListed
    <2> QED BY <2>1, <2>2
  <1> QED BY <1>2, <1>6, <1>7 DEF ListingInv

(* Steps that touch neither records nor commands.                          *)
LEMMA NothingSent ==
    ASSUME ListingInv, UNCHANGED <<up, run, record, entry, queue, creators, faulty>>
    PROVE  ListingInv'
  <1>1. \A j : Writes(j)' = Writes(j) /\ (SettlesOn(j)' <=> SettlesOn(j))
    BY Unaffected DEF Self
  <1> QED BY <1>1 DEF ListingInv, Quiet, LiveMeetingIsListed

LEMMA MeetingEnds ==
    ASSUME ListingInv, NEW i, NEW after \in {"ended", "none"}, record[i] # "none",
           EndsAs(i, after), UNCHANGED <<up, run, entry, creators, faulty>>
    PROVE  ListingInv'
  <1> DEFINE c == [op |-> "clear", by |-> Nobody]
  <1>1. /\ record' = [record EXCEPT ![i] = after]
        /\ record[i] = "live" => queue' = [queue EXCEPT ![i] = Append(@, c)]
        /\ record[i] # "live" => queue' = queue
    BY DEF EndsAs, Sent
  <1>2. /\ record' \in [Instances -> {"none", "live", "ended"}]
        /\ \A j \in Instances : record'[j] = IF j = i THEN after ELSE record[j]
    BY <1>1 DEF ListingInv
  <1>3. CASE record[i] = "live" /\ i \in Instances
    <2>1. c \in Command /\ c.op = "clear"
      BY DEF Command
    <2>2. queue' = [queue EXCEPT ![i] = Append(@, c)] /\ record'[i] # "live"
      BY <1>1, <1>2, <1>3
    <2> HIDE DEF c
    <2> QED BY <1>2, <1>3, <2>1, <2>2, CommandSent
  <1>4. CASE i \notin Instances
    <2>1. queue' = queue /\ record' = record
      BY <1>1, <1>4 DEF ListingInv
    <2> QED BY <2>1, NothingSent
  <1>5. CASE record[i] # "live" /\ i \in Instances
    <2>1. queue' = queue
      BY <1>1, <1>5
    <2>2. \A j : Writes(j)' = Writes(j) /\ (SettlesOn(j)' <=> SettlesOn(j))
      BY <2>1, Unaffected DEF Self
    <2>3. Quiet'
      BY <1>2, <2>2 DEF ListingInv, Quiet
    <2>4. LiveMeetingIsListed'
      BY <1>2, <2>2 DEF ListingInv, LiveMeetingIsListed
    <2> QED BY <1>2, <2>1, <2>3, <2>4 DEF ListingInv
  <1> QED BY <1>3, <1>4, <1>5

LEMMA LookupSent ==
    ASSUME ListingInv, NEW i, NEW r \in Requests, queue' = Sent(i, "get", r),
           UNCHANGED <<up, run, record, entry, creators, faulty>>
    PROVE  ListingInv'
  <1> DEFINE c == [op |-> "get", by |-> r]
  <1>1. c \in Command /\ c.op = "get"
    BY DEF Command
  <1>2. queue' = [queue EXCEPT ![i] = Append(@, c)]
    BY DEF Sent
  <1> HIDE DEF c
  <1> QED BY <1>1, <1>2, CommandSent DEF ListingInv

LEMMA CreateStep ==
    ASSUME ListingInv, NEW i \in Instances, Create(i)
    PROVE  ListingInv'
  <1> DEFINE c == [op |-> "set", by |-> Nobody]
  <1>1. c \in Command /\ c.op = "set"
    BY DEF Command
  <1>2. /\ queue' = [queue EXCEPT ![i] = Append(@, c)] /\ creators' = creators \cup {i}
        /\ record' = [record EXCEPT ![i] = "live"]
        /\ UNCHANGED <<up, run, entry, faulty>>
    BY DEF Create, Sent
  <1>3. /\ record' \in [Instances -> {"none", "live", "ended"}]
        /\ \A j \in Instances : j # i => record'[j] = record[j]
    BY <1>2 DEF ListingInv
  <1> HIDE DEF c
  <1> QED BY <1>1, <1>2, <1>3, CommandSent

LEMMA ContinueStep ==
    ASSUME ListingInv, NEW r \in Requests, Continue(r)
    PROVE  ListingInv'
  <1>1. CASE JoinRedirected(r) \/ JoinLocally(r)
    BY <1>1, NothingSent DEF JoinRedirected, JoinLocally, historyVars
  <1>2. CASE JoinClaims(r)
    <2> DEFINE c == [op |-> "claim", by |-> r]
    <2>1. c \in Command /\ c.op = "claim"
      BY DEF Command
    <2>2. /\ queue' = [queue EXCEPT ![At(r)] = Append(@, c)] /\ record[At(r)] # "none"
          /\ UNCHANGED <<up, run, record, entry, creators, faulty>>
      BY <1>2 DEF JoinClaims, Claims, Sent, historyVars
    <2>3. record' \in [Instances -> {"none", "live", "ended"}]
      BY <2>2 DEF ListingInv
    <2> HIDE DEF c
    <2> QED BY <2>1, <2>2, <2>3, CommandSent
  <1>3. CASE RestContinues(r)
    <2>1. UNCHANGED <<up, run, entry, creates, creators, faulty>>
      BY <1>3 DEF RestContinues
    <2>2. CASE UNCHANGED <<record, queue, steady>>
      BY <2>1, <2>2, NothingSent
    <2>3. CASE Handle(r) /\ ~UNCHANGED <<record, queue, steady>>
      <3>1. record[At(r)] # "none"
            /\ EndsAs(At(r), IF request[r].kind = "end" THEN "ended" ELSE "none")
        BY <2>3 DEF Handle
      <3> QED BY <2>1, <3>1, MeetingEnds
    <2> QED BY <1>3, <2>2, <2>3 DEF RestContinues
  <1> QED BY <1>1, <1>2, <1>3 DEF Continue, JoinContinues

LEMMA RedisRunsStep ==
    ASSUME ListingInv, NEW i \in Instances, RedisRuns(i)
    PROVE  ListingInv'
  <1>1. /\ queue[i] # <<>> /\ queue' = [queue EXCEPT ![i] = Tail(@)]
        /\ UNCHANGED <<up, run, record, creators, faulty>>
        /\ Head(queue[i]).op \in {"set", "claim"} => entry' = Self(i)
        /\ Head(queue[i]).op = "get" => entry' = entry
    BY DEF RedisRuns, historyVars
  <1>2. /\ queue[i] \in Seq(Command) /\ queue'[i] = Tail(queue[i])
        /\ \A j \in Instances : j # i => queue'[j] = queue[j]
        /\ queue' \in [Instances -> Seq(Command)]
    BY <1>1 DEF ListingInv
  <1>3. \A j : Self(j)' = Self(j)
    BY <1>1 DEF Self
  <1>4. /\ SettlesOn(i) => SettlesOn(i)'
        /\ Writes(i) = {} => Writes(i)' = {} /\ Head(queue[i]).op = "get"
    BY <1>1, <1>2, <1>3, AfterHead
  <1>5. \A j \in Instances : j # i => Writes(j)' = Writes(j)
    BY <1>2 DEF Writes
  <1>6. \A j \in Instances : j # i /\ entry' = entry => (SettlesOn(j)' <=> SettlesOn(j))
    BY <1>2, <1>3, Unaffected
  <1>7. Quiet'
    BY <1>1, <1>4, <1>5 DEF ListingInv, Quiet
  <1>8. LiveMeetingIsListed'
    <2> SUFFICES ASSUME NEW j \in Instances, creators = {j}, record[j] = "live", ~faulty
                 PROVE  SettlesOn(j)'
      BY <1>1 DEF LiveMeetingIsListed
    <2>1. SettlesOn(j)
      BY DEF ListingInv, LiveMeetingIsListed
    <2>2. ASSUME j # i PROVE entry' = entry
      BY <1>1, <1>4, <2>2 DEF ListingInv, Quiet
    <2> QED BY <1>4, <1>6, <2>1, <2>2
  <1> QED BY <1>1, <1>2, <1>7, <1>8 DEF ListingInv

LEMMA FaultStep ==
    ASSUME ListingInv, faulty', record' \in [Instances -> {"none", "live", "ended"}],
           queue' \in [Instances -> Seq(Command)]
    PROVE  ListingInv'
  BY DEF ListingInv, Quiet, LiveMeetingIsListed

LEMMA NextListing == ListingInv /\ [Next]_vars => ListingInv'
  <1> SUFFICES ASSUME ListingInv, [Next]_vars PROVE ListingInv'
    OBVIOUS
  <1>1. ASSUME NEW i \in Instances, Create(i) PROVE ListingInv'
    BY <1>1, CreateStep
  <1>2. ASSUME NEW i \in Instances, EndBySocket(i) PROVE ListingInv'
    BY <1>2, MeetingEnds DEF EndBySocket
  <1>3. ASSUME NEW i \in Instances, RedisRuns(i) PROVE ListingInv'
    BY <1>3, RedisRunsStep
  <1>4. ASSUME NEW i \in Instances, RedisFails(i) PROVE ListingInv'
    <2>1. queue' = [queue EXCEPT ![i] = Tail(@)] /\ queue[i] # <<>> /\ record' = record /\ faulty'
      BY <1>4 DEF RedisFails
    <2>2. queue[i] \in Seq(Command) /\ Tail(queue[i]) \in Seq(Command)
      BY <2>1 DEF ListingInv
    <2> QED BY <2>1, <2>2, FaultStep DEF ListingInv
  <1>5. ASSUME NEW i \in Instances, Crash(i) PROVE ListingInv'
    BY <1>5, FaultStep DEF Crash, ListingInv
  <1>6. ASSUME NEW i \in Instances, Restart(i) PROVE ListingInv'
    <2>1. faulty /\ UNCHANGED <<record, queue, faulty>>
      BY <1>6 DEF Restart, ListingInv, Quiet, historyVars
    <2> QED BY <2>1, FaultStep DEF ListingInv
  <1>7. ASSUME NEW r \in Requests, Continue(r) PROVE ListingInv'
    BY <1>7, ContinueStep
  <1>8. ASSUME NEW r \in Requests, Arrive(r) PROVE ListingInv'
    <2>1. UNCHANGED <<up, run, record, entry, creators, faulty>>
      BY <1>8 DEF Arrive, historyVars
    <2>2. queue' = Sent(At(r), "get", r) \/ queue' = queue
      BY <1>8 DEF Arrive
    <2> QED BY <2>1, <2>2, LookupSent, NothingSent
  <1>9. ASSUME NEW r \in Requests, NEW i \in Instances, NEW kind, Ask(r, i, kind) PROVE ListingInv'
    BY <1>9, LookupSent DEF Ask
  <1>10. CASE Expire
    BY <1>10, FaultStep DEF Expire, ListingInv
  <1>11. CASE UNCHANGED vars
    BY <1>11, NothingSent DEF vars, historyVars
  <1> QED BY <1>1, <1>2, <1>3, <1>4, <1>5, <1>6, <1>7, <1>8, <1>9, <1>10, <1>11 DEF Next

(* However many instances, requests and uses of the id there are, a live   *)
(* meeting that only one instance ever created is in the directory or on   *)
(* its way there, until a write fails, an entry expires or a process       *)
(* crashes.                                                                *)
THEOREM LiveIsListed == Spec => []LiveMeetingIsListed
  <1>1. ListingInv => LiveMeetingIsListed
    BY DEF ListingInv
  <1> QED BY <1>1, InitListing, NextListing, PTL DEF Spec
----------------------------------------------------------------------------
(* A request's course through the queues: TypeOK and LiveMeetingIsFound.   *)

Stands == [stage : {"idle", "asking", "found", "claiming", "claimed", "moving", "done"},
           kind : Kinds, at : Instances \cup {Nobody}, via : SUBSET Instances,
           found : Owners \cup {Nobody}, answer : Answers \cup {Nobody}]

WaitsFor(op) == IF op = "get" THEN "asking" ELSE "claiming"

(* Instance k has at most one command queued for a request that stands     *)
(* as x says, the one the request waits for there.                         *)
Fine(q, k, x, r) ==
    \A n \in 1..Len(q) : q[n].by = r /\ x.stage # "done" =>
        /\ x.at = k /\ x.stage = WaitsFor(q[n].op)
        /\ \A m \in 1..Len(q) : m # n => q[m].by # r

(* Lookups and claims are made for a request, the other writes for none.   *)
NamedIn(q) == \A n \in 1..Len(q) : q[n].by # Nobody <=> q[n].op \in {"get", "claim"}

ClearIn(q) == \E n \in 1..Len(q) : q[n].op = "clear"

LEMMA Appended ==
    ASSUME NEW q \in Seq(Command), NEW c \in Command
    PROVE  /\ Append(q, c) \in Seq(Command)
           /\ \A n \in 1..Len(Append(q, c)) :
                 \/ n \in 1..Len(q) /\ Append(q, c)[n] = q[n]
                 \/ n = Len(q) + 1 /\ Append(q, c)[n] = c
           /\ Len(q) \in Nat /\ Len(Append(q, c)) = Len(q) + 1
           /\ NamedIn(q) /\ (c.by # Nobody <=> c.op \in {"get", "claim"}) => NamedIn(Append(q, c))
           /\ ~ClearIn(q) /\ c.op # "clear" => ~ClearIn(Append(q, c))
  <1> DEFINE p == Append(q, c)
  <1>1. /\ Len(p) = Len(q) + 1 /\ p[Len(q) + 1] = c /\ Len(q) \in Nat
        /\ \A n \in 1..Len(q) : p[n] = q[n]
        /\ p \in Seq(Command)
    OBVIOUS
  <1> HIDE DEF p
  <1>2. \A n \in 1..Len(p) : \/ n \in 1..Len(q) /\ p[n] = q[n]
                             \/ n = Len(q) + 1 /\ p[n] = c
    BY <1>1
  <1>3. NamedIn(q) /\ (c.by # Nobody <=> c.op \in {"get", "claim"}) => NamedIn(p)
    BY <1>2 DEF NamedIn
  <1>4. ~ClearIn(q) /\ c.op # "clear" => ~ClearIn(p)
    BY <1>2 DEF ClearIn
  <1> QED BY <1>1, <1>2, <1>3, <1>4 DEF p

LEMMA FineAppend ==
    ASSUME NEW q \in Seq(Command), NEW c \in Command, NEW k, NEW x, NEW r,
           Fine(q, k, x, r), c.by # r
    PROVE  Fine(Append(q, c), k, x, r)
  <1> DEFINE p == Append(q, c)
  <1>1. \A n \in 1..Len(p) : (n \in 1..Len(q) /\ p[n] = q[n]) \/ p[n] = c
    BY Appended
  <1> HIDE DEF p
  <1>2. \A n \in 1..Len(p) : p[n].by = r => n \in 1..Len(q) /\ p[n] = q[n]
    BY <1>1
  <1>3. Fine(p, k, x, r)
    BY <1>2 DEF Fine
  <1> QED BY <1>3 DEF p

(* A request that waits for nothing queues a command.                      *)
LEMMA FineNew ==
    ASSUME NEW q \in Seq(Command), NEW c \in Command, NEW k, NEW x, NEW y, NEW r,
           Fine(q, k, x, r), x.stage \notin {"asking", "claiming", "done"},
           y.at = k, y.stage = WaitsFor(c.op)
    PROVE  Fine(Append(q, c), k, y, r)
  <1> DEFINE p == Append(q, c)
  <1>1. \A n \in 1..Len(p) : (n \in 1..Len(q) /\ p[n] = q[n]) \/ (n = Len(q) + 1 /\ p[n] = c)
    BY Appended
  <1> HIDE DEF p
  <1>2. \A n \in 1..Len(q) : q[n].by # r
    BY DEF Fine, WaitsFor
  <1>3. \A n \in 1..Len(p) : p[n].by = r => n = Len(q) + 1 /\ p[n] = c
    BY <1>1, <1>2
  <1>4. Fine(p, k, y, r)
    BY <1>3 DEF Fine
  <1> QED BY <1>4 DEF p

LEMMA FineElsewhere ==
    ASSUME NEW q, NEW k, NEW x, NEW y, NEW r, Fine(q, k, x, r), x.stage # "done",
           x.stage \notin {"asking", "claiming"} \/ x.at # k
    PROVE  Fine(q, k, y, r)
  <1>1. \A n \in 1..Len(q) : q[n].by # r
    BY DEF Fine, WaitsFor
  <1> QED BY <1>1 DEF Fine

LEMMA FineTail ==
    ASSUME NEW q \in Seq(Command), q # <<>>, NEW k, NEW x, NEW r, Fine(q, k, x, r)
    PROVE  /\ Fine(Tail(q), k, x, r)
           /\ Head(q).by = r /\ x.stage # "done" =>
                 /\ x.at = k /\ x.stage = WaitsFor(Head(q).op)
                 /\ \A y : Fine(Tail(q), k, y, r)
  <1> DEFINE t == Tail(q)
  <1>1. /\ Len(t) = Len(q) - 1 /\ Len(q) \in Nat /\ Len(q) >= 1
        /\ \A n \in 1..Len(t) : t[n] = q[n + 1]
        /\ Head(q) = q[1]
    OBVIOUS
  <1> HIDE DEF t
  <1>2. \A n \in 1..Len(t) : n \in Nat /\ n + 1 \in 1..Len(q) /\ n + 1 # 1 /\ t[n] = q[n + 1]
    BY <1>1
  <1>3. 1 \in 1..Len(q)
    BY <1>1
  <1>4. Fine(t, k, x, r)
    <2> SUFFICES ASSUME NEW n \in 1..Len(t), t[n].by = r, x.stage # "done"
                 PROVE  /\ x.at = k /\ x.stage = WaitsFor(t[n].op)
                        /\ \A m \in 1..Len(t) : m # n => t[m].by # r
      BY DEF Fine
    <2>1. /\ x.at = k /\ x.stage = WaitsFor(q[n + 1].op)
          /\ \A m \in 1..Len(q) : m # n + 1 => q[m].by # r
      BY <1>2 DEF Fine
    <2>2. \A m \in 1..Len(t) : m # n => m + 1 # n + 1
      BY <1>2
    <2> QED BY <1>2, <2>1, <2>2
  <1>5. ASSUME Head(q).by = r, x.stage # "done"
        PROVE  /\ x.at = k /\ x.stage = WaitsFor(Head(q).op)
               /\ \A y : Fine(t, k, y, r)
    <2>1. /\ x.at = k /\ x.stage = WaitsFor(q[1].op)
          /\ \A m \in 1..Len(q) : m # 1 => q[m].by # r
      BY <1>1, <1>3, <1>5 DEF Fine
    <2>2. \A n \in 1..Len(t) : t[n].by # r
      BY <1>2, <2>1
    <2>3. \A y : Fine(t, k, y, r)
      BY <2>2 DEF Fine
    <2> QED BY <1>1, <2>1, <2>3
  <1> QED BY <1>4, <1>5 DEF t

LEMMA TailKeeps ==
    ASSUME NEW q \in Seq(Command), q # <<>>
    PROVE  /\ Tail(q) \in Seq(Command) /\ Head(q) \in Command
           /\ NamedIn(q) => NamedIn(Tail(q)) /\ (Head(q).by # Nobody <=> Head(q).op \in {"get", "claim"})
           /\ ~ClearIn(q) => ~ClearIn(Tail(q)) /\ Head(q).op # "clear"
  <1> DEFINE t == Tail(q)
  <1>1. /\ Len(t) = Len(q) - 1 /\ Len(q) \in Nat /\ Len(q) >= 1
        /\ \A n \in 1..Len(t) : t[n] = q[n + 1]
        /\ Head(q) = q[1] /\ t \in Seq(Command) /\ Head(q) \in Command
    OBVIOUS
  <1> HIDE DEF t
  <1>2. \A n \in 1..Len(t) : n + 1 \in 1..Len(q) /\ t[n] = q[n + 1]
    BY <1>1
  <1>3. 1 \in 1..Len(q)
    BY <1>1
  <1>4. NamedIn(q) => NamedIn(t) /\ (Head(q).by # Nobody <=> Head(q).op \in {"get", "claim"})
    BY <1>1, <1>2, <1>3 DEF NamedIn
  <1>5. ~ClearIn(q) => ~ClearIn(t) /\ Head(q).op # "clear"
    BY <1>1, <1>2, <1>3 DEF ClearIn
  <1> QED BY <1>1, <1>4, <1>5 DEF t

(* The commands an instance has queued are those its requests wait for.    *)
Attended == \A k \in Instances, r \in Requests : Fine(queue[k], k, request[r], r)
Named    == \A k \in Instances : NamedIn(queue[k])

(* Only creators have anything to write, and the entry names one of them.  *)
Holders ==
    /\ \A i \in Instances \ creators : record[i] = "none" /\ Writes(i) = {}
    /\ \A i \in Instances : record[i] # "none" => i \in up
    /\ entry # Nobody => entry.url \in creators

(* Joins are redirected, never forwarded.                                  *)
Direct ==
    \A r \in Requests : request[r].kind = "join" /\ request[r].stage # "done"
                            => request[r].via = {}

(* Where a request that stands as x is on its way to a meeting that h      *)
(* holds, which is listed or not: at h, or about to be sent there.         *)
CourseOf(x, h, listed) ==
    IF x.stage = "done"
    THEN x.answer = IF x.via = {} THEN "served" ELSE "unauthorized"
    ELSE \/ /\ x.at = h /\ x.stage # "idle"
            /\ x.stage = "found" /\ x.found # Nobody => x.found.url = h
         \/ /\ x.at # h /\ listed
            /\ \/ x.stage = "asking"
               \/ x.stage = "found" /\ x.found # Nobody /\ x.found.url = h

Steady ==
    \A r \in steady : \E h \in Instances :
        SoleCreator(h) /\ record[h] = "live" /\ CourseOf(request[r], h, Listed(h))

FoundInv == TypeOK /\ Attended /\ Named /\ Holders /\ Direct /\ Steady

LEMMA InitFound == Init => FoundInv
  <1> SUFFICES ASSUME Init PROVE FoundInv
    OBVIOUS
  <1>1. \A k \in Instances : queue[k] = <<>> /\ queue[k] \in Seq(Command)
    BY DEF Init
  <1>2. \A k \in Instances : 1..Len(queue[k]) = {}
    <2> TAKE k \in Instances
    <2>1. queue[k] = <<>>
      BY <1>1
    <2> QED BY <2>1
  <1>3. Fresh \in Stands /\ Fresh.stage = "idle" /\ Fresh.via = {}
    BY DEF Fresh, Stands, Kinds
  <1>4. request = [r \in Requests |-> Fresh] /\ queue \in [Instances -> Seq(Command)]
    BY <1>1 DEF Init
  <1>5. TypeOK
    <2>1. /\ up \subseteq Instances /\ run \in [Instances -> 1..MaxRuns]
          /\ record \in [Instances -> {"none", "live", "ended"}]
          /\ entry \in Owners \cup {Nobody} /\ creates \in 0..MaxCreates
          /\ creators \subseteq Instances /\ faulty \in BOOLEAN /\ steady \subseteq Requests
      <3>1. 1 \in 1..MaxRuns /\ 0 \in 0..MaxCreates
        BY BoundsAssumption
      <3> QED BY <3>1 DEF Init
    <2>2. request \in [Requests -> Stands] /\ \A r \in Requests : request[r].stage = "idle"
      BY <1>3, <1>4
    <2> QED BY <1>4, <2>1, <2>2 DEF TypeOK, Stands
  <1>6. Attended /\ Named /\ Holders /\ Direct
    BY <1>2, <1>3, <1>4 DEF Init, Attended, Fine, Named, NamedIn, Holders, Writes, Direct
  <1>7. Steady
    BY DEF Init, Steady
  <1> QED BY <1>5, <1>6, <1>7 DEF FoundInv

LEMMA ListedKept ==
    ASSUME NEW h, entry' = entry, Self(h)' = Self(h), queue[h] \in Seq(Command), Listed(h),
           \/ queue'[h] = queue[h]
           \/ \E c \in Command : c.op # "clear" /\ queue'[h] = Append(queue[h], c)
    PROVE  Listed(h)'
  <1>1. /\ Listed(h) <=> entry = Self(h) /\ ~ClearIn(queue[h])
        /\ Listed(h)' <=> entry' = Self(h)' /\ ~ClearIn(queue'[h])
    BY DEF Listed, ClearIn
  <1>2. ASSUME NEW c \in Command, c.op # "clear", ~ClearIn(queue[h])
        PROVE  ~ClearIn(Append(queue[h], c))
    BY <1>2, Appended
  <1> QED BY <1>1, <1>2

(* A write is queued, which no request waits for.                          *)
LEMMA WriteSent ==
    ASSUME FoundInv, NEW i \in Instances, NEW c \in Command, c.by = Nobody,
           c.op \in {"set", "clear"}, queue' = [queue EXCEPT ![i] = Append(@, c)],
           \A r \in Requests : request'[r] = request[r] \/ request'[r].stage = "done"
    PROVE  /\ queue' \in [Instances -> Seq(Command)] /\ Attended' /\ Named'
           /\ \A j \in Instances : j # i => Writes(j)' = Writes(j)
  <1>1. /\ queue \in [Instances -> Seq(Command)]
        /\ \A k \in Instances : /\ queue[k] \in Seq(Command)
                                /\ queue'[k] = IF k = i THEN Append(queue[k], c) ELSE queue[k]
    BY DEF FoundInv, TypeOK
  <1>2. queue' \in [Instances -> Seq(Command)]
    <2>1. \A q \in Seq(Command) : Append(q, c) \in Seq(Command)
      OBVIOUS
    <2> QED BY <1>1, <2>1
  <1>3. Attended'
    <2> SUFFICES ASSUME NEW k \in Instances, NEW r \in Requests
                 PROVE  Fine(queue'[k], k, request'[r], r)
      BY DEF Attended
    <2>1. Fine(queue[k], k, request[r], r) /\ c.by # r
      BY NobodyAssumption DEF FoundInv, Attended
    <2>2. CASE request'[r].stage = "done"
      BY <2>2 DEF Fine
    <2>3. CASE request'[r] = request[r]
      <3>1. Fine(Append(queue[k], c), k, request[r], r)
        BY <1>1, <2>1, FineAppend
      <3> QED BY <1>1, <2>1, <2>3, <3>1
    <2> QED BY <2>2, <2>3
  <1>4. Named'
    <2>1. \A k \in Instances : NamedIn(queue[k]) /\ NamedIn(Append(queue[k], c))
      BY <1>1, Appended DEF FoundInv, Named
    <2>2. \A k \in Instances : NamedIn(queue'[k])
      BY <1>1, <2>1
    <2> QED BY <2>2 DEF Named
  <1>5. \A j \in Instances : j # i => Writes(j)' = Writes(j)
    BY <1>1 DEF Writes
  <1> QED BY <1>2, <1>3, <1>4, <1>5

(* The first command of a queue leaves it.                                 *)
LEMMA HeadGone ==
    ASSUME FoundInv, NEW i \in Instances, queue[i] # <<>>,
           queue' = [queue EXCEPT ![i] = Tail(@)],
           \A r \in Requests : \/ request'[r] = request[r]
                               \/ r = Head(queue[i]).by /\ request[r].stage # "done"
    PROVE  /\ queue' \in [Instances -> Seq(Command)] /\ Attended' /\ Named'
           /\ \A j \in Instances : Writes(j) = {} => Writes(j)' = {}
  <1>1. /\ queue \in [Instances -> Seq(Command)]
        /\ \A k \in Instances : /\ queue[k] \in Seq(Command)
                                /\ queue'[k] = IF k = i THEN Tail(queue[k]) ELSE queue[k]
        /\ Tail(queue[i]) \in Seq(Command)
    BY TailKeeps DEF FoundInv, TypeOK
  <1>2. queue' \in [Instances -> Seq(Command)]
    BY <1>1
  <1>3. Attended'
    <2> SUFFICES ASSUME NEW k \in Instances, NEW r \in Requests
                 PROVE  Fine(queue'[k], k, request'[r], r)
      BY DEF Attended
    <2>1. Fine(queue[k], k, request[r], r) /\ Fine(queue[i], i, request[r], r)
      BY DEF FoundInv, Attended
    <2>2. /\ Fine(Tail(queue[i]), i, request[r], r)
          /\ Head(queue[i]).by = r /\ request[r].stage # "done" =>
                /\ request[r].at = i
                /\ \A y : Fine(Tail(queue[i]), i, y, r)
      BY <1>1, <2>1, FineTail
    <2>3. CASE request'[r] = request[r]
      BY <1>1, <2>1, <2>2, <2>3
    <2>4. CASE r = Head(queue[i]).by /\ request[r].stage # "done"
      <3>1. CASE k = i
        BY <1>1, <2>2, <2>4, <3>1
      <3>2. CASE k # i
        <4>1. request[r].at # k
          BY <2>2, <2>4, <3>2
        <4>2. \A y : Fine(queue[k], k, y, r)
          BY <2>1, <2>4, <4>1, FineElsewhere
        <4> QED BY <1>1, <3>2, <4>2
      <3> QED BY <3>1, <3>2
    <2> QED BY <2>3, <2>4
  <1>4. Named'
    <2>1. NamedIn(Tail(queue[i]))
      BY <1>1, TailKeeps DEF FoundInv, Named
    <2>2. \A k \in Instances : NamedIn(queue'[k])
      BY <1>1, <2>1 DEF FoundInv, Named
    <2> QED BY <2>2 DEF Named
  <1>5. \A j \in Instances : Writes(j) = {} => Writes(j)' = {}
    <2>1. \A j \in Instances : Writes(j) = WritesIn(queue[j]) /\ Writes(j)' = WritesIn(queue'[j])
      BY DEF Writes, WritesIn
    <2>2. WritesIn(queue[i]) = {} => WritesIn(Tail(queue[i])) = {}
      BY <1>1, HeadRuns
    <2> QED BY <1>1, <2>1, <2>2
  <1> QED BY <1>2, <1>3, <1>4, <1>5

----------------------------------------------------------------------------
(* One request moves on from where nobody answers it, or waits in a queue. *)

(* What is queued is still what requests wait for, and no write of an      *)
(* instance that has nothing to write.                                     *)
QueuesServe ==
    /\ queue' \in [Instances -> Seq(Command)] /\ Attended' /\ Named'
    /\ \A j \in Instances \ creators : Writes(j)' = Writes(j)
    /\ \A j \in Instances : \/ queue'[j] = queue[j]
                            \/ \E c \in Command : /\ c.op # "clear"
                                                  /\ queue'[j] = Append(queue[j], c)

LEMMA SendsNothing ==
    ASSUME FoundInv, NEW r \in Requests, NEW x, request' = [request EXCEPT ![r] = x],
           request[r].stage \notin {"asking", "claiming", "done"}, queue' = queue
    PROVE  QueuesServe
  <1>1. Attended'
    <2> SUFFICES ASSUME NEW k \in Instances, NEW s \in Requests
                 PROVE  Fine(queue[k], k, request'[s], s)
      BY DEF Attended
    <2>1. Fine(queue[k], k, request[s], s)
      BY DEF FoundInv, Attended
    <2>2. s # r => request'[s] = request[s]
      BY DEF FoundInv, TypeOK
    <2>3. ASSUME s = r PROVE \A y : Fine(queue[k], k, y, s)
      BY <2>1, <2>3, FineElsewhere
    <2> QED BY <2>1, <2>2, <2>3
  <1>2. \A j : Writes(j)' = Writes(j)
    BY DEF Writes
  <1>3. Named' /\ queue \in [Instances -> Seq(Command)]
    BY DEF FoundInv, TypeOK, Named
  <1> QED BY <1>1, <1>2, <1>3 DEF QueuesServe

LEMMA SendsCommand ==
    ASSUME FoundInv, NEW r \in Requests, NEW x, request' = [request EXCEPT ![r] = x],
           request[r].stage \notin {"asking", "claiming", "done"},
           NEW c \in Command, NEW i \in Instances, c.by = r, c.op \in {"get", "claim"},
           x.at = i, x.stage = WaitsFor(c.op), queue' = [queue EXCEPT ![i] = Append(@, c)],
           c.op = "claim" => record[i] # "none"
    PROVE  QueuesServe
  <1>1. /\ queue \in [Instances -> Seq(Command)]
        /\ \A k \in Instances : /\ queue[k] \in Seq(Command)
                                /\ queue'[k] = IF k = i THEN Append(queue[k], c) ELSE queue[k]
        /\ \A s \in Requests : request'[s] = IF s = r THEN x ELSE request[s]
    BY DEF FoundInv, TypeOK
  <1>2. queue' \in [Instances -> Seq(Command)]
    <2>1. \A q \in Seq(Command) : Append(q, c) \in Seq(Command)
      OBVIOUS
    <2> QED BY <1>1, <2>1
  <1>3. Attended'
    <2> SUFFICES ASSUME NEW k \in Instances, NEW s \in Requests
                 PROVE  Fine(queue'[k], k, request'[s], s)
      BY DEF Attended
    <2>1. Fine(queue[k], k, request[s], s)
      BY DEF FoundInv, Attended
    <2>2. CASE s # r
      <3>1. k = i => Fine(Append(queue[k], c), k, request[s], s)
        BY <1>1, <2>1, <2>2, FineAppend
      <3> QED BY <1>1, <2>1, <2>2, <3>1
    <2>3. CASE s = r /\ k # i
      <3>1. Fine(queue[k], k, x, s)
        BY <2>1, <2>3, FineElsewhere
      <3> QED BY <1>1, <2>3, <3>1
    <2>4. CASE s = r /\ k = i
      <3>1. Fine(Append(queue[k], c), k, x, s)
        BY <1>1, <2>1, <2>4, FineNew
      <3> QED BY <1>1, <2>4, <3>1
    <2> QED BY <2>2, <2>3, <2>4
  <1>4. Named'
    <2>1. c.by # Nobody
      BY NobodyAssumption
    <2>2. \A k \in Instances : NamedIn(queue[k]) /\ NamedIn(Append(queue[k], c))
      BY <1>1, <2>1, Appended DEF FoundInv, Named
    <2>3. \A k \in Instances : NamedIn(queue'[k])
      BY <1>1, <2>2
    <2> QED BY <2>3 DEF Named
  <1>5. ASSUME NEW j \in Instances, j # i \/ c.op = "get" PROVE Writes(j)' = Writes(j)
    <2>1. Writes(j) = WritesIn(queue[j]) /\ Writes(j)' = WritesIn(queue'[j])
      BY DEF Writes, WritesIn
    <2>2. CASE j # i
      BY <1>1, <2>1, <2>2
    <2>3. CASE c.op = "get"
      <3>1. WritesIn(Append(queue[j], c)) = WritesIn(queue[j])
        BY <1>1, <2>3, LookupQueued
      <3> QED BY <1>1, <2>1, <3>1
    <2> QED BY <1>5, <2>2, <2>3
  <1>6. \A j \in Instances \ creators : j # i \/ c.op = "get"
    BY DEF FoundInv, Holders
  <1> QED BY <1>1, <1>2, <1>3, <1>4, <1>5, <1>6 DEF QueuesServe

(* What the request becomes decides the rest.                              *)
LEMMA RequestMoves ==
    ASSUME FoundInv, NEW r \in Requests, NEW x \in Stands,
           request' = [request EXCEPT ![r] = x],
           request[r].stage \notin {"asking", "claiming", "done"},
           UNCHANGED <<up, run, record, entry, creates, creators, faulty>>,
           QueuesServe,
           x.stage \in {"asking", "found", "claiming", "claimed"} => x.at \in up,
           x.kind = "join" /\ x.stage # "done" => x.via = {},
           steady' \subseteq steady \cup {r},
           r \in steady' => \E h \in Instances :
                 SoleCreator(h) /\ record[h] = "live" /\ CourseOf(x, h, Listed(h))
    PROVE  FoundInv'
  <1>1. /\ request' \in [Requests -> Stands]
        /\ \A s \in Requests : request'[s] = IF s = r THEN x ELSE request[s]
    BY DEF FoundInv, TypeOK, Stands
  <1>2. /\ queue' \in [Instances -> Seq(Command)] /\ Attended' /\ Named'
        /\ \A j \in Instances \ creators : Writes(j)' = Writes(j)
        /\ \A j \in Instances : \/ queue'[j] = queue[j]
                                \/ \E c \in Command : /\ c.op # "clear"
                                                      /\ queue'[j] = Append(queue[j], c)
    BY DEF QueuesServe
  <1>3. TypeOK'
    <2>1. /\ up' \subseteq Instances /\ run' \in [Instances -> 1..MaxRuns]
          /\ record' \in [Instances -> {"none", "live", "ended"}]
          /\ entry' \in Owners \cup {Nobody} /\ creates' \in 0..MaxCreates
          /\ creators' \subseteq Instances /\ faulty' \in BOOLEAN /\ steady' \subseteq Requests
      BY DEF FoundInv, TypeOK
    <2>2. \A s \in Requests : request'[s].stage \in {"asking", "found", "claiming", "claimed"}
                                => request'[s].at \in up'
      BY <1>1 DEF FoundInv, TypeOK, At
    <2> QED BY <1>1, <1>2, <2>1, <2>2 DEF TypeOK, Stands, At
  <1>4. Holders'
    BY <1>2 DEF FoundInv, Holders
  <1>5. Direct'
    BY <1>1 DEF FoundInv, Direct
  <1>6. Steady'
    <2> SUFFICES ASSUME NEW s \in steady'
                 PROVE  \E h \in Instances : /\ creators = {h} /\ record[h] = "live"
                                             /\ CourseOf(request'[s], h, Listed(h)')
      BY DEF Steady
    <2>1. s \in Requests
      BY DEF FoundInv, TypeOK
    <2>2. PICK h \in Instances : /\ creators = {h} /\ record[h] = "live"
                                 /\ CourseOf(request'[s], h, Listed(h))
      BY <1>1, <2>1 DEF FoundInv, Steady
    <2>3. Listed(h) => Listed(h)'
      <3>1. queue[h] \in Seq(Command) /\ Self(h)' = Self(h)
        BY DEF FoundInv, TypeOK, Self
      <3> QED BY <1>2, <3>1, ListedKept
    <2>4. CourseOf(request'[s], h, Listed(h)')
      BY <2>2, <2>3 DEF CourseOf
    <2> QED BY <2>2, <2>4
  <1> QED BY <1>2, <1>3, <1>4, <1>5, <1>6 DEF FoundInv

LEMMA SelfIsOwner ==
    ASSUME TypeOK, NEW i \in Instances
    PROVE  Self(i) \in Owners /\ Self(i).url = i
  <1>1. run[i] \in 0..MaxRuns /\ 0 \in 0..MaxRuns
    BY BoundsAssumption DEF TypeOK
  <1> QED BY <1>1 DEF Self, Owners

(* Whoever is not sent elsewhere has come to the holder, and whoever is    *)
(* sent elsewhere is sent there.                                           *)
LEMMA CourseLeadsHome ==
    ASSUME NEW r, NEW h, CourseOf(request[r], h, Listed(h)),
           request[r].stage \in {"found", "claimed"}
    PROVE  /\ request[r].stage = "claimed" \/ ~Foreign(At(r), request[r].found) => At(r) = h
           /\ request[r].stage = "found" /\ request[r].found # Nobody => request[r].found.url = h
  <1>1. Self(At(r)).url = At(r)
    BY DEF Self
  <1>2. \/ /\ request[r].at = h
           /\ request[r].stage = "found" /\ request[r].found # Nobody => request[r].found.url = h
        \/ /\ request[r].at # h /\ request[r].stage = "found" /\ request[r].found # Nobody
           /\ request[r].found.url = h
    BY DEF CourseOf
  <1> QED BY <1>1, <1>2 DEF Foreign, At

LEMMA AskFound ==
    ASSUME FoundInv, NEW r \in Requests, NEW i \in Instances, NEW kind \in Asks[r], Ask(r, i, kind)
    PROVE  FoundInv'
  <1> DEFINE x == [Fresh EXCEPT !.stage = "asking", !.kind = kind, !.at = i]
             c == [op |-> "get", by |-> r]
  <1>1. x \in Stands /\ x.stage = "asking" /\ x.at = i /\ x.via = {}
    BY AsksAssumption DEF Fresh, Stands
  <1>2. c \in Command /\ c.by = r /\ c.op = "get"
    BY DEF Command
  <1>3. /\ i \in up /\ request[r].stage = "idle" /\ request' = [request EXCEPT ![r] = x]
        /\ queue' = [queue EXCEPT ![i] = Append(@, c)]
        /\ UNCHANGED <<up, run, record, entry, creates, creators, faulty>>
        /\ steady' \subseteq steady \cup {r} /\ (r \in steady' => r \in steady \/ Reachable(i))
    BY DEF Ask, Sent
  <1> HIDE DEF x, c
  <1>4. QueuesServe
    BY <1>1, <1>2, <1>3, SendsCommand DEF WaitsFor
  <1>5. r \notin steady
    BY <1>3 DEF FoundInv, Steady, CourseOf
  <1>6. ASSUME Reachable(i)
        PROVE  \E h \in Instances : SoleCreator(h) /\ record[h] = "live" /\ CourseOf(x, h, Listed(h))
    BY <1>1, <1>6 DEF Reachable, CourseOf
  <1> QED BY <1>1, <1>3, <1>4, <1>5, <1>6, RequestMoves

(* A request that stays on its course while it moves on.                   *)
LEMMA StaysOnCourse ==
    ASSUME FoundInv, NEW r \in Requests, NEW x \in Stands,
           request' = [request EXCEPT ![r] = x],
           request[r].stage \notin {"asking", "claiming", "done"},
           UNCHANGED <<up, run, record, entry, creates, creators, faulty, steady>>,
           QueuesServe,
           x.stage \in {"asking", "found", "claiming", "claimed"} => x.at \in up,
           x.kind = "join" /\ x.stage # "done" => x.via = {},
           \A h \in Instances : record[h] = "live" /\ CourseOf(request[r], h, Listed(h))
                                    => CourseOf(x, h, Listed(h))
    PROVE  FoundInv'
  <1>1. steady' \subseteq steady \cup {r}
    OBVIOUS
  <1>2. ASSUME r \in steady'
        PROVE  \E h \in Instances : SoleCreator(h) /\ record[h] = "live" /\ CourseOf(x, h, Listed(h))
    <2>1. PICK h \in Instances : /\ SoleCreator(h) /\ record[h] = "live"
                                 /\ CourseOf(request[r], h, Listed(h))
      BY <1>2 DEF FoundInv, Steady
    <2> QED BY <2>1
  <1> QED BY <1>1, <1>2, RequestMoves

LEMMA JoinFound ==
    ASSUME FoundInv, NEW r \in Requests, JoinContinues(r)
    PROVE  FoundInv'
  <1>1. /\ request[r] \in Stands /\ request[r].kind = "join"
        /\ request[r].stage \in {"found", "claimed"} /\ request[r].via = {}
        /\ At(r) \in up /\ At(r) \in Instances /\ At(r) = request[r].at
    BY DEF JoinContinues, FoundInv, TypeOK, Stands, Direct, At
  <1>2. CASE JoinLocally(r) /\ (request[r].stage = "claimed" \/ ~Redirects(r))
    <2> DEFINE reply == CASE record[At(r)] = "none"  -> "notFound"
                          [] record[At(r)] = "ended" -> "ended"
                          [] record[At(r)] = "live"  -> "served"
               x == Closed(r, reply)
    <2>1. reply \in Answers /\ (record[At(r)] = "live" => reply = "served")
      BY <1>1 DEF FoundInv, TypeOK, Answers
    <2>2. /\ request' = [request EXCEPT ![r] = x] /\ queue' = queue
          /\ UNCHANGED <<up, run, record, entry, creates, creators, faulty, steady>>
      BY <1>2 DEF JoinLocally, Answered, historyVars
    <2> HIDE DEF reply
    <2>3. x \in Stands /\ x.stage = "done" /\ x.via = {} /\ x.answer = reply
      BY <1>1, <2>1 DEF Closed, Fresh, Stands, Kinds
    <2> HIDE DEF x
    <2>4. ASSUME NEW h \in Instances, record[h] = "live", CourseOf(request[r], h, Listed(h))
          PROVE  CourseOf(x, h, Listed(h))
      <3>1. At(r) = h
        BY <1>1, <1>2, <2>4, CourseLeadsHome DEF Redirects
      <3> QED BY <2>1, <2>3, <2>4, <3>1 DEF CourseOf
    <2>5. QueuesServe
      BY <1>1, <2>2, SendsNothing
    <2> QED BY <1>1, <2>2, <2>3, <2>4, <2>5, StaysOnCourse
  <1>3. CASE JoinRedirected(r) /\ request[r].stage = "found"
    <2> DEFINE x == [Fresh EXCEPT !.stage = "moving", !.kind = request[r].kind, !.via = {},
                                  !.at = request[r].found.url]
    <2>1. request[r].found # Nobody /\ request[r].found.url \in Instances
      BY <1>1, <1>3 DEF JoinRedirected, Redirects, Foreign, Stands, Owners
    <2>2. /\ request' = [request EXCEPT ![r] = x] /\ queue' = queue
          /\ UNCHANGED <<up, run, record, entry, creates, creators, faulty, steady>>
      BY <1>3 DEF JoinRedirected, MovedOn, historyVars
    <2>3. x \in Stands /\ x.stage = "moving" /\ x.via = {} /\ x.at = request[r].found.url
      BY <1>1, <2>1 DEF Fresh, Stands
    <2> HIDE DEF x
    <2>4. ASSUME NEW h \in Instances, record[h] = "live", CourseOf(request[r], h, Listed(h))
          PROVE  CourseOf(x, h, Listed(h))
      <3>1. request[r].found.url = h
        BY <1>3, <2>1, <2>4, CourseLeadsHome
      <3> QED BY <2>3, <3>1 DEF CourseOf
    <2>5. QueuesServe
      BY <1>1, <2>2, SendsNothing
    <2> QED BY <1>1, <2>2, <2>3, <2>4, <2>5, StaysOnCourse
  <1>4. CASE JoinClaims(r) /\ request[r].stage = "found"
    <2> DEFINE x == [request[r] EXCEPT !.stage = "claiming"]
               c == [op |-> "claim", by |-> r]
    <2>1. c \in Command /\ c.by = r /\ c.op = "claim"
      BY DEF Command
    <2>2. /\ request' = [request EXCEPT ![r] = x] /\ queue' = [queue EXCEPT ![At(r)] = Append(@, c)]
          /\ UNCHANGED <<up, run, record, entry, creates, creators, faulty, steady>>
          /\ ~Redirects(r) /\ record[At(r)] # "none"
      BY <1>4 DEF JoinClaims, Claims, Moved, Sent, historyVars
    <2>3. /\ x \in Stands /\ x.stage = "claiming" /\ x.via = {} /\ x.kind = "join"
          /\ x.at = At(r)
      BY <1>1 DEF Stands
    <2> HIDE DEF x, c
    <2>4. ASSUME NEW h \in Instances, record[h] = "live", CourseOf(request[r], h, Listed(h))
          PROVE  CourseOf(x, h, Listed(h))
      <3>1. At(r) = h
        BY <1>4, <2>2, <2>4, CourseLeadsHome DEF Redirects
      <3> QED BY <2>3, <3>1 DEF CourseOf
    <2>5. QueuesServe
      BY <1>1, <1>4, <2>1, <2>2, <2>3, SendsCommand DEF WaitsFor
    <2> QED BY <1>1, <1>4, <2>2, <2>3, <2>4, <2>5, StaysOnCourse
  <1> QED BY <1>2, <1>3, <1>4 DEF JoinContinues

(* A meeting ends; what its request becomes is an answer.                  *)
LEMMA EndFound ==
    ASSUME FoundInv, NEW i \in Instances, NEW after \in {"ended", "none"}, record[i] # "none",
           EndsAs(i, after), request' \in [Requests -> Stands],
           \A r \in Requests : request'[r] = request[r] \/ request'[r].stage = "done",
           UNCHANGED <<up, run, entry, creates, creators, faulty>>
    PROVE  FoundInv'
  <1> DEFINE c == [op |-> "clear", by |-> Nobody]
  <1>1. /\ record' = [record EXCEPT ![i] = after]
        /\ queue' = IF record[i] = "live" THEN [queue EXCEPT ![i] = Append(@, c)] ELSE queue
        /\ steady' = {}
    BY DEF EndsAs, Sent
  <1>2. c \in Command /\ c.by = Nobody /\ c.op = "clear"
    BY DEF Command
  <1> HIDE DEF c
  <1>3. /\ queue' \in [Instances -> Seq(Command)] /\ Attended' /\ Named'
        /\ \A j \in Instances : j # i => Writes(j)' = Writes(j)
    <2>1. CASE record[i] = "live"
      BY <1>1, <1>2, <2>1, WriteSent
    <2>2. CASE record[i] # "live"
      <3>1. queue' = queue
        BY <1>1, <2>2
      <3>2. Attended'
        <4> SUFFICES ASSUME NEW k \in Instances, NEW r \in Requests
                     PROVE  Fine(queue'[k], k, request'[r], r)
          BY DEF Attended
        <4>1. Fine(queue[k], k, request[r], r)
          BY DEF FoundInv, Attended
        <4>2. request'[r].stage = "done" => Fine(queue[k], k, request'[r], r)
          BY DEF Fine
        <4> QED BY <3>1, <4>1, <4>2
      <3> QED BY <3>1, <3>2 DEF FoundInv, TypeOK, Named, Writes
    <2> QED BY <2>1, <2>2
  <1>4. record' \in [Instances -> {"none", "live", "ended"}]
        /\ \A j \in Instances : record'[j] = IF j = i THEN after ELSE record[j]
    BY <1>1 DEF FoundInv, TypeOK
  <1>5. TypeOK'
    <2>1. /\ up' \subseteq Instances /\ run' \in [Instances -> 1..MaxRuns]
          /\ entry' \in Owners \cup {Nobody} /\ creates' \in 0..MaxCreates
          /\ creators' \subseteq Instances /\ faulty' \in BOOLEAN /\ steady' \subseteq Requests
      BY <1>1 DEF FoundInv, TypeOK
    <2>2. \A s \in Requests : request'[s].stage \in {"asking", "found", "claiming", "claimed"}
                                => request'[s].at \in up'
      BY DEF FoundInv, TypeOK, At
    <2> QED BY <1>3, <1>4, <2>1, <2>2 DEF TypeOK, Stands, At
  <1>6. Holders'
    <2>1. i \in creators /\ i \in up
      BY DEF FoundInv, Holders
    <2> QED BY <1>3, <1>4, <2>1 DEF FoundInv, Holders
  <1>7. Direct'
    BY DEF FoundInv, Direct
  <1>8. Steady'
    BY <1>1 DEF Steady
  <1> QED BY <1>3, <1>5, <1>6, <1>7, <1>8 DEF FoundInv

LEMMA RestFound ==
    ASSUME FoundInv, NEW r \in Requests, RestContinues(r)
    PROVE  FoundInv'
  <1>1. /\ request[r] \in Stands /\ request[r].kind # "join" /\ request[r].stage = "found"
        /\ At(r) \in up /\ At(r) \in Instances /\ At(r) = request[r].at
        /\ request \in [Requests -> Stands]
        /\ UNCHANGED <<up, run, entry, creates, creators, faulty>>
    BY DEF RestContinues, FoundInv, TypeOK, Stands, At
  <1>2. CASE Foreign(At(r), request[r].found)
    <2> DEFINE via == request[r].via \cup {At(r)}
               x == [Fresh EXCEPT !.stage = "moving", !.kind = request[r].kind, !.via = via,
                                  !.at = request[r].found.url]
    <2>1. /\ request[r].found # Nobody /\ request[r].found.url \in Instances
          /\ via \subseteq Instances
      BY <1>1, <1>2 DEF Foreign, Stands, Owners
    <2>2. /\ request' = [request EXCEPT ![r] = x] /\ queue' = queue
          /\ UNCHANGED <<record, steady>>
      BY <1>2 DEF RestContinues, MovedOn
    <2> HIDE DEF via
    <2>3. /\ x \in Stands /\ x.stage = "moving" /\ x.kind # "join"
          /\ x.at = request[r].found.url
      BY <1>1, <2>1 DEF Fresh, Stands
    <2> HIDE DEF x
    <2>4. ASSUME NEW h \in Instances, record[h] = "live", CourseOf(request[r], h, Listed(h))
          PROVE  CourseOf(x, h, Listed(h))
      <3>1. request[r].found.url = h
        BY <1>1, <2>1, <2>4, CourseLeadsHome
      <3> QED BY <2>3, <3>1 DEF CourseOf
    <2>5. QueuesServe
      BY <1>1, <2>2, SendsNothing
    <2> QED BY <1>1, <2>2, <2>3, <2>4, <2>5, StaysOnCourse
  <1>3. CASE ~Foreign(At(r), request[r].found) /\ (~Authorized(r) \/ request[r].kind = "read"
                                                   \/ record[At(r)] = "none")
    <2> DEFINE reply == IF ~Authorized(r) THEN "unauthorized"
                        ELSE IF request[r].kind # "delete" /\ record[At(r)] = "none" THEN "notFound"
                        ELSE "served"
               x == Closed(r, reply)
    <2>1. /\ reply \in Answers
          /\ record[At(r)] = "live" => reply = IF Authorized(r) THEN "served" ELSE "unauthorized"
      BY DEF Answers
    <2>2. /\ request' = [request EXCEPT ![r] = x] /\ queue' = queue
          /\ UNCHANGED <<record, steady>>
      BY <1>3 DEF RestContinues, Handle, Answered
    <2> HIDE DEF reply
    <2>3. x \in Stands /\ x.stage = "done" /\ x.via = request[r].via /\ x.answer = reply
      BY <1>1, <2>1 DEF Closed, Fresh, Stands, Kinds
    <2> HIDE DEF x
    <2>4. ASSUME NEW h \in Instances, record[h] = "live", CourseOf(request[r], h, Listed(h))
          PROVE  CourseOf(x, h, Listed(h))
      <3>1. At(r) = h
        BY <1>1, <1>3, <2>4, CourseLeadsHome
      <3> QED BY <2>1, <2>3, <2>4, <3>1 DEF CourseOf, Authorized
    <2>5. QueuesServe
      BY <1>1, <2>2, SendsNothing
    <2> QED BY <1>1, <2>2, <2>3, <2>4, <2>5, StaysOnCourse
  <1>4. CASE ~Foreign(At(r), request[r].found) /\ ~(~Authorized(r) \/ request[r].kind = "read"
                                                    \/ record[At(r)] = "none")
    <2> DEFINE after == IF request[r].kind = "end" THEN "ended" ELSE "none"
               x == Closed(r, "served")
    <2>1. /\ request' = [request EXCEPT ![r] = x] /\ EndsAs(At(r), after)
          /\ record[At(r)] # "none" /\ after \in {"ended", "none"}
      BY <1>4 DEF RestContinues, Handle, Answered
    <2>2. x \in Stands /\ x.stage = "done"
      BY <1>1 DEF Closed, Fresh, Stands, Kinds, Answers
    <2> HIDE DEF x, after
    <2>3. /\ request' \in [Requests -> Stands]
          /\ \A s \in Requests : request'[s] = request[s] \/ request'[s].stage = "done"
      BY <1>1, <2>1, <2>2
    <2> QED BY <1>1, <2>1, <2>3, EndFound
  <1> QED BY <1>2, <1>3, <1>4

LEMMA ArriveFound ==
    ASSUME FoundInv, NEW r \in Requests, Arrive(r)
    PROVE  FoundInv'
  <1>1. /\ request[r] \in Stands /\ request[r].stage = "moving" /\ At(r) = request[r].at
        /\ request[r].kind = "join" => request[r].via = {}
        /\ UNCHANGED <<up, run, record, entry, creates, creators, faulty, steady>>
    BY DEF Arrive, FoundInv, TypeOK, Stands, Direct, At, historyVars
  <1>2. CASE Reached(r)
    <2> DEFINE x == [request[r] EXCEPT !.stage = "asking"]
               c == [op |-> "get", by |-> r]
    <2>1. c \in Command /\ c.by = r /\ c.op = "get"
      BY DEF Command
    <2>2. /\ request' = [request EXCEPT ![r] = x] /\ queue' = [queue EXCEPT ![At(r)] = Append(@, c)]
          /\ At(r) \in up /\ At(r) \in Instances
      BY <1>2 DEF Arrive, Moved, Sent, Reached, FoundInv, TypeOK
    <2>3. /\ x \in Stands /\ x.stage = "asking" /\ x.via = request[r].via
          /\ x.kind = request[r].kind /\ x.at = At(r)
      BY <1>1 DEF Stands
    <2> HIDE DEF x, c
    <2>4. ASSUME NEW h \in Instances, record[h] = "live", CourseOf(request[r], h, Listed(h))
          PROVE  CourseOf(x, h, Listed(h))
      BY <1>1, <2>3, <2>4 DEF CourseOf
    <2>5. QueuesServe
      BY <1>1, <2>1, <2>2, <2>3, SendsCommand DEF WaitsFor
    <2> QED BY <1>1, <2>2, <2>3, <2>4, <2>5, StaysOnCourse
  <1>3. CASE ~Reached(r)
    <2> DEFINE x == Closed(r, "unreachable")
    <2>1. request' = [request EXCEPT ![r] = x] /\ queue' = queue
      BY <1>3 DEF Arrive, Answered
    <2>2. x \in Stands /\ x.stage = "done"
      BY <1>1 DEF Closed, Fresh, Stands, Kinds, Answers
    <2> HIDE DEF x
    <2>3. ASSUME NEW h \in Instances, record[h] = "live", CourseOf(request[r], h, Listed(h))
          PROVE  CourseOf(x, h, Listed(h))
      <3>1. request[r].at = h /\ h \in up
        BY <1>1, <2>3 DEF CourseOf, FoundInv, Holders
      <3> QED BY <1>1, <1>3, <3>1 DEF Reached
    <2>4. QueuesServe
      BY <1>1, <2>1, SendsNothing
    <2> QED BY <1>1, <2>1, <2>2, <2>3, <2>4, StaysOnCourse
  <1> QED BY <1>2, <1>3

----------------------------------------------------------------------------
(* The other steps.                                                        *)

LEMMA CreateFound ==
    ASSUME FoundInv, NEW i \in Instances, Create(i)
    PROVE  FoundInv'
  <1> DEFINE c == [op |-> "set", by |-> Nobody]
  <1>1. /\ i \in up /\ creates < MaxCreates /\ record' = [record EXCEPT ![i] = "live"]
        /\ queue' = [queue EXCEPT ![i] = Append(@, c)] /\ creates' = creates + 1
        /\ creators' = creators \cup {i} /\ steady' = {}
        /\ UNCHANGED <<up, run, entry, request, faulty>>
    BY DEF Create, Sent
  <1>2. c \in Command /\ c.by = Nobody /\ c.op = "set"
    BY DEF Command
  <1> HIDE DEF c
  <1>3. /\ queue' \in [Instances -> Seq(Command)] /\ Attended' /\ Named'
        /\ \A j \in Instances : j # i => Writes(j)' = Writes(j)
    BY <1>1, <1>2, WriteSent
  <1>4. TypeOK'
    <2>1. /\ up' \subseteq Instances /\ run' \in [Instances -> 1..MaxRuns]
          /\ record' \in [Instances -> {"none", "live", "ended"}]
          /\ entry' \in Owners \cup {Nobody}
          /\ creators' \subseteq Instances /\ faulty' \in BOOLEAN /\ steady' \subseteq Requests
          /\ request' \in [Requests -> Stands]
          /\ \A s \in Requests : request'[s].stage \in {"asking", "found", "claiming", "claimed"}
                                   => request'[s].at \in up'
      BY <1>1 DEF FoundInv, TypeOK, Stands, At
    <2>2. creates' \in 0..MaxCreates
      BY <1>1, BoundsAssumption DEF FoundInv, TypeOK
    <2> QED BY <1>3, <2>1, <2>2 DEF TypeOK, Stands, At
  <1>5. Holders'
    <2>1. \A j \in Instances : record'[j] = IF j = i THEN "live" ELSE record[j]
      BY <1>1 DEF FoundInv, TypeOK
    <2> QED BY <1>1, <1>3, <2>1 DEF FoundInv, Holders
  <1>6. Direct' /\ Steady'
    BY <1>1 DEF FoundInv, Direct, Steady
  <1> QED BY <1>3, <1>4, <1>5, <1>6 DEF FoundInv

(* Whom the head of a queue belongs to.                                    *)
LEMMA HeadIsAwaited ==
    ASSUME FoundInv, NEW i \in Instances, queue[i] # <<>>
    PROVE  /\ Head(queue[i]) \in Command
           /\ Awaited(Head(queue[i])) =>
                 LET c == Head(queue[i])
                 IN  /\ c.by \in Requests /\ c.op \in {"get", "claim"}
                     /\ request[c.by].stage = WaitsFor(c.op) /\ request[c.by].at = i
           /\ Head(queue[i]).op # "get" => i \in creators
  <1> DEFINE c == Head(queue[i])
  <1>1. queue[i] \in Seq(Command)
    BY DEF FoundInv, TypeOK
  <1>2. c \in Command /\ (c.by # Nobody <=> c.op \in {"get", "claim"})
    BY <1>1, TailKeeps DEF FoundInv, Named
  <1>3. ASSUME Awaited(c)
        PROVE  /\ c.by \in Requests /\ c.op \in {"get", "claim"}
               /\ request[c.by].stage = WaitsFor(c.op) /\ request[c.by].at = i
    <2>1. c.by \in Requests /\ request[c.by].stage # "done"
      BY <1>2, <1>3 DEF Awaited, Done, Command
    <2>2. Fine(queue[i], i, request[c.by], c.by)
      BY <2>1 DEF FoundInv, Attended
    <2> QED BY <1>1, <1>2, <1>3, <2>1, <2>2, FineTail DEF Awaited
  <1>4. ASSUME c.op # "get" PROVE i \in creators
    <2>1. Writes(i) = WritesIn(queue[i])
      BY DEF Writes, WritesIn
    <2> QED BY <1>1, <1>4, <2>1, HeadRuns DEF FoundInv, Holders
  <1> QED BY <1>2, <1>3, <1>4

LEMMA RedisRunsFound ==
    ASSUME FoundInv, NEW i \in Instances, RedisRuns(i)
    PROVE  FoundInv'
  <1> DEFINE c == Head(queue[i])
             x == IF c.op = "claim" THEN [request[c.by] EXCEPT !.stage = "claimed"]
                  ELSE [request[c.by] EXCEPT !.stage = "found", !.found = entry]
  <1>1. /\ queue[i] # <<>> /\ queue' = [queue EXCEPT ![i] = Tail(@)]
        /\ UNCHANGED <<up, run, record, creates, creators, faulty, steady>>
        /\ request' = IF Awaited(c) THEN [request EXCEPT ![c.by] = x] ELSE request
        /\ c.op \in {"set", "claim"} => entry' = Self(i)
        /\ c.op = "clear" => entry' = Nobody
        /\ c.op = "get" => entry' = entry
    BY DEF RedisRuns, Moved, historyVars
  <1>2. /\ c \in Command /\ (c.op # "get" => i \in creators)
        /\ Awaited(c) => /\ c.by \in Requests /\ c.op \in {"get", "claim"}
                         /\ request[c.by].stage = WaitsFor(c.op) /\ request[c.by].at = i
    BY <1>1, HeadIsAwaited
  <1>3. /\ request \in [Requests -> Stands] /\ entry \in Owners \cup {Nobody}
        /\ Self(i) \in Owners /\ Self(i).url = i /\ queue[i] \in Seq(Command)
        /\ c.op \in {"set", "clear", "get", "claim"}
    BY <1>2, SelfIsOwner DEF FoundInv, TypeOK, Stands, Command
  <1>4. ASSUME Awaited(c)
        PROVE  /\ x \in Stands /\ x.at = i /\ x.kind = request[c.by].kind
               /\ x.via = request[c.by].via
               /\ \/ c.op = "claim" /\ x.stage = "claimed"
                  \/ c.op = "get" /\ x.stage = "found" /\ x.found = entry
    <2>1. request[c.by] \in Stands /\ request[c.by].at = i
      BY <1>2, <1>3, <1>4
    <2> HIDE DEF c
    <2> QED BY <1>2, <1>3, <1>4, <2>1 DEF Stands
  <1> HIDE DEF x
  <1>5. \A s \in Requests : request'[s] = IF Awaited(c) /\ s = c.by THEN x ELSE request[s]
    BY <1>1, <1>3
  <1>6. /\ queue' \in [Instances -> Seq(Command)] /\ Attended' /\ Named'
        /\ \A j \in Instances : Writes(j) = {} => Writes(j)' = {}
    <2>1. \A s \in Requests : request'[s] = request[s] \/ (s = c.by /\ request[s].stage # "done")
      BY <1>5 DEF Awaited, Done
    <2> QED BY <1>1, <2>1, HeadGone
  <1> HIDE DEF c
  <1>7. TypeOK'
    <2>1. /\ up' \subseteq Instances /\ run' \in [Instances -> 1..MaxRuns]
          /\ record' \in [Instances -> {"none", "live", "ended"}] /\ creates' \in 0..MaxCreates
          /\ creators' \subseteq Instances /\ faulty' \in BOOLEAN /\ steady' \subseteq Requests
      BY <1>1 DEF FoundInv, TypeOK
    <2>2. request' \in [Requests -> Stands]
      BY <1>1, <1>2, <1>3, <1>4
    <2>3. entry' \in Owners \cup {Nobody}
      BY <1>1, <1>3
    <2>4. \A s \in Requests : request'[s].stage \in {"asking", "found", "claiming", "claimed"}
                                => request'[s].at \in up'
      <3>1. \A s \in Requests : request[s].stage \in {"asking", "found", "claiming", "claimed"}
                                  => request[s].at \in up
        BY DEF FoundInv, TypeOK, At
      <3>2. Awaited(c) => x.at \in up
        BY <1>2, <1>4, <3>1 DEF WaitsFor
      <3> QED BY <1>1, <1>5, <3>1, <3>2
    <2> QED BY <1>6, <2>1, <2>2, <2>3, <2>4 DEF TypeOK, Stands, At
  <1>8. Holders'
    <2>1. entry' # Nobody => entry'.url \in creators
      BY <1>1, <1>2, <1>3 DEF FoundInv, Holders
    <2> QED BY <1>1, <1>6, <2>1 DEF FoundInv, Holders
  <1>9. Direct'
    <2>1. Awaited(c) => request[c.by].stage # "done"
      BY DEF Awaited, Done
    <2> QED BY <1>2, <1>4, <1>5, <2>1 DEF FoundInv, Direct
  <1>10. Steady'
    <2> SUFFICES ASSUME NEW s \in steady
                 PROVE  \E h \in Instances : /\ creators = {h} /\ record[h] = "live"
                                             /\ CourseOf(request'[s], h, Listed(h)')
      BY <1>1 DEF Steady
    <2>1. s \in Requests
      BY DEF FoundInv, TypeOK
    <2>2. PICK h \in Instances : /\ creators = {h} /\ record[h] = "live"
                                 /\ CourseOf(request[s], h, Listed(h))
      BY DEF FoundInv, Steady
    <2>3. /\ Listed(h) <=> entry = Self(h) /\ ~ClearIn(queue[h])
          /\ Listed(h)' <=> entry' = Self(h)' /\ ~ClearIn(queue'[h])
          /\ Self(h)' = Self(h) /\ Self(h).url = h /\ Self(h) # Nobody
      <3>1. Self(h) \in Owners
        BY SelfIsOwner DEF FoundInv
      <3> QED BY <1>1, <3>1, NobodyAssumption DEF Listed, ClearIn, Self
    <2>4. Listed(h) => Listed(h)'
      <3>1. CASE h = i
        <4>1. ~ClearIn(queue[h]) => ~ClearIn(Tail(queue[h])) /\ c.op # "clear"
          BY <1>1, <1>3, <3>1, TailKeeps DEF c
        <4>2. queue'[h] = Tail(queue[h])
          BY <1>1, <3>1 DEF FoundInv, TypeOK
        <4> QED BY <1>1, <1>3, <2>3, <3>1, <4>1, <4>2
      <3>2. CASE h # i
        <4>1. queue'[h] = queue[h]
          BY <1>1, <3>2 DEF FoundInv, TypeOK
        <4>2. entry' = entry
          BY <1>1, <1>2, <2>2, <3>2
        <4> QED BY <2>3, <4>1, <4>2
      <3> QED BY <3>1, <3>2
    <2>5. CourseOf(request'[s], h, Listed(h)')
      <3>1. CASE ~(Awaited(c) /\ s = c.by)
        <4>1. request'[s] = request[s]
          BY <1>5, <2>1, <3>1
        <4> QED BY <2>2, <2>4, <4>1 DEF CourseOf
      <3>2. CASE Awaited(c) /\ s = c.by
        <4>1. request'[s] = x /\ request[s].at = i /\ request[s].stage = WaitsFor(c.op)
          BY <1>2, <1>5, <2>1, <3>2
        <4>2. CASE c.op = "claim"
          <5>1. i = h
            BY <2>2, <4>1, <4>2 DEF CourseOf, WaitsFor
          <5> QED BY <1>4, <3>2, <4>1, <4>2, <5>1 DEF CourseOf
        <4>3. CASE c.op = "get" /\ i = h
          <5>1. entry # Nobody => entry.url = h
            BY <2>2 DEF FoundInv, Holders
          <5> QED BY <1>4, <3>2, <4>1, <4>3, <5>1 DEF CourseOf
        <4>4. CASE c.op = "get" /\ i # h
          <5>1. Listed(h)
            BY <2>2, <4>1, <4>4 DEF CourseOf, WaitsFor
          <5> QED BY <1>4, <2>3, <2>4, <3>2, <4>1, <4>4, <5>1 DEF CourseOf
        <4> QED BY <1>2, <3>2, <4>2, <4>3, <4>4
      <3> QED BY <3>1, <3>2
    <2> QED BY <2>2, <2>5
  <1> QED BY <1>6, <1>7, <1>8, <1>9, <1>10 DEF FoundInv

LEMMA RedisFailsFound ==
    ASSUME FoundInv, NEW i \in Instances, RedisFails(i)
    PROVE  FoundInv'
  <1> DEFINE c == Head(queue[i])
             x == Closed(c.by, "error")
  <1>1. /\ queue[i] # <<>> /\ queue' = [queue EXCEPT ![i] = Tail(@)]
        /\ UNCHANGED <<up, run, record, entry, creates, creators>>
        /\ faulty' = TRUE /\ steady' = {}
        /\ request' = IF Awaited(c) THEN [request EXCEPT ![c.by] = x] ELSE request
    BY DEF RedisFails, Answered
  <1>2. Awaited(c) => c.by \in Requests
    BY <1>1, HeadIsAwaited
  <1>3. request \in [Requests -> Stands]
    BY DEF FoundInv, TypeOK, Stands
  <1>4. ASSUME Awaited(c) PROVE x \in Stands /\ x.stage = "done"
    <2>1. request[c.by].via \in SUBSET Instances
      BY <1>2, <1>3, <1>4 DEF Stands
    <2> QED BY <2>1 DEF Closed, Fresh, Stands, Kinds, Answers
  <1> HIDE DEF x
  <1>5. \A s \in Requests : request'[s] = IF Awaited(c) /\ s = c.by THEN x ELSE request[s]
    BY <1>1, <1>3
  <1>6. /\ queue' \in [Instances -> Seq(Command)] /\ Attended' /\ Named'
        /\ \A j \in Instances : Writes(j) = {} => Writes(j)' = {}
    <2>1. \A s \in Requests : request'[s] = request[s] \/ (s = c.by /\ request[s].stage # "done")
      BY <1>5 DEF Awaited, Done
    <2> QED BY <1>1, <2>1, HeadGone
  <1> HIDE DEF c
  <1>7. TypeOK'
    <2>1. /\ up' \subseteq Instances /\ run' \in [Instances -> 1..MaxRuns]
          /\ record' \in [Instances -> {"none", "live", "ended"}] /\ creates' \in 0..MaxCreates
          /\ entry' \in Owners \cup {Nobody}
          /\ creators' \subseteq Instances /\ faulty' \in BOOLEAN /\ steady' \subseteq Requests
      BY <1>1 DEF FoundInv, TypeOK
    <2>2. request' \in [Requests -> Stands]
      BY <1>1, <1>2, <1>3, <1>4
    <2>3. \A s \in Requests : request'[s].stage \in {"asking", "found", "claiming", "claimed"}
                                => request'[s].at \in up'
      BY <1>1, <1>4, <1>5 DEF FoundInv, TypeOK, At
    <2> QED BY <1>6, <2>1, <2>2, <2>3 DEF TypeOK, Stands, At
  <1>8. Holders'
    BY <1>1, <1>6 DEF FoundInv, Holders
  <1>9. Direct' /\ Steady'
    BY <1>1, <1>4, <1>5 DEF FoundInv, Direct, Steady
  <1> QED BY <1>6, <1>7, <1>8, <1>9 DEF FoundInv

LEMMA CrashFound ==
    ASSUME FoundInv, NEW i \in Instances, Crash(i)
    PROVE  FoundInv'
  <1> DEFINE Lost(r) == /\ request[r].stage \notin {"idle", "done"}
                        /\ i \in request[r].via \/ (At(r) = i /\ request[r].stage # "moving")
  <1>1. /\ up' = up \ {i} /\ record' = [record EXCEPT ![i] = "none"]
        /\ queue' = [queue EXCEPT ![i] = <<>>] /\ UNCHANGED <<run, entry, creates, creators>>
        /\ faulty' = TRUE /\ steady' = {}
        /\ request' = [r \in Requests |-> IF Lost(r) THEN Closed(r, "lost") ELSE request[r]]
    BY DEF Crash
  <1>2. request \in [Requests -> Stands]
    BY DEF FoundInv, TypeOK, Stands
  <1>3. \A r \in Requests : Closed(r, "lost") \in Stands /\ Closed(r, "lost").stage = "done"
    <2> TAKE r \in Requests
    <2>1. request[r].via \in SUBSET Instances
      BY <1>2 DEF Stands
    <2> QED BY <2>1 DEF Closed, Fresh, Stands, Kinds, Answers
  <1>4. \A r \in Requests : \/ request'[r].stage = "done"
                            \/ request'[r] = request[r] /\ ~Lost(r)
    BY <1>1, <1>3
  <1>5. request' \in [Requests -> Stands]
    BY <1>1, <1>2, <1>3
  <1>6. /\ queue' \in [Instances -> Seq(Command)]
        /\ \A k \in Instances : queue'[k] = IF k = i THEN <<>> ELSE queue[k]
        /\ \A k \in Instances : record'[k] = IF k = i THEN "none" ELSE record[k]
    BY <1>1 DEF FoundInv, TypeOK
  <1>7. TypeOK'
    <2>1. /\ up' \subseteq Instances /\ run' \in [Instances -> 1..MaxRuns]
          /\ record' \in [Instances -> {"none", "live", "ended"}] /\ creates' \in 0..MaxCreates
          /\ entry' \in Owners \cup {Nobody}
          /\ creators' \subseteq Instances /\ faulty' \in BOOLEAN /\ steady' \subseteq Requests
      BY <1>1 DEF FoundInv, TypeOK
    <2>2. ASSUME NEW s \in Requests,
                 request'[s].stage \in {"asking", "found", "claiming", "claimed"}
          PROVE  request'[s].at \in up'
      <3>1. request'[s] = request[s] /\ ~Lost(s)
        BY <1>4, <2>2
      <3>2. request[s].at \in up /\ request[s].at # i
        BY <2>2, <3>1 DEF FoundInv, TypeOK, At
      <3> QED BY <1>1, <3>1, <3>2
    <2> QED BY <1>5, <1>6, <2>1, <2>2 DEF TypeOK, Stands, At
  <1> HIDE DEF Lost
  <1>8. 1..Len(<<>>) = {}
    OBVIOUS
  <1>9. Attended'
    <2> SUFFICES ASSUME NEW k \in Instances, NEW r \in Requests
                 PROVE  Fine(queue'[k], k, request'[r], r)
      BY DEF Attended
    <2>1. Fine(queue[k], k, request[r], r)
      BY DEF FoundInv, Attended
    <2>2. CASE k = i
      <3>1. queue'[k] = <<>>
        BY <1>6, <2>2
      <3> QED BY <1>8, <3>1 DEF Fine
    <2>3. CASE request'[r].stage = "done"
      BY <2>3 DEF Fine
    <2>4. CASE k # i /\ request'[r] = request[r]
      BY <1>6, <2>1, <2>4
    <2> QED BY <1>4, <2>2, <2>3, <2>4
  <1>10. Named'
    <2>1. \A k \in Instances : NamedIn(queue[k]) /\ NamedIn(<<>>)
      BY <1>8 DEF FoundInv, Named, NamedIn
    <2>2. \A k \in Instances : NamedIn(queue'[k])
      BY <1>6, <2>1
    <2> QED BY <2>2 DEF Named
  <1>11. Holders'
    <2>1. \A j \in Instances : Writes(j) = {} => Writes(j)' = {}
      <3>1. \A j \in Instances : Writes(j) = WritesIn(queue[j]) /\ Writes(j)' = WritesIn(queue'[j])
        BY DEF Writes, WritesIn
      <3>2. WritesIn(<<>>) = {}
        BY <1>8 DEF WritesIn
      <3> QED BY <1>6, <3>1, <3>2
    <2> QED BY <1>1, <1>6, <2>1 DEF FoundInv, Holders
  <1>12. Direct' /\ Steady'
    BY <1>1, <1>4 DEF FoundInv, Direct, Steady
  <1> QED BY <1>7, <1>9, <1>10, <1>11, <1>12 DEF FoundInv

(* The process that comes up holds no meeting and has nothing queued.      *)
LEMMA RestartFound ==
    ASSUME FoundInv, NEW i \in Instances, Restart(i)
    PROVE  FoundInv'
  <1>1. /\ i \notin up /\ run[i] < MaxRuns /\ up' = up \cup {i}
        /\ run' = [run EXCEPT ![i] = @ + 1]
        /\ UNCHANGED <<record, entry, queue, request, creates, creators, faulty, steady>>
    BY DEF Restart, historyVars
  <1>2. TypeOK'
    <2>1. run' \in [Instances -> 1..MaxRuns]
      BY <1>1, BoundsAssumption DEF FoundInv, TypeOK
    <2> QED BY <1>1, <2>1 DEF FoundInv, TypeOK, At
  <1>3. Attended' /\ Named' /\ Holders' /\ Direct'
    BY <1>1 DEF FoundInv, Attended, Named, Holders, Writes, Direct
  <1>4. Steady'
    <2> SUFFICES ASSUME NEW s \in steady
                 PROVE  \E h \in Instances : /\ creators = {h} /\ record[h] = "live"
                                             /\ CourseOf(request[s], h, Listed(h)')
      BY <1>1 DEF Steady
    <2>1. PICK h \in Instances : /\ creators = {h} /\ record[h] = "live"
                                 /\ CourseOf(request[s], h, Listed(h))
      BY DEF FoundInv, Steady
    <2>2. h # i
      BY <1>1, <2>1 DEF FoundInv, Holders
    <2>3. Listed(h)' <=> Listed(h)
      <3>1. run'[h] = run[h]
        BY <1>1, <2>2 DEF FoundInv, TypeOK
      <3> QED BY <1>1, <3>1 DEF Listed, Self
    <2> QED BY <2>1, <2>3 DEF CourseOf
  <1> QED BY <1>2, <1>3, <1>4 DEF FoundInv

LEMMA ExpireFound == FoundInv /\ Expire => FoundInv'
  <1> SUFFICES ASSUME FoundInv, Expire PROVE FoundInv'
    OBVIOUS
  <1>1. /\ entry' = Nobody /\ steady' = {} /\ faulty' = TRUE
        /\ UNCHANGED <<up, run, record, queue, request, creates, creators>>
    BY DEF Expire
  <1>2. TypeOK'
    BY <1>1 DEF FoundInv, TypeOK, At
  <1>3. Attended' /\ Named' /\ Holders' /\ Direct' /\ Steady'
    BY <1>1 DEF FoundInv, Attended, Named, Holders, Writes, Direct, Steady
  <1> QED BY <1>2, <1>3 DEF FoundInv

LEMMA StutterFound == FoundInv /\ UNCHANGED vars => FoundInv'
  <1> SUFFICES ASSUME FoundInv, UNCHANGED vars PROVE FoundInv'
    OBVIOUS
  <1>1. UNCHANGED <<up, run, record, entry, queue, request, creates, creators, faulty, steady>>
    BY DEF vars, historyVars
  <1>2. TypeOK' /\ Attended' /\ Named' /\ Holders' /\ Direct'
    BY <1>1 DEF FoundInv, TypeOK, At, Attended, Named, Holders, Writes, Direct
  <1>3. Steady'
    BY <1>1 DEF FoundInv, Steady, Listed, Self
  <1> QED BY <1>2, <1>3 DEF FoundInv

LEMMA NextFound == FoundInv /\ [Next]_vars => FoundInv'
  <1> SUFFICES ASSUME FoundInv, [Next]_vars PROVE FoundInv'
    OBVIOUS
  <1>1. ASSUME NEW i \in Instances, Create(i) PROVE FoundInv'
    BY <1>1, CreateFound
  <1>2. ASSUME NEW i \in Instances, EndBySocket(i) PROVE FoundInv'
    <2>1. /\ record[i] # "none" /\ EndsAs(i, "ended")
          /\ UNCHANGED <<up, run, entry, request, creates, creators, faulty>>
      BY <1>2 DEF EndBySocket
    <2>2. request' \in [Requests -> Stands]
      BY <2>1 DEF FoundInv, TypeOK, Stands
    <2> QED BY <2>1, <2>2, EndFound
  <1>3. ASSUME NEW i \in Instances, RedisRuns(i) PROVE FoundInv'
    BY <1>3, RedisRunsFound
  <1>4. ASSUME NEW i \in Instances, RedisFails(i) PROVE FoundInv'
    BY <1>4, RedisFailsFound
  <1>5. ASSUME NEW i \in Instances, Crash(i) PROVE FoundInv'
    BY <1>5, CrashFound
  <1>6. ASSUME NEW i \in Instances, Restart(i) PROVE FoundInv'
    BY <1>6, RestartFound
  <1>7. ASSUME NEW r \in Requests, Continue(r) PROVE FoundInv'
    BY <1>7, JoinFound, RestFound DEF Continue
  <1>8. ASSUME NEW r \in Requests, Arrive(r) PROVE FoundInv'
    BY <1>8, ArriveFound
  <1>9. ASSUME NEW r \in Requests, NEW i \in Instances, NEW kind \in Asks[r], Ask(r, i, kind)
        PROVE  FoundInv'
    BY <1>9, AskFound
  <1>10. CASE Expire
    BY <1>10, ExpireFound
  <1>11. CASE UNCHANGED vars
    BY <1>11, StutterFound
  <1> QED BY <1>1, <1>2, <1>3, <1>4, <1>5, <1>6, <1>7, <1>8, <1>9, <1>10, <1>11 DEF Next

LEMMA AlwaysFound == Spec => []FoundInv
  BY InitFound, NextFound, PTL DEF Spec

(* The types, and that a request in work is at an instance that runs,      *)
(* whatever crashes and restarts: no request outlives the process that     *)
(* works on it.                                                            *)
THEOREM DirectoryTypes == Spec => []TypeOK
  <1>1. FoundInv => TypeOK
    BY DEF FoundInv
  <1> QED BY <1>1, AlwaysFound, PTL

(* A join for a live meeting that only one instance ever created, made at  *)
(* that instance or after the meeting was listed, gets in, directly or by  *)
(* the redirect, and a REST request made at that instance is served,       *)
(* whatever other requests, claims and restarts do meanwhile.  Of requests *)
(* that were forwarded it says nothing.                                    *)
THEOREM LiveIsFound == Spec => []LiveMeetingIsFound
  <1>1. FoundInv => LiveMeetingIsFound
    BY DEF FoundInv, Steady, CourseOf, LiveMeetingIsFound, Done, Authorized
  <1> QED BY <1>1, AlwaysFound, PTL
----------------------------------------------------------------------------
(* No request is forgotten: what a request waits for stays queued where it *)
(* stands until it is answered.                                            *)

Waits(x)      == x.stage \in {"asking", "claiming"}
QueuedIn(q, r) == \E k \in 1..Len(q) : q[k].by = r
Kept(r)       == Waits(request[r]) => QueuedIn(queue[request[r].at], r)

LEMMA NotForgottenByParts == NoRequestIsForgotten <=> \A r \in Requests : Kept(r)
  BY DEF NoRequestIsForgotten, Kept, Waits, QueuedIn, At

LEMMA QueuedAppend ==
    ASSUME NEW q \in Seq(Command), NEW c \in Command, NEW r, QueuedIn(q, r) \/ c.by = r
    PROVE  QueuedIn(Append(q, c), r)
  <1> DEFINE p == Append(q, c)
  <1>1. /\ Len(p) = Len(q) + 1 /\ p[Len(q) + 1] = c /\ Len(q) \in Nat
        /\ \A k \in 1..Len(q) : p[k] = q[k]
    OBVIOUS
  <1> HIDE DEF p
  <1>2. QueuedIn(p, r)
    BY <1>1 DEF QueuedIn
  <1> QED BY <1>2 DEF p

LEMMA QueuedTail ==
    ASSUME NEW q \in Seq(Command), q # <<>>, NEW r, QueuedIn(q, r), Head(q).by # r
    PROVE  QueuedIn(Tail(q), r)
  <1> DEFINE t == Tail(q)
  <1>1. /\ Len(t) = Len(q) - 1 /\ Len(q) \in Nat /\ \A k \in 1..Len(t) : t[k] = q[k + 1]
        /\ Head(q) = q[1]
    OBVIOUS
  <1> HIDE DEF t
  <1>2. PICK k \in 1..Len(q) : q[k].by = r
    BY DEF QueuedIn
  <1>3. k \in Nat /\ k # 1 /\ k - 1 \in 1..Len(t) /\ (k - 1) + 1 = k
    BY <1>1, <1>2
  <1>4. QueuedIn(t, r)
    BY <1>1, <1>2, <1>3 DEF QueuedIn
  <1> QED BY <1>4 DEF t

(* A step that adds to the queues at most, and leaves the request alone or *)
(* lets it wait only for what it queues.                                   *)
LEMMA KeptBySending ==
    ASSUME TypeOK, NEW r \in Requests, Kept(r), NEW i \in Instances, NEW c \in Command,
           queue' = queue \/ queue' = [queue EXCEPT ![i] = Append(@, c)],
           \/ request'[r] = request[r] \/ ~Waits(request'[r])
           \/ request'[r].at = i /\ c.by = r /\ queue' # queue
    PROVE  Kept(r)'
  <1>1. \A k \in Instances : queue[k] \in Seq(Command)
    BY DEF TypeOK
  <1>2. \A k \in Instances : QueuedIn(queue[k], r) => QueuedIn(queue'[k], r)
    <2> TAKE k \in Instances
    <2>1. QueuedIn(queue[k], r) => QueuedIn(Append(queue[k], c), r)
      BY <1>1, QueuedAppend
    <2>2. queue'[k] = queue[k] \/ queue'[k] = Append(queue[k], c)
      BY DEF TypeOK
    <2> QED BY <2>1, <2>2
  <1>3. CASE ~Waits(request'[r])
    BY <1>3 DEF Kept
  <1>4. CASE request'[r] = request[r] /\ Waits(request[r])
    <2>1. request[r].at \in Instances
      <3>1. request[r].at \in up
        BY <1>4 DEF TypeOK, At, Waits
      <3> QED BY <3>1 DEF TypeOK
    <2>2. QueuedIn(queue'[request'[r].at], r)
      BY <1>2, <1>4, <2>1 DEF Kept
    <2> QED BY <2>2 DEF Kept
  <1>5. CASE request'[r].at = i /\ c.by = r /\ queue' # queue
    <2>1. queue'[i] = Append(queue[i], c)
      BY <1>5 DEF TypeOK
    <2>2. QueuedIn(Append(queue[i], c), r)
      BY <1>1, <1>5, QueuedAppend
    <2>3. QueuedIn(queue'[request'[r].at], r)
      BY <1>5, <2>1, <2>2
    <2> QED BY <2>3 DEF Kept
  <1> QED BY <1>3, <1>4, <1>5

(* A command leaves its queue together with the wait for it.               *)
LEMMA KeptByRedis ==
    ASSUME TypeOK, NEW r \in Requests, Kept(r), NEW i \in Instances, queue[i] # <<>>,
           queue' = [queue EXCEPT ![i] = Tail(@)],
           Head(queue[i]).by = r => ~Waits(request'[r]),
           Head(queue[i]).by # r => request'[r] = request[r]
    PROVE  Kept(r)'
  <1> SUFFICES ASSUME Waits(request'[r]) PROVE QueuedIn(queue'[request'[r].at], r)
    BY DEF Kept
  <1>1. request'[r] = request[r] /\ Head(queue[i]).by # r
    OBVIOUS
  <1>2. QueuedIn(queue[request[r].at], r)
    BY <1>1 DEF Kept
  <1>3. /\ request[r].at \in Instances /\ queue[i] \in Seq(Command)
        /\ \A k \in Instances : queue'[k] = IF k = i THEN Tail(queue[k]) ELSE queue[k]
    <2>1. request[r].at \in up
      BY <1>1 DEF TypeOK, At, Waits
    <2> QED BY <2>1 DEF TypeOK
  <1>4. CASE request[r].at = i
    BY <1>1, <1>2, <1>3, <1>4, QueuedTail
  <1>5. CASE request[r].at # i
    BY <1>1, <1>2, <1>3, <1>5
  <1> QED BY <1>4, <1>5

LEMMA KeptByContinue ==
    ASSUME TypeOK, NEW r \in Requests, Kept(r), NEW s \in Requests, Continue(s)
    PROVE  Kept(r)'
  <1>1. request[s].stage \in {"found", "claimed"}
    BY DEF Continue, JoinContinues, RestContinues
  <1>2. At(s) \in Instances
    BY <1>1 DEF TypeOK
  <1>3. request \in [Requests -> Stands]
    BY DEF TypeOK, Stands
  <1>4. ASSUME NEW x, request' = [request EXCEPT ![s] = x], ~Waits(x)
        PROVE  request'[r] = request[r] \/ ~Waits(request'[r])
    BY <1>3, <1>4
  <1> DEFINE clear == [op |-> "clear", by |-> Nobody]
             claim == [op |-> "claim", by |-> s]
  <1>5. clear \in Command /\ claim \in Command /\ claim.by = s
    BY DEF Command
  <1>6. ASSUME NEW reply PROVE ~Waits(Closed(s, reply))
    BY DEF Waits, Closed, Fresh
  <1>7. ASSUME NEW via, request' = MovedOn(s, via)
        PROVE  request'[r] = request[r] \/ ~Waits(request'[r])
    BY <1>3, <1>7 DEF MovedOn, Fresh, Waits
  <1>8. CASE JoinRedirected(s)
    BY <1>2, <1>5, <1>7, <1>8, KeptBySending DEF JoinRedirected
  <1>9. CASE JoinClaims(s)
    <2>1. queue' = [queue EXCEPT ![At(s)] = Append(@, claim)]
      BY <1>9 DEF JoinClaims, Sent
    <2>2. r # s => request'[r] = request[r]
      BY <1>3, <1>9 DEF JoinClaims, Moved
    <2>3. r = s => request'[r].at = At(s) /\ queue' # queue
      <3>1. request'[s].at = At(s)
        BY <1>3, <1>9 DEF JoinClaims, Moved, At, Stands
      <3>2. queue'[At(s)] = Append(queue[At(s)], claim) /\ queue[At(s)] \in Seq(Command)
        BY <1>2, <2>1 DEF TypeOK
      <3>3. \A q \in Seq(Command) : Append(q, claim) # q
        <4> TAKE q \in Seq(Command)
        <4>1. Len(Append(q, claim)) = Len(q) + 1 /\ Len(q) \in Nat
          BY <1>5
        <4> QED BY <4>1
      <3> QED BY <3>1, <3>2, <3>3
    <2> HIDE DEF claim
    <2> QED BY <1>2, <1>5, <2>1, <2>2, <2>3, KeptBySending
  <1>10. CASE JoinLocally(s)
    <2>1. PICK reply : request' = [request EXCEPT ![s] = Closed(s, reply)]
      BY <1>10 DEF JoinLocally, Answered
    <2>2. request'[r] = request[r] \/ ~Waits(request'[r])
      BY <1>4, <1>6, <2>1
    <2> QED BY <1>2, <1>5, <1>10, <2>2, KeptBySending DEF JoinLocally
  <1>11. CASE RestContinues(s)
    <2>1. CASE Foreign(At(s), request[s].found)
      BY <1>2, <1>5, <1>7, <1>11, <2>1, KeptBySending DEF RestContinues
    <2>2. CASE ~Foreign(At(s), request[s].found)
      <3>1. Handle(s)
        BY <1>11, <2>2 DEF RestContinues
      <3>2. queue' = queue \/ queue' = [queue EXCEPT ![At(s)] = Append(@, clear)]
        BY <3>1 DEF Handle, EndsAs, Sent
      <3>3. \E reply : request' = [request EXCEPT ![s] = Closed(s, reply)]
        BY <3>1 DEF Handle, Answered
      <3>4. request'[r] = request[r] \/ ~Waits(request'[r])
        BY <1>4, <1>6, <3>3
      <3> HIDE DEF clear
      <3> QED BY <1>2, <1>5, <3>2, <3>4, KeptBySending
    <2> QED BY <2>1, <2>2
  <1> QED BY <1>8, <1>9, <1>10, <1>11 DEF Continue, JoinContinues

LEMMA KeptByLookup ==
    ASSUME TypeOK, NEW r \in Requests, Kept(r), NEW s \in Requests, NEW i \in Instances,
           queue' = Sent(i, "get", s), NEW x, request' = [request EXCEPT ![s] = x], x.at = i
    PROVE  Kept(r)'
  <1> DEFINE get == [op |-> "get", by |-> s]
  <1>1. get \in Command /\ get.by = s /\ queue' = [queue EXCEPT ![i] = Append(@, get)]
    BY DEF Command, Sent
  <1>2. \A q \in Seq(Command) : Append(q, get) # q
    <2> TAKE q \in Seq(Command)
    <2>1. Len(Append(q, get)) = Len(q) + 1 /\ Len(q) \in Nat
      BY <1>1
    <2> QED BY <2>1
  <1> HIDE DEF get
  <1>3. queue' # queue
    <2>1. queue'[i] = Append(queue[i], get) /\ queue[i] \in Seq(Command)
      BY <1>1 DEF TypeOK
    <2> QED BY <1>2, <2>1
  <1>4. request'[r] = IF r = s THEN x ELSE request[r]
    BY DEF TypeOK
  <1> QED BY <1>1, <1>3, <1>4, KeptBySending

LEMMA KeptByCrash ==
    ASSUME TypeOK, NEW r \in Requests, Kept(r), NEW i \in Instances, Crash(i)
    PROVE  Kept(r)'
  <1> SUFFICES ASSUME Waits(request'[r]) PROVE QueuedIn(queue'[request'[r].at], r)
    BY DEF Kept
  <1>1. request'[r] = request[r] /\ request[r].at # i
    BY DEF Crash, Waits, Closed, Fresh, At
  <1>2. request[r].at \in Instances
    <2>1. request[r].at \in up
      BY <1>1 DEF TypeOK, At, Waits
    <2> QED BY <2>1 DEF TypeOK
  <1>3. queue'[request[r].at] = queue[request[r].at]
    BY <1>1, <1>2 DEF Crash, TypeOK
  <1> QED BY <1>1, <1>3 DEF Kept

LEMMA KeptStep ==
    ASSUME FoundInv, NEW r \in Requests, Kept(r), [Next]_vars
    PROVE  Kept(r)'
  <1>t. TypeOK /\ request \in [Requests -> Stands]
    BY DEF FoundInv, TypeOK, Stands
  <1>1. ASSUME NEW i \in Instances, Create(i) \/ EndBySocket(i) PROVE Kept(r)'
    <2>1. PICK op \in {"set", "clear"} : queue' = Sent(i, op, Nobody)
      BY <1>1 DEF Create, EndBySocket, EndsAs
    <2> DEFINE c == [op |-> op, by |-> Nobody]
    <2>2. c \in Command /\ queue' = [queue EXCEPT ![i] = Append(@, c)]
      BY <2>1 DEF Command, Sent
    <2>3. request' = request
      BY <1>1 DEF Create, EndBySocket
    <2> HIDE DEF c
    <2> QED BY <1>t, <2>2, <2>3, KeptBySending
  <1>2. ASSUME NEW i \in Instances, RedisRuns(i) PROVE Kept(r)'
    <2> DEFINE c == Head(queue[i])
    <2>1. /\ queue[i] # <<>> /\ queue' = [queue EXCEPT ![i] = Tail(@)]
          /\ request' = IF ~Awaited(c) THEN request
                        ELSE IF c.op = "claim" THEN Moved(c.by, "claimed")
                        ELSE [request EXCEPT ![c.by].stage = "found", ![c.by].found = entry]
      BY <1>2 DEF RedisRuns
    <2>2. c.by = r => ~Waits(request'[r])
      <3>1. CASE Awaited(c)
        BY <1>t, <2>1, <3>1 DEF Moved, Waits, Stands
      <3>2. CASE ~Awaited(c)
        BY <2>1, <3>2, NobodyAssumption DEF Awaited, Done, Waits
      <3> QED BY <3>1, <3>2
    <2>3. c.by # r => request'[r] = request[r]
      <3>1. CASE Awaited(c)
        BY <1>t, <2>1, <3>1 DEF Moved
      <3>2. CASE ~Awaited(c)
        BY <2>1, <3>2
      <3> QED BY <3>1, <3>2
    <2> QED BY <1>t, <2>1, <2>2, <2>3, KeptByRedis
  <1>3. ASSUME NEW i \in Instances, RedisFails(i) PROVE Kept(r)'
    <2> DEFINE c == Head(queue[i])
    <2>1. /\ queue[i] # <<>> /\ queue' = [queue EXCEPT ![i] = Tail(@)]
          /\ request' = IF Awaited(c) THEN Answered(c.by, "error") ELSE request
      BY <1>3 DEF RedisFails
    <2>2. c.by = r => ~Waits(request'[r])
      BY <1>t, <2>1, NobodyAssumption DEF Awaited, Done, Waits, Answered, Closed, Fresh
    <2>3. c.by # r => request'[r] = request[r]
      BY <1>t, <2>1 DEF Answered
    <2> QED BY <1>t, <2>1, <2>2, <2>3, KeptByRedis
  <1>4. ASSUME NEW i \in Instances, Crash(i) PROVE Kept(r)'
    BY <1>t, <1>4, KeptByCrash
  <1>5. ASSUME NEW s \in Requests, Continue(s) PROVE Kept(r)'
    BY <1>t, <1>5, KeptByContinue
  <1>6. ASSUME NEW s \in Requests, Arrive(s) PROVE Kept(r)'
    <2>1. CASE Reached(s)
      <3> DEFINE x == [request[s] EXCEPT !.stage = "asking"]
      <3>1. At(s) \in Instances /\ x.at = At(s)
        BY <1>t, <2>1 DEF Reached, TypeOK, At, Stands
      <3>2. queue' = Sent(At(s), "get", s) /\ request' = [request EXCEPT ![s] = x]
        BY <1>6, <2>1 DEF Arrive, Moved
      <3> HIDE DEF x
      <3> QED BY <1>t, <3>1, <3>2, KeptByLookup
    <2>2. CASE ~Reached(s)
      <3>1. queue' = queue /\ request' = Answered(s, "unreachable")
        BY <1>6, <2>2 DEF Arrive
      <3>2. request'[r] = request[r] \/ ~Waits(request'[r])
        BY <1>t, <3>1 DEF Answered, Closed, Fresh, Waits
      <3> QED BY <3>1, <3>2 DEF Kept
    <2> QED BY <2>1, <2>2
  <1>7. ASSUME NEW s \in Requests, NEW i \in Instances, NEW kind \in Asks[s], Ask(s, i, kind)
        PROVE  Kept(r)'
    <2> DEFINE x == [Fresh EXCEPT !.stage = "asking", !.kind = kind, !.at = i]
    <2>1. x.at = i /\ queue' = Sent(i, "get", s) /\ request' = [request EXCEPT ![s] = x]
      BY <1>7 DEF Ask, Fresh
    <2> HIDE DEF x
    <2> QED BY <1>t, <2>1, KeptByLookup
  <1>8. CASE (\E i \in Instances : Restart(i)) \/ Expire \/ UNCHANGED vars
    BY <1>8 DEF Restart, Expire, vars, Kept
  <1> QED BY <1>1, <1>2, <1>3, <1>4, <1>5, <1>6, <1>7, <1>8 DEF Next

(* A request that waits for Redis still has its command in a queue that    *)
(* somebody serves: what RequestsAreAnswered needs of every state.         *)
THEOREM RequestsAreRemembered == Spec => []NoRequestIsForgotten
  <1>1. Init => NoRequestIsForgotten
    BY DEF Init, NoRequestIsForgotten, Fresh
  <1>2. FoundInv /\ NoRequestIsForgotten /\ [Next]_vars => NoRequestIsForgotten'
    <2> SUFFICES ASSUME FoundInv, \A r \in Requests : Kept(r), [Next]_vars
                 PROVE  \A r \in Requests : Kept(r)'
      BY NotForgottenByParts DEF Kept, NoRequestIsForgotten, Waits, QueuedIn, At
    <2> QED BY KeptStep
  <1> QED BY <1>1, <1>2, AlwaysFound, PTL DEF Spec

----------------------------------------------------------------------------
(* Hops lead home.                                                         *)

(* An owner that the directory names, or named when a request asked, used  *)
(* the id; with fixed ids every process of it goes by that name.           *)
Names(o) ==
    o # Nobody => o.url \in creators /\ (FixedIds => o = [url |-> o.url, run |-> 0])
OwnersAreCreators == Names(entry) /\ \A r \in Requests : Names(request[r].found)

LEMMA NamesStep ==
    ASSUME FoundInv, OwnersAreCreators, [Next]_vars
    PROVE  OwnersAreCreators'
  <1>t. /\ TypeOK /\ request \in [Requests -> Stands] /\ ~(Nobody \in Owners)
        /\ Names(Nobody) /\ Fresh.found = Nobody
    BY NobodyAssumption DEF FoundInv, TypeOK, Stands, Names, Fresh
  <1>c. creators \subseteq creators'
    BY DEF Next, vars, historyVars, Create, EndBySocket, RedisRuns, RedisFails, Crash, Restart,
           Continue, JoinContinues, JoinRedirected, JoinClaims, JoinLocally, RestContinues,
           Arrive, Ask, Expire
  <1>e. Names(entry)'
    <2>1. CASE entry' = entry
      BY <1>c, <2>1 DEF OwnersAreCreators, Names
    <2>2. CASE entry' = Nobody
      BY <2>2 DEF Names
    <2>3. ASSUME NEW i \in Instances, RedisRuns(i) PROVE Names(entry)'
      <3>1. CASE Head(queue[i]).op \in {"set", "claim"}
        <4>1. entry' = Self(i) /\ Self(i).url = i /\ i \in creators
          BY <2>3, <3>1, HeadIsAwaited DEF RedisRuns, Self
        <4> QED BY <1>c, <4>1 DEF Names, Self
      <3>2. CASE Head(queue[i]).op \in {"get", "clear"}
        BY <2>1, <2>2, <2>3, <3>2 DEF RedisRuns
      <3> QED BY <2>3, <3>1, <3>2, HeadIsAwaited DEF RedisRuns, Command
    <2>4. CASE \A i \in Instances : ~RedisRuns(i)
      BY <2>1, <2>2, <2>4 DEF Next, vars, historyVars, Create, EndBySocket, RedisFails, Crash, Restart,
           Continue, JoinContinues, JoinRedirected, JoinClaims, JoinLocally, RestContinues,
           Arrive, Ask, Expire
    <2> QED BY <2>3, <2>4
  <1>f. ASSUME NEW r \in Requests PROVE request'[r].found \in {request[r].found, entry, Nobody}
    <2>1. ASSUME NEW s \in Requests, NEW x, request' = [request EXCEPT ![s] = x],
                 x.found \in {request[s].found, entry, Nobody}
          PROVE  request'[r].found \in {request[r].found, entry, Nobody}
      BY <1>t, <2>1
    <2>2. \A s \in Requests : \A reply : Closed(s, reply).found = Nobody
      BY DEF Closed, Fresh
    <2>3. \A s \in Requests : \A stage : [request[s] EXCEPT !.stage = stage].found = request[s].found
      BY <1>t DEF Stands
    <2>4. CASE request' = request
      BY <2>4
    <2>5. ASSUME NEW s \in Requests, NEW reply, request' = Answered(s, reply)
          PROVE  request'[r].found \in {request[r].found, entry, Nobody}
      BY <2>1, <2>2, <2>5 DEF Answered
    <2>6. ASSUME NEW s \in Requests, NEW stage, request' = Moved(s, stage)
          PROVE  request'[r].found \in {request[r].found, entry, Nobody}
      BY <2>1, <2>3, <2>6 DEF Moved
    <2>7. ASSUME NEW s \in Requests, NEW via, request' = MovedOn(s, via)
          PROVE  request'[r].found \in {request[r].found, entry, Nobody}
      BY <2>1, <2>7 DEF MovedOn, Fresh
    <2>8. ASSUME NEW i \in Instances, RedisRuns(i) \/ RedisFails(i)
          PROVE  request'[r].found \in {request[r].found, entry, Nobody}
      <3> DEFINE c == Head(queue[i])
      <3>1. Awaited(c) => c.by \in Requests
        BY <2>8, HeadIsAwaited DEF RedisRuns, RedisFails
      <3>2. CASE RedisFails(i)
        BY <2>4, <2>5, <3>1, <3>2 DEF RedisFails
      <3>3. CASE RedisRuns(i) /\ (~Awaited(c) \/ c.op = "claim")
        BY <2>4, <2>6, <3>1, <3>3 DEF RedisRuns
      <3>4. CASE RedisRuns(i) /\ Awaited(c) /\ c.op # "claim"
        <4> DEFINE x == [request[c.by] EXCEPT !.stage = "found", !.found = entry]
        <4>1. request' = [request EXCEPT ![c.by] = x]
          BY <3>4 DEF RedisRuns
        <4>2. x.found = entry
          BY <1>t, <3>1, <3>4 DEF Stands
        <4> HIDE DEF x, c
        <4> QED BY <2>1, <3>1, <3>4, <4>1, <4>2
      <3> QED BY <2>8, <3>2, <3>3, <3>4
    <2>9. ASSUME NEW s \in Requests, Continue(s) \/ Arrive(s)
          PROVE  request'[r].found \in {request[r].found, entry, Nobody}
      BY <2>5, <2>6, <2>7, <2>9 DEF Continue, JoinContinues, JoinRedirected, JoinClaims,
         JoinLocally, RestContinues, Handle, Arrive
    <2>10. ASSUME NEW s \in Requests, NEW i \in Instances, NEW kind \in Asks[s], Ask(s, i, kind)
           PROVE  request'[r].found \in {request[r].found, entry, Nobody}
      BY <2>1, <2>10 DEF Ask, Fresh
    <2>11. ASSUME NEW i \in Instances, Crash(i)
           PROVE  request'[r].found \in {request[r].found, entry, Nobody}
      BY <2>2, <2>11 DEF Crash
    <2> QED BY <2>4, <2>8, <2>9, <2>10, <2>11
          DEF Next, vars, Create, EndBySocket, Restart, Expire
  <1>r. ASSUME NEW r \in Requests PROVE Names(request[r].found)'
    <2>1. Names(request[r].found) /\ Names(entry) /\ Names(Nobody)
      BY <1>t DEF OwnersAreCreators
    <2>2. request'[r].found \in {request[r].found, entry, Nobody}
      BY <1>f
    <2> QED BY <1>c, <2>1, <2>2 DEF Names
  <1> QED BY <1>e, <1>r DEF OwnersAreCreators

LEMMA HopLeadsHome ==
    ASSUME FoundInv, OwnersAreCreators, Next, NEW r \in Requests, NEW h \in Instances,
           FixedIds, SoleCreator(h), Hops(r)
    PROVE  At(r) # h /\ request'[r].at = h
  <1>t. request \in [Requests -> Stands]
    BY DEF FoundInv, TypeOK, Stands
  <1>1. \A s \in Requests : \A reply : Closed(s, reply).stage # "moving"
    BY DEF Closed, Fresh
  <1>2. ASSUME NEW s \in Requests, NEW x, request' = [request EXCEPT ![s] = x],
               x.stage # "moving"
        PROVE  FALSE
    BY <1>t, <1>2 DEF Hops
  <1>3. request' # request
    BY DEF Hops
  <1>4. ASSUME NEW s \in Requests, NEW reply, request' = Answered(s, reply) PROVE FALSE
    BY <1>1, <1>2, <1>4 DEF Answered
  <1>5. ASSUME NEW s \in Requests, NEW stage, request' = Moved(s, stage), stage # "moving"
        PROVE  FALSE
    <2>1. [request[s] EXCEPT !.stage = stage].stage = stage
      BY <1>t DEF Stands
    <2> QED BY <1>2, <1>5, <2>1 DEF Moved
  <1>6. ASSUME NEW i \in Instances, RedisRuns(i) \/ RedisFails(i) PROVE FALSE
    <2> DEFINE c == Head(queue[i])
    <2>1. Awaited(c) => c.by \in Requests
      BY <1>6, HeadIsAwaited DEF RedisRuns, RedisFails
    <2>2. CASE RedisFails(i)
      BY <1>3, <1>4, <2>1, <2>2 DEF RedisFails
    <2>3. CASE RedisRuns(i) /\ (~Awaited(c) \/ c.op = "claim")
      BY <1>3, <1>5, <2>1, <2>3 DEF RedisRuns
    <2>4. CASE RedisRuns(i) /\ Awaited(c) /\ c.op # "claim"
      <3> DEFINE x == [request[c.by] EXCEPT !.stage = "found", !.found = entry]
      <3>1. request' = [request EXCEPT ![c.by] = x]
        BY <2>4 DEF RedisRuns
      <3>2. x.stage = "found"
        BY <1>t, <2>1, <2>4 DEF Stands
      <3> HIDE DEF x, c
      <3> QED BY <1>2, <2>1, <2>4, <3>1, <3>2
    <2> QED BY <1>6, <2>2, <2>3, <2>4
  <1>7. ASSUME NEW s \in Requests, NEW i \in Instances, NEW kind \in Asks[s], Ask(s, i, kind)
        PROVE  FALSE
    <2> DEFINE x == [Fresh EXCEPT !.stage = "asking", !.kind = kind, !.at = i]
    <2>1. x.stage = "asking" /\ request' = [request EXCEPT ![s] = x]
      BY <1>7 DEF Ask, Fresh
    <2> HIDE DEF x
    <2> QED BY <1>2, <2>1
  <1>8. ASSUME NEW i \in Instances, Crash(i) PROVE FALSE
    BY <1>1, <1>8 DEF Crash, Hops
  <1>9. ASSUME NEW s \in Requests, Arrive(s) PROVE FALSE
    BY <1>4, <1>5, <1>9 DEF Arrive
  <1>10. PICK s \in Requests : Continue(s)
    BY <1>3, <1>6, <1>7, <1>8, <1>9 DEF Next, Create, EndBySocket, Restart, Expire
  <1>11. PICK via : request' = MovedOn(s, via) /\ Foreign(At(s), request[s].found)
    BY <1>4, <1>5, <1>10 DEF Continue, JoinContinues, JoinRedirected, Redirects, JoinClaims,
       JoinLocally, RestContinues, Handle
  <1>12. r = s /\ request'[r].at = request[r].found.url
    BY <1>t, <1>11 DEF MovedOn, Fresh, Hops
  <1>13. request[r].found # Nobody /\ request[r].found # Self(At(r))
    BY <1>11, <1>12 DEF Foreign
  <1>14. request[r].found.url = h /\ request[r].found = Self(h)
    BY <1>13 DEF OwnersAreCreators, Names, SoleCreator, Self
  <1> QED BY <1>12, <1>13, <1>14

(* With fixed ids a request that is passed on goes from elsewhere straight *)
(* to the one instance that used the id, so it is passed on once.          *)
THEOREM NobodyIsPassedOnTwice == Spec => HopsLeadHome
  <1> DEFINE Home == \A r \in Requests, h \in Instances :
                        FixedIds /\ SoleCreator(h) /\ Hops(r) => At(r) # h /\ request'[r].at = h
  <1>1. Init => OwnersAreCreators
    BY DEF Init, OwnersAreCreators, Names, Fresh
  <1>2. FoundInv /\ OwnersAreCreators /\ [Next]_vars => OwnersAreCreators'
    BY NamesStep
  <1>3. FoundInv /\ OwnersAreCreators /\ [Next]_vars => [Home]_vars
    <2> SUFFICES ASSUME FoundInv, OwnersAreCreators, Next PROVE Home
      OBVIOUS
    <2> QED BY HopLeadsHome
  <1> QED BY <1>1, <1>2, <1>3, AlwaysFound, PTL DEF Spec, HopsLeadHome
=============================================================================
