-------------------------- MODULE RouterPool_proofs --------------------------
(***************************************************************************)
(* Proofs about RouterPool, for any meetings, pool size and bounds.        *)
(***************************************************************************)
EXTENDS RouterPool, FiniteSetTheorems, TLAPS

(* A process is new when it joins the pool: no router ever lived on it.    *)
PidsAreFresh ==
    /\ \A p \in entries : p < nextPid
    /\ \A r \in Routers : home[r] < nextPid
    /\ \A i \in Indexes : spawning[i] = "server" =>
          /\ spawned[i] \in Pids /\ spawned[i] < nextPid /\ spawned[i] \notin entries
          /\ \A r \in Routers : home[r] # spawned[i]
          /\ \A j \in Indexes : spawning[j] = "server" /\ spawned[i] = spawned[j] => i = j

(* A router is new when it is asked for.                                   *)
RoutersAreNew ==
    /\ \A r \in live : r < nextRouter
    /\ \A m \in Meetings : rooms[m] < nextRouter
    /\ \A c \in creations : c.router < nextRouter

(* A meeting has one creation at most, and none next to a room.            *)
CreationsAreOne ==
    /\ \A c, d \in creations : c.meeting = d.meeting \/ c.router = d.router => c = d
    /\ \A c \in creations :
          /\ rooms[c.meeting] = Nothing
          /\ home[c.router] = c.pid
          /\ c.stage = "router" <=> c.router \notin live
          /\ \A m \in Meetings : rooms[m] # c.router

(* Rooms share no router; a room whose router is gone lost its worker.     *)
RoomsAreOwn ==
    /\ \A m, n \in Meetings : rooms[m] = rooms[n] /\ rooms[m] # Nothing => m = n
    /\ \A m \in Meetings :
          rooms[m] # Nothing => rooms[m] \in live \/ home[rooms[m]] \notin entries

LiveAreHome == \A r \in live : home[r] \in entries

HandedIsRoom == \A m \in Meetings : \A r \in handed[m] : r = rooms[m]

PoolInv ==
    /\ TypeOK /\ PidsAreFresh /\ RoutersAreNew /\ CreationsAreOne /\ RoomsAreOwn
    /\ LiveAreHome /\ HandedIsRoom /\ CountsAreExact /\ RoutersAreAccountedFor

USE NumWorkersAssumption, BoundsAssumption

----------------------------------------------------------------------------
(* Facts about the operators.                                              *)

(* A worker runs finitely many routers.                                    *)
LEMMA RoutersOnFinite ==
    ASSUME TypeOK, NEW p
    PROVE  /\ IsFiniteSet(live) /\ IsFiniteSet(RoutersOn(p))
           /\ Cardinality(RoutersOn(p)) \in Nat
  <1>1. IsFiniteSet(Routers)
    BY FS_Interval DEF Routers
  <1>2. live \subseteq Routers /\ RoutersOn(p) \subseteq live
    BY DEF TypeOK, RoutersOn
  <1> QED BY <1>1, <1>2, FS_Subset, FS_CardinalityType

(* Who awaits a creation changes nothing else of it.                       *)
Marked(m, waiting) == {IF c.meeting = m THEN [c EXCEPT !.awaited = waiting] ELSE c : c \in creations}

Same(c, d) == c.meeting = d.meeting /\ c.pid = d.pid /\ c.router = d.router /\ c.stage = d.stage

LEMMA MarkedSame ==
    ASSUME TypeOK, NEW m \in Meetings, NEW waiting \in BOOLEAN
    PROVE  /\ Marked(m, waiting) \subseteq Creations
           /\ \A d \in Marked(m, waiting) :
                 \E c \in creations : /\ Same(c, d)
                                      /\ d = IF c.meeting = m THEN [c EXCEPT !.awaited = waiting]
                                                              ELSE c
           /\ \A c \in creations : \E d \in Marked(m, waiting) : Same(c, d)
  <1> DEFINE mark(c) == IF c.meeting = m THEN [c EXCEPT !.awaited = waiting] ELSE c
  <1>1. ASSUME NEW c \in creations
        PROVE  mark(c) \in Creations /\ Same(c, mark(c))
    <2>1. c \in Creations
      BY DEF TypeOK
    <2> QED BY <2>1 DEF Creations, Same
  <1>2. Marked(m, waiting) = {mark(c) : c \in creations}
    BY DEF Marked
  <1> QED BY <1>1, <1>2

(* Marking keeps what the invariant says of creations.                     *)
LEMMA MarkedKeeps ==
    ASSUME PoolInv, NEW m \in Meetings, NEW waiting \in BOOLEAN, creations' = Marked(m, waiting),
           UNCHANGED <<entries, home, nextRouter>>,
           \A c \in creations : c.router \in live <=> c.router \in live',
           \A n \in Meetings : rooms'[n] \in {rooms[n], Nothing}
    PROVE  /\ creations' \subseteq Creations
           /\ \A c \in creations' : c.pid \in entries' /\ c.router < nextRouter'
           /\ CreationsAreOne'
           /\ \A c \in creations : \E d \in creations' : Same(c, d)
  <1>1. \A d \in creations' :
           \E c \in creations : /\ Same(c, d)
                                /\ d = IF c.meeting = m THEN [c EXCEPT !.awaited = waiting] ELSE c
    BY MarkedSame DEF PoolInv
  <1>2. creations' \subseteq Creations /\ \A c \in creations : \E d \in creations' : Same(c, d)
    BY MarkedSame DEF PoolInv
  <1>3. \A c \in creations : c.pid \in entries /\ c.router < nextRouter
    BY DEF PoolInv, TypeOK, RoutersAreNew
  <1>4. \A c \in creations' : c.pid \in entries' /\ c.router < nextRouter'
    BY <1>1, <1>3 DEF Same
  <1>5. ASSUME NEW d \in creations', NEW e \in creations',
               d.meeting = e.meeting \/ d.router = e.router
        PROVE  d = e
    <2>1. PICK c \in creations : /\ Same(c, d)
                                 /\ d = IF c.meeting = m THEN [c EXCEPT !.awaited = waiting] ELSE c
      BY <1>1
    <2>2. PICK b \in creations : /\ Same(b, e)
                                 /\ e = IF b.meeting = m THEN [b EXCEPT !.awaited = waiting] ELSE b
      BY <1>1
    <2>3. b = c
      BY <1>5, <2>1, <2>2 DEF Same, PoolInv, CreationsAreOne
    <2> QED BY <2>1, <2>2, <2>3
  <1>6. ASSUME NEW d \in creations'
        PROVE  /\ rooms'[d.meeting] = Nothing
               /\ home'[d.router] = d.pid
               /\ d.stage = "router" <=> d.router \notin live'
               /\ \A n \in Meetings : rooms'[n] # d.router
    <2>1. PICK c \in creations : Same(c, d)
      BY <1>1
    <2>2. c.meeting \in Meetings /\ c.router \in Routers
      BY DEF PoolInv, TypeOK, Creations
    <2>3. /\ rooms[c.meeting] = Nothing
          /\ home[c.router] = c.pid
          /\ c.stage = "router" <=> c.router \notin live
          /\ \A n \in Meetings : rooms[n] # c.router
      BY DEF PoolInv, CreationsAreOne
    <2>4. c.router # Nothing
      BY <2>2 DEF Routers, Nothing
    <2> QED BY <2>1, <2>2, <2>3, <2>4 DEF Same
  <1> QED BY <1>2, <1>4, <1>5, <1>6 DEF CreationsAreOne

----------------------------------------------------------------------------
(* The invariant holds at first and is kept by every step.                 *)

LEMMA InitPool == Init => PoolInv
  <1> SUFFICES ASSUME Init PROVE PoolInv
    OBVIOUS
  <1>1. Indexes \subseteq Pids /\ Nothing \notin Pids
    BY DEF Indexes, Pids, Nothing
  <1>2. TypeOK
    <2>1. indexOf \in [Pids -> Indexes]
      BY DEF Init, Indexes
    <2> QED BY <1>1, <2>1 DEF Init, TypeOK, Nothing
  <1>3. PidsAreFresh
    BY DEF Init, PidsAreFresh, Indexes, Nothing
  <1>4. RoutersAreNew /\ CreationsAreOne /\ RoomsAreOwn /\ LiveAreHome /\ HandedIsRoom
        /\ RoutersAreAccountedFor
    BY DEF Init, RoutersAreNew, CreationsAreOne, RoomsAreOwn, LiveAreHome, HandedIsRoom,
           RoutersAreAccountedFor, Nothing
  <1>5. CountsAreExact
    <2>1. \A p : RoutersOn(p) = {}
      BY DEF Init, RoutersOn
    <2> QED BY <1>1, <2>1, FS_EmptySet DEF Init, CountsAreExact
  <1> QED BY <1>2, <1>3, <1>4, <1>5 DEF PoolInv

(* A step that leaves processes and routers alone keeps the counts.        *)
LEMMA CountsStay ==
    ASSUME CountsAreExact, UNCHANGED <<entries, routerCount, live>>,
           \A r \in live : home'[r] = home[r]
    PROVE  CountsAreExact'
  <1>1. \A p : RoutersOn(p)' = RoutersOn(p)
    BY DEF RoutersOn
  <1> QED BY <1>1 DEF CountsAreExact

LEMMA JoinStandingStep ==
    ASSUME PoolInv, NEW m \in Meetings, JoinStanding(m)
    PROVE  PoolInv'
  <1>1. /\ handed' = [handed EXCEPT ![m] = @ \cup {rooms[m]}] /\ rooms[m] # Nothing
        /\ UNCHANGED <<entries, routerCount, indexOf, spawning, spawned, nextPid, up, rooms,
                       creations, live, home, nextRouter, abandoned>>
    BY DEF JoinStanding, poolVars
  <1>2. TypeOK'
    BY <1>1 DEF PoolInv, TypeOK
  <1>3. HandedIsRoom'
    BY <1>1 DEF PoolInv, TypeOK, HandedIsRoom
  <1>4. CountsAreExact'
    BY <1>1, CountsStay DEF PoolInv
  <1>5. PidsAreFresh' /\ RoutersAreNew' /\ CreationsAreOne'
    BY <1>1 DEF PoolInv, PidsAreFresh, RoutersAreNew, CreationsAreOne
  <1>6. RoomsAreOwn' /\ LiveAreHome' /\ RoutersAreAccountedFor'
    BY <1>1 DEF PoolInv, RoomsAreOwn, LiveAreHome, RoutersAreAccountedFor
  <1> QED BY <1>2, <1>3, <1>4, <1>5, <1>6 DEF PoolInv

LEMMA JoinFirstStep ==
    ASSUME PoolInv, NEW m \in Meetings, JoinFirst(m)
    PROVE  PoolInv'
  <1>1. PICK p \in Pids :
           /\ LeastLoaded(p)
           /\ creations' = creations \cup
                {[meeting |-> m, pid |-> p, router |-> nextRouter, stage |-> "router",
                  awaited |-> TRUE]}
           /\ home' = [home EXCEPT ![nextRouter] = p]
    BY DEF JoinFirst
  <1> DEFINE new == [meeting |-> m, pid |-> p, router |-> nextRouter, stage |-> "router",
                     awaited |-> TRUE]
  <1>2. /\ nextRouter' = nextRouter + 1 /\ nextRouter <= MaxRouter
        /\ rooms[m] = Nothing /\ \A c \in creations : c.meeting # m
        /\ UNCHANGED <<entries, routerCount, indexOf, spawning, spawned, nextPid, up, rooms,
                       live, handed, abandoned>>
    BY DEF JoinFirst, Idle, poolVars
  <1>3. /\ nextRouter \in Nat /\ nextRouter \in Routers /\ p \in entries
        /\ home \in [Routers -> Pids \cup {Nothing}]
    BY <1>1, <1>2 DEF PoolInv, TypeOK, Routers, LeastLoaded
  <1>4. new \in Creations
    BY <1>3 DEF Creations
  <1>5. \A r \in Routers : r # nextRouter => home'[r] = home[r]
    BY <1>1, <1>3
  <1>6. \A r \in live : r # nextRouter /\ r \in Routers
    BY <1>3 DEF PoolInv, TypeOK, RoutersAreNew, Routers
  <1>7. \A q \in Meetings : rooms[q] # nextRouter /\ (rooms[q] # Nothing => rooms[q] \in Routers)
    BY <1>3 DEF PoolInv, TypeOK, RoutersAreNew, Routers
  <1>8. \A c \in creations : c.router # nextRouter /\ c.router \in Routers
    BY <1>3 DEF PoolInv, TypeOK, RoutersAreNew, Routers, Creations
  <1>9. TypeOK'
    <2>1. creations' \subseteq Creations /\ \A c \in creations' : c.pid \in entries
      <3>1. new.pid = p /\ creations' = creations \cup {new}
        BY <1>1
      <3> HIDE DEF new
      <3> QED BY <1>3, <1>4, <3>1 DEF PoolInv, TypeOK
    <2>2. home' \in [Routers -> Pids \cup {Nothing}] /\ nextRouter' \in 1..(MaxRouter + 1)
      BY <1>1, <1>2, <1>3 DEF Routers
    <2> QED BY <1>2, <2>1, <2>2 DEF PoolInv, TypeOK
  <1>10. CountsAreExact' /\ LiveAreHome'
    BY <1>2, <1>5, <1>6, CountsStay DEF PoolInv, LiveAreHome
  <1>11. PidsAreFresh'
    <2>1. p < nextPid
      BY <1>3 DEF PoolInv, PidsAreFresh
    <2>2. \A r \in Routers : home'[r] = home[r] \/ home'[r] = p
      BY <1>1, <1>3
    <2> QED BY <1>2, <1>3, <2>1, <2>2 DEF PoolInv, PidsAreFresh
  <1>12. RoutersAreNew'
    <2>1. \A c \in creations' : c.router < nextRouter + 1
      BY <1>1, <1>3, <1>8 DEF PoolInv, RoutersAreNew, Routers
    <2>2. \A r \in live : r < nextRouter + 1
      BY <1>3, <1>6 DEF PoolInv, RoutersAreNew, Routers
    <2>3. \A q \in Meetings : rooms[q] < nextRouter + 1
      <3> TAKE q \in Meetings
      <3>1. rooms[q] \in Nat /\ rooms[q] < nextRouter
        BY DEF PoolInv, TypeOK, RoutersAreNew, Routers, Nothing
      <3> QED BY <1>3, <3>1
    <2> QED BY <1>2, <2>1, <2>2, <2>3 DEF RoutersAreNew
  <1>13. CreationsAreOne'
    <2>1. \A c \in creations' : c = new \/ c \in creations
      BY <1>1
    <2>2. \A c, d \in creations' : c.meeting = d.meeting \/ c.router = d.router => c = d
      <3>1. new.meeting = m /\ new.router = nextRouter
        OBVIOUS
      <3> HIDE DEF new
      <3> QED BY <1>2, <1>8, <2>1, <3>1 DEF PoolInv, CreationsAreOne
    <2>3. ASSUME NEW c \in creations'
          PROVE  /\ rooms'[c.meeting] = Nothing
                 /\ home'[c.router] = c.pid
                 /\ c.stage = "router" <=> c.router \notin live'
                 /\ \A q \in Meetings : rooms'[q] # c.router
      <3>1. CASE c = new
        BY <1>1, <1>2, <1>3, <1>6, <1>7, <3>1
      <3>2. CASE c \in creations
        BY <1>2, <1>5, <1>8, <3>2 DEF PoolInv, CreationsAreOne
      <3> QED BY <2>1, <3>1, <3>2
    <2> QED BY <2>2, <2>3 DEF CreationsAreOne
  <1>14. RoomsAreOwn'
    BY <1>2, <1>5, <1>7 DEF PoolInv, RoomsAreOwn
  <1>15. HandedIsRoom' /\ RoutersAreAccountedFor'
    BY <1>1, <1>2 DEF PoolInv, HandedIsRoom, RoutersAreAccountedFor
  <1> QED BY <1>9, <1>10, <1>11, <1>12, <1>13, <1>14, <1>15 DEF PoolInv

LEMMA JoinPendingStep ==
    ASSUME PoolInv, NEW m \in Meetings, JoinPending(m)
    PROVE  PoolInv'
  <1>1. /\ creations' = Marked(m, TRUE)
        /\ UNCHANGED <<entries, routerCount, indexOf, spawning, spawned, nextPid, up, rooms,
                       live, home, nextRouter, handed, abandoned>>
    BY DEF JoinPending, poolVars, Marked
  <1>2. /\ creations' \subseteq Creations
        /\ \A c \in creations' : c.pid \in entries' /\ c.router < nextRouter'
        /\ CreationsAreOne'
        /\ \A c \in creations : \E d \in creations' : Same(c, d)
    BY <1>1, MarkedKeeps
  <1>3. TypeOK' /\ RoutersAreNew'
    BY <1>1, <1>2 DEF PoolInv, TypeOK, RoutersAreNew
  <1>4. CountsAreExact'
    BY <1>1, CountsStay DEF PoolInv
  <1>5. PidsAreFresh' /\ RoomsAreOwn' /\ LiveAreHome' /\ HandedIsRoom'
    BY <1>1 DEF PoolInv, PidsAreFresh, RoomsAreOwn, LiveAreHome, HandedIsRoom
  <1>6. RoutersAreAccountedFor'
    <2>1. \A r : (\E c \in creations : c.router = r) => \E d \in creations' : d.router = r
      BY <1>2 DEF Same
    <2> QED BY <1>1, <2>1 DEF PoolInv, RoutersAreAccountedFor
  <1> QED BY <1>2, <1>3, <1>4, <1>5, <1>6 DEF PoolInv

LEMMA MeetingEmptiesStep ==
    ASSUME PoolInv, NEW m \in Meetings, MeetingEmpties(m)
    PROVE  PoolInv'
  <1>1. /\ handed' = [handed EXCEPT ![m] = {}]
        /\ creations' = Marked(m, FALSE)
        /\ UNCHANGED <<entries, indexOf, spawning, spawned, nextPid, up, home, nextRouter, abandoned>>
    BY DEF MeetingEmpties, Marked
  <1>2. \/ rooms[m] = Nothing /\ UNCHANGED <<rooms, live, routerCount>>
        \/ /\ rooms[m] # Nothing
           /\ live' = live \ {rooms[m]}
           /\ routerCount' = CountAfterClose(home[rooms[m]])
           /\ rooms' = [rooms EXCEPT ![m] = Nothing]
    BY DEF MeetingEmpties, Closed
  <1>3. /\ rooms \in [Meetings -> Routers \cup {Nothing}] /\ live \subseteq Routers
        /\ home \in [Routers -> Pids \cup {Nothing}] /\ routerCount \in [Pids -> Nat]
    BY DEF PoolInv, TypeOK
  <1>4. \A n \in Meetings : rooms'[n] \in {rooms[n], Nothing} /\ (n # m => rooms'[n] = rooms[n])
    BY <1>2, <1>3
  <1>5. live' \subseteq live
    BY <1>2
  <1>6. \A c \in creations : c.router \in live <=> c.router \in live'
    BY <1>2 DEF PoolInv, CreationsAreOne
  <1>7. /\ creations' \subseteq Creations
        /\ \A c \in creations' : c.pid \in entries' /\ c.router < nextRouter'
        /\ CreationsAreOne'
        /\ \A c \in creations : \E d \in creations' : Same(c, d)
    BY <1>1, <1>4, <1>6, MarkedKeeps
  <1>8. routerCount' \in [Pids -> Nat]
    BY <1>2, <1>3 DEF CountAfterClose
  <1>9. rooms' \in [Meetings -> Routers \cup {Nothing}]
    BY <1>2, <1>3
  <1>10. TypeOK'
    BY <1>1, <1>3, <1>5, <1>7, <1>8, <1>9 DEF PoolInv, TypeOK
  <1>11. PidsAreFresh'
    BY <1>1 DEF PoolInv, PidsAreFresh
  <1>12. RoutersAreNew'
    <2>1. Nothing < nextRouter
      BY DEF PoolInv, TypeOK, Nothing
    <2>2. \A n \in Meetings : rooms'[n] < nextRouter
      BY <1>4, <2>1 DEF PoolInv, RoutersAreNew
    <2> QED BY <1>1, <1>5, <1>7, <2>2 DEF PoolInv, RoutersAreNew
  <1>13. RoomsAreOwn'
    <2>1. ASSUME NEW n \in Meetings, rooms'[n] # Nothing
          PROVE  rooms'[n] = rooms[n] /\ (rooms[n] \in live => rooms[n] \in live')
      <3>1. rooms'[n] = rooms[n]
        BY <1>4, <2>1
      <3>2. CASE rooms[m] = Nothing
        BY <1>2, <3>1, <3>2
      <3>3. CASE rooms[m] # Nothing
        <4>1. n # m
          BY <1>2, <1>3, <2>1, <3>3
        <4>2. rooms[n] # rooms[m]
          BY <2>1, <3>1, <4>1 DEF PoolInv, RoomsAreOwn
        <4> QED BY <1>2, <3>1, <4>2
      <3> QED BY <3>2, <3>3
    <2> QED BY <1>1, <2>1 DEF PoolInv, RoomsAreOwn
  <1>14. LiveAreHome'
    BY <1>1, <1>5 DEF PoolInv, LiveAreHome
  <1>15. HandedIsRoom'
    <2>1. \A n \in Meetings : n # m => handed'[n] = handed[n] /\ rooms'[n] = rooms[n]
      BY <1>1, <1>4 DEF PoolInv, TypeOK
    <2>2. handed'[m] = {}
      BY <1>1 DEF PoolInv, TypeOK
    <2> QED BY <2>1, <2>2 DEF PoolInv, HandedIsRoom
  <1>16. RoutersAreAccountedFor'
    <2> SUFFICES ASSUME NEW r \in live'
                 PROVE  \/ \E n \in Meetings : rooms'[n] = r
                        \/ \E c \in creations' : c.router = r
                        \/ r \in abandoned
      BY <1>1 DEF RoutersAreAccountedFor
    <2>1. r \in live
      BY <1>5
    <2>2. CASE \E n \in Meetings : rooms[n] = r
      BY <1>2, <1>4, <2>2
    <2>3. CASE \E c \in creations : c.router = r
      BY <1>7, <2>3 DEF Same
    <2> QED BY <2>1, <2>2, <2>3 DEF PoolInv, RoutersAreAccountedFor
  <1>17. CountsAreExact'
    <2>1. CASE rooms[m] = Nothing
      BY <1>1, <1>2, <2>1, CountsStay DEF PoolInv
    <2>2. CASE rooms[m] # Nothing
      <3> DEFINE r == rooms[m]
                 p == home[r]
      <3>1. /\ r \in Routers /\ live' = live \ {r} /\ routerCount' = CountAfterClose(p)
        BY <1>2, <1>3, <2>2
      <3>2. r \in live \/ p \notin entries
        BY <2>2 DEF PoolInv, RoomsAreOwn
      <3>3. \A q : RoutersOn(q)' = RoutersOn(q) \ {r}
        BY <1>1, <3>1 DEF RoutersOn
      <3>4. entries \subseteq Pids
        BY DEF PoolInv, TypeOK
      <3>5. \A q \in entries : routerCount[q] = Cardinality(RoutersOn(q))
        BY DEF PoolInv, CountsAreExact
      <3> HIDE DEF r, p
      <3>6. CASE p \notin entries
        <4>1. routerCount' = routerCount
          BY <3>1, <3>6 DEF CountAfterClose
        <4>2. r \notin live
          BY <3>6 DEF PoolInv, LiveAreHome, p
        <4>3. \A q : RoutersOn(q)' = RoutersOn(q)
          BY <3>3, <4>2 DEF RoutersOn
        <4> QED BY <1>1, <3>5, <4>1, <4>3 DEF CountsAreExact
      <3>7. CASE p \in entries
        <4>1. r \in RoutersOn(p)
          BY <3>2, <3>7 DEF RoutersOn, p
        <4>2. Cardinality(RoutersOn(p) \ {r}) = Cardinality(RoutersOn(p)) - 1
          BY <4>1, RoutersOnFinite, FS_RemoveElement DEF PoolInv
        <4>3. /\ IsFiniteSet(RoutersOn(p) \ {r})
              /\ Cardinality(RoutersOn(p) \ {r}) \in Nat /\ Cardinality(RoutersOn(p)) \in Nat
          BY RoutersOnFinite, FS_RemoveElement, FS_CardinalityType DEF PoolInv
        <4>4. routerCount[p] = Cardinality(RoutersOn(p)) /\ p \in Pids
          BY <3>4, <3>5, <3>7
        <4>5. routerCount'[p] = routerCount[p] - 1
          BY <1>3, <3>1, <3>7, <4>2, <4>3, <4>4 DEF CountAfterClose
        <4>6. \A q \in entries : q # p => routerCount'[q] = routerCount[q] /\ r \notin RoutersOn(q)
          BY <1>3, <3>1, <3>4, <3>7 DEF CountAfterClose, RoutersOn, p
        <4>7. \A q \in entries : q # p => RoutersOn(q)' = RoutersOn(q)
          BY <3>3, <4>6
        <4>8. ASSUME NEW q \in entries
              PROVE  routerCount'[q] = Cardinality(RoutersOn(q)')
          <5>1. CASE q = p
            BY <3>3, <4>2, <4>4, <4>5, <5>1
          <5>2. CASE q # p
            BY <3>5, <4>6, <4>7, <5>2
          <5> QED BY <5>1, <5>2
        <4> QED BY <1>1, <4>8 DEF CountsAreExact
      <3> QED BY <3>6, <3>7
    <2> QED BY <2>1, <2>2
  <1> QED BY <1>7, <1>10, <1>11, <1>12, <1>13, <1>14, <1>15, <1>16, <1>17 DEF PoolInv

LEMMA RouterCreatedStep ==
    ASSUME PoolInv, NEW c \in creations, RouterCreated(c)
    PROVE  PoolInv'
  <1> DEFINE next == [c EXCEPT !.stage = "observer"]
  <1>1. /\ c.stage = "router" /\ live' = live \cup {c.router}
        /\ routerCount' = IF c.pid \in entries
                          THEN [routerCount EXCEPT ![c.pid] = @ + 1] ELSE routerCount
        /\ creations' = (creations \ {c}) \cup {next}
        /\ UNCHANGED <<entries, indexOf, spawning, spawned, nextPid, up, rooms, home, nextRouter,
                       handed, abandoned>>
    BY DEF RouterCreated
  <1>2. c \in Creations /\ c.pid \in entries /\ c.router \in Routers
    BY DEF PoolInv, TypeOK, Creations
  <1>3. /\ next \in Creations /\ next.meeting = c.meeting /\ next.pid = c.pid
        /\ next.router = c.router /\ next.stage = "observer"
    BY <1>2 DEF Creations
  <1>4. c.router \notin live /\ home[c.router] = c.pid /\ rooms[c.meeting] = Nothing
        /\ \A m \in Meetings : rooms[m] # c.router
    BY <1>1 DEF PoolInv, CreationsAreOne
  <1>5. routerCount \in [Pids -> Nat] /\ entries \subseteq Pids
    BY DEF PoolInv, TypeOK
  <1> HIDE DEF next
  <1>6. TypeOK'
    <2>1. creations' \subseteq Creations /\ \A d \in creations' : d.pid \in entries
      BY <1>1, <1>2, <1>3 DEF PoolInv, TypeOK
    <2>2. routerCount' \in [Pids -> Nat] /\ live' \subseteq Routers
      BY <1>1, <1>2, <1>5 DEF PoolInv, TypeOK
    <2> QED BY <1>1, <2>1, <2>2 DEF PoolInv, TypeOK
  <1>7. PidsAreFresh' /\ HandedIsRoom'
    BY <1>1 DEF PoolInv, PidsAreFresh, HandedIsRoom
  <1>8. RoutersAreNew' /\ LiveAreHome' /\ RoomsAreOwn'
    BY <1>1, <1>2, <1>3, <1>4 DEF PoolInv, RoutersAreNew, LiveAreHome, RoomsAreOwn
  <1>9. CreationsAreOne'
    <2>1. \A d, e \in creations' : d.meeting = e.meeting \/ d.router = e.router => d = e
      BY <1>1, <1>3 DEF PoolInv, CreationsAreOne
    <2>2. ASSUME NEW d \in creations'
          PROVE  /\ rooms[d.meeting] = Nothing
                 /\ home[d.router] = d.pid
                 /\ d.stage = "router" <=> d.router \notin live'
                 /\ \A m \in Meetings : rooms[m] # d.router
      <3>1. CASE d = next
        BY <1>1, <1>3, <1>4, <3>1
      <3>2. CASE d \in creations /\ d # c
        <4>1. d.router # c.router
          BY <3>2 DEF PoolInv, CreationsAreOne
        <4> QED BY <1>1, <3>2, <4>1 DEF PoolInv, CreationsAreOne
      <3> QED BY <1>1, <3>1, <3>2
    <2> QED BY <1>1, <2>1, <2>2 DEF CreationsAreOne
  <1>10. RoutersAreAccountedFor'
    <2> SUFFICES ASSUME NEW r \in live'
                 PROVE  \/ \E m \in Meetings : rooms[m] = r
                        \/ \E d \in creations' : d.router = r
                        \/ r \in abandoned
      BY <1>1 DEF RoutersAreAccountedFor
    <2>1. CASE r = c.router
      BY <1>1, <1>3, <2>1
    <2>2. CASE r \in live
      BY <1>1, <1>3, <2>2 DEF PoolInv, RoutersAreAccountedFor
    <2> QED BY <1>1, <2>1, <2>2
  <1>11. CountsAreExact'
    <2>1. \A q : RoutersOn(q)' = IF q = c.pid THEN RoutersOn(q) \cup {c.router} ELSE RoutersOn(q)
      BY <1>1, <1>4 DEF RoutersOn
    <2>2. ASSUME NEW q \in entries
          PROVE  routerCount'[q] = Cardinality(RoutersOn(q)')
      <3>1. routerCount[q] = Cardinality(RoutersOn(q))
        BY DEF PoolInv, CountsAreExact
      <3>2. CASE q = c.pid
        <4>1. c.router \notin RoutersOn(q)
          BY <1>4 DEF RoutersOn
        <4>2. Cardinality(RoutersOn(q) \cup {c.router}) = Cardinality(RoutersOn(q)) + 1
          BY <4>1, RoutersOnFinite, FS_AddElement DEF PoolInv
        <4>3. routerCount'[q] = routerCount[q] + 1
          BY <1>1, <1>5, <3>2
        <4> QED BY <2>1, <3>1, <3>2, <4>2, <4>3
      <3>3. CASE q # c.pid
        BY <1>1, <1>5, <2>1, <3>1, <3>3
      <3> QED BY <3>2, <3>3
    <2> QED BY <1>1, <2>2 DEF CountsAreExact
  <1> QED BY <1>6, <1>7, <1>8, <1>9, <1>10, <1>11 DEF PoolInv

LEMMA ObserverCreatedStep ==
    ASSUME PoolInv, NEW c \in creations, ObserverCreated(c)
    PROVE  PoolInv'
  <1>1. /\ c.stage = "observer" /\ rooms' = [rooms EXCEPT ![c.meeting] = c.router]
        /\ handed' = IF c.awaited THEN [handed EXCEPT ![c.meeting] = @ \cup {c.router}] ELSE handed
        /\ creations' = creations \ {c}
        /\ UNCHANGED <<entries, routerCount, indexOf, spawning, spawned, nextPid, up, live, home,
                       nextRouter, abandoned>>
    BY DEF ObserverCreated, poolVars
  <1>2. /\ c \in Creations /\ c.meeting \in Meetings /\ c.router \in Routers
        /\ c.router # Nothing /\ c.router < nextRouter
    BY DEF PoolInv, TypeOK, Creations, RoutersAreNew, Routers, Nothing
  <1>3. c.router \in live /\ rooms[c.meeting] = Nothing /\ \A m \in Meetings : rooms[m] # c.router
    BY <1>1 DEF PoolInv, CreationsAreOne
  <1>4. /\ rooms \in [Meetings -> Routers \cup {Nothing}] /\ handed \in [Meetings -> SUBSET Routers]
        /\ Nothing \notin Routers
    BY DEF PoolInv, TypeOK, Routers, Nothing
  <1>5. \A m \in Meetings : rooms'[m] = IF m = c.meeting THEN c.router ELSE rooms[m]
    BY <1>1, <1>2, <1>4
  <1>6. TypeOK'
    <2>1. rooms' \in [Meetings -> Routers \cup {Nothing}] /\ handed' \in [Meetings -> SUBSET Routers]
      BY <1>1, <1>2, <1>4
    <2>2. creations' \subseteq Creations /\ \A d \in creations' : d.pid \in entries
      BY <1>1 DEF PoolInv, TypeOK
    <2> QED BY <1>1, <2>1, <2>2 DEF PoolInv, TypeOK
  <1>7. PidsAreFresh' /\ LiveAreHome'
    BY <1>1 DEF PoolInv, PidsAreFresh, LiveAreHome
  <1>8. CountsAreExact'
    BY <1>1, CountsStay DEF PoolInv
  <1>9. RoutersAreNew'
    BY <1>1, <1>2, <1>5 DEF PoolInv, RoutersAreNew
  <1>10. CreationsAreOne'
    <2>1. ASSUME NEW d \in creations'
          PROVE  /\ rooms'[d.meeting] = Nothing
                 /\ home[d.router] = d.pid
                 /\ d.stage = "router" <=> d.router \notin live
                 /\ \A m \in Meetings : rooms'[m] # d.router
      <3>1. d \in creations /\ d # c /\ d.meeting \in Meetings
        BY <1>1 DEF PoolInv, TypeOK, Creations
      <3>2. d.meeting # c.meeting /\ d.router # c.router
        BY <3>1 DEF PoolInv, CreationsAreOne
      <3> QED BY <1>5, <3>1, <3>2 DEF PoolInv, CreationsAreOne
    <2> QED BY <1>1, <2>1 DEF PoolInv, CreationsAreOne
  <1>11. RoomsAreOwn'
    BY <1>1, <1>3, <1>5 DEF PoolInv, RoomsAreOwn
  <1>12. HandedIsRoom'
    <2>1. handed[c.meeting] = {}
      BY <1>2, <1>3, <1>4 DEF PoolInv, HandedIsRoom
    <2>2. ASSUME NEW m \in Meetings, NEW r \in handed'[m]
          PROVE  r = rooms'[m]
      <3>1. CASE m = c.meeting
        BY <1>1, <1>2, <1>4, <1>5, <2>1, <2>2, <3>1
      <3>2. CASE m # c.meeting
        BY <1>1, <1>4, <1>5, <2>2, <3>2 DEF PoolInv, HandedIsRoom
      <3> QED BY <3>1, <3>2
    <2> QED BY <2>2 DEF HandedIsRoom
  <1>13. RoutersAreAccountedFor'
    <2> SUFFICES ASSUME NEW r \in live
                 PROVE  \/ \E m \in Meetings : rooms'[m] = r
                        \/ \E d \in creations' : d.router = r
                        \/ r \in abandoned
      BY <1>1 DEF RoutersAreAccountedFor
    <2>1. r \in Routers
      BY DEF PoolInv, TypeOK
    <2>2. CASE \E m \in Meetings : rooms[m] = r
      BY <1>3, <1>4, <1>5, <2>1, <2>2
    <2>3. CASE \E d \in creations : d.router = r
      BY <1>1, <1>2, <1>5, <2>3
    <2> QED BY <2>2, <2>3 DEF PoolInv, RoutersAreAccountedFor
  <1> QED BY <1>6, <1>7, <1>8, <1>9, <1>10, <1>11, <1>12, <1>13 DEF PoolInv

LEMMA CreationFailsStep ==
    ASSUME PoolInv, NEW c \in creations, CreationFails(c)
    PROVE  PoolInv'
  <1>1. /\ creations' = creations \ {c}
        /\ abandoned' = IF c.stage = "observer" THEN abandoned \cup {c.router} ELSE abandoned
        /\ UNCHANGED <<entries, routerCount, indexOf, spawning, spawned, nextPid, up, rooms, live,
                       home, nextRouter, handed>>
    BY DEF CreationFails, poolVars
  <1>2. c.router \in Routers /\ c.stage \in {"router", "observer"}
    BY DEF PoolInv, TypeOK, Creations
  <1>3. TypeOK'
    BY <1>1, <1>2 DEF PoolInv, TypeOK
  <1>4. CountsAreExact'
    BY <1>1, CountsStay DEF PoolInv
  <1>5. PidsAreFresh' /\ RoomsAreOwn' /\ LiveAreHome' /\ HandedIsRoom'
    BY <1>1 DEF PoolInv, PidsAreFresh, RoomsAreOwn, LiveAreHome, HandedIsRoom
  <1>6. RoutersAreNew' /\ CreationsAreOne'
    BY <1>1 DEF PoolInv, RoutersAreNew, CreationsAreOne
  <1>7. RoutersAreAccountedFor'
    <2>1. c.stage = "router" => c.router \notin live
      BY DEF PoolInv, CreationsAreOne
    <2> QED BY <1>1, <1>2, <2>1 DEF PoolInv, RoutersAreAccountedFor
  <1> QED BY <1>3, <1>4, <1>5, <1>6, <1>7 DEF PoolInv

(* The routers of processes that go, go with them.                         *)
LEMMA ProcessesGo ==
    ASSUME PoolInv, NEW gone \in SUBSET Pids,
           entries' = entries \ gone,
           live' = {r \in live : home[r] \notin gone},
           creations' = {c \in creations : c.pid \notin gone},
           UNCHANGED <<routerCount, rooms, home, nextRouter, handed, abandoned>>
    PROVE  /\ CountsAreExact' /\ RoutersAreNew' /\ CreationsAreOne' /\ RoomsAreOwn'
           /\ LiveAreHome' /\ HandedIsRoom' /\ RoutersAreAccountedFor'
           /\ live' \subseteq Routers /\ creations' \subseteq Creations
           /\ \A c \in creations' : c.pid \in entries'
  <1>1. CountsAreExact'
    <2>1. \A q \in entries' : RoutersOn(q)' = RoutersOn(q)
      BY DEF RoutersOn
    <2> QED BY <2>1 DEF PoolInv, CountsAreExact
  <1>2. RoutersAreNew' /\ LiveAreHome' /\ HandedIsRoom'
    BY DEF PoolInv, RoutersAreNew, LiveAreHome, HandedIsRoom
  <1>3. CreationsAreOne'
    <2>1. ASSUME NEW c \in creations'
          PROVE  c.stage = "router" <=> c.router \notin live'
      BY DEF PoolInv, CreationsAreOne
    <2> QED BY <2>1 DEF PoolInv, CreationsAreOne
  <1>4. RoomsAreOwn'
    BY DEF PoolInv, RoomsAreOwn
  <1>5. RoutersAreAccountedFor'
    <2> SUFFICES ASSUME NEW r \in live'
                 PROVE  \/ \E m \in Meetings : rooms[m] = r
                        \/ \E c \in creations' : c.router = r
                        \/ r \in abandoned
      BY DEF RoutersAreAccountedFor
    <2>1. r \in live /\ home[r] \notin gone
      OBVIOUS
    <2>2. ASSUME NEW c \in creations, c.router = r
          PROVE  c \in creations'
      BY <2>1, <2>2 DEF PoolInv, CreationsAreOne
    <2> QED BY <2>1, <2>2 DEF PoolInv, RoutersAreAccountedFor
  <1>6. /\ live' \subseteq Routers /\ creations' \subseteq Creations
        /\ \A c \in creations' : c.pid \in entries'
    BY DEF PoolInv, TypeOK
  <1> QED BY <1>1, <1>2, <1>3, <1>4, <1>5, <1>6

LEMMA WorkerDiesStep ==
    ASSUME PoolInv, NEW p \in Pids, WorkerDies(p)
    PROVE  PoolInv'
  <1>1. /\ p \in entries /\ entries' = entries \ {p}
        /\ spawning' = [spawning EXCEPT ![indexOf[p]] = "process"]
        /\ live' = live \ RoutersOn(p) /\ creations' = {c \in creations : c.pid # p}
        /\ UNCHANGED <<routerCount, indexOf, spawned, nextPid, up, rooms, home, nextRouter, handed,
                       abandoned>>
    BY DEF WorkerDies
  <1>2. /\ {p} \in SUBSET Pids
        /\ live' = {r \in live : home[r] \notin {p}}
        /\ creations' = {c \in creations : c.pid \notin {p}}
    BY <1>1 DEF RoutersOn
  <1>3. /\ CountsAreExact' /\ RoutersAreNew' /\ CreationsAreOne' /\ RoomsAreOwn'
        /\ LiveAreHome' /\ HandedIsRoom' /\ RoutersAreAccountedFor'
        /\ live' \subseteq Routers /\ creations' \subseteq Creations
        /\ \A c \in creations' : c.pid \in entries'
    BY <1>1, <1>2, ProcessesGo
  <1>4. indexOf[p] \in Indexes
    BY DEF PoolInv, TypeOK
  <1>5. TypeOK'
    BY <1>1, <1>3, <1>4 DEF PoolInv, TypeOK
  <1>6. PidsAreFresh'
    <2>1. \A i \in Indexes : spawning'[i] = "server" => spawning[i] = "server"
      BY <1>1, <1>4 DEF PoolInv, TypeOK
    <2> QED BY <1>1, <2>1 DEF PoolInv, PidsAreFresh
  <1> QED BY <1>3, <1>5, <1>6 DEF PoolInv

LEMMA ShutdownStep ==
    ASSUME PoolInv, Shutdown
    PROVE  PoolInv'
  <1>1. /\ up' = FALSE /\ entries' = {}
        /\ live' = {r \in live : home[r] \notin entries}
        /\ creations' = {c \in creations : c.pid \notin entries}
        /\ UNCHANGED <<routerCount, indexOf, spawning, spawned, nextPid, rooms, home, nextRouter,
                       handed, abandoned>>
    BY DEF Shutdown
  <1>2. entries \in SUBSET Pids /\ entries' = entries \ entries
    BY <1>1 DEF PoolInv, TypeOK
  <1>3. /\ CountsAreExact' /\ RoutersAreNew' /\ CreationsAreOne' /\ RoomsAreOwn'
        /\ LiveAreHome' /\ HandedIsRoom' /\ RoutersAreAccountedFor'
        /\ live' \subseteq Routers /\ creations' \subseteq Creations
        /\ \A c \in creations' : c.pid \in entries'
    BY <1>1, <1>2, ProcessesGo
  <1>4. TypeOK'
    BY <1>1, <1>3 DEF PoolInv, TypeOK
  <1>5. PidsAreFresh'
    BY <1>1 DEF PoolInv, PidsAreFresh
  <1> QED BY <1>3, <1>4, <1>5 DEF PoolInv

(* Starting a replacement touches no router; failing to leaves none.       *)
LEMMA SpawnStepKeeps ==
    ASSUME PoolInv, NEW i \in Indexes, SpawnStep(i)
    PROVE  PoolInv'
  <1>1. CASE ProcessStarted(i)
    <2>1. /\ spawning' = [spawning EXCEPT ![i] = "server"]
          /\ spawned' = [spawned EXCEPT ![i] = nextPid] /\ nextPid <= MaxPid
          /\ nextPid' = nextPid + 1
          /\ UNCHANGED <<entries, routerCount, indexOf, up, rooms, creations, live, home,
                         nextRouter, handed, abandoned>>
      BY <1>1 DEF ProcessStarted, roomVars
    <2>2. /\ nextPid \in Pids /\ nextPid \in Nat /\ entries \subseteq Pids
          /\ spawning \in [Indexes -> {"no", "process", "server", "failed"}]
          /\ spawned \in [Indexes -> Pids \cup {Nothing}]
          /\ home \in [Routers -> Pids \cup {Nothing}]
      BY <2>1 DEF PoolInv, TypeOK, Pids
    <2>3. TypeOK'
      <3>1. nextPid' \in 1..(MaxPid + 1)
        BY <2>1, <2>2 DEF Pids
      <3>2. /\ spawning' \in [Indexes -> {"no", "process", "server", "failed"}]
            /\ spawned' \in [Indexes -> Pids \cup {Nothing}]
        BY <2>1, <2>2
      <3> QED BY <2>1, <3>1, <3>2 DEF PoolInv, TypeOK
    <2>4. PidsAreFresh'
      <3>1. \A p \in entries : p \in Nat /\ p < nextPid
        BY <2>2 DEF PoolInv, PidsAreFresh, Pids
      <3>2. \A r \in Routers : home[r] \in Nat /\ home[r] < nextPid
        BY <2>2 DEF PoolInv, PidsAreFresh, Pids, Nothing
      <3>3. \A j \in Indexes : j # i => spawning'[j] = spawning[j] /\ spawned'[j] = spawned[j]
        BY <2>1, <2>2
      <3>4. spawned'[i] = nextPid
        BY <2>1, <2>2
      <3>5. (\A p \in entries' : p < nextPid') /\ (\A r \in Routers : home'[r] < nextPid')
        BY <2>1, <2>2, <3>1, <3>2
      <3>6. ASSUME NEW j \in Indexes, spawning'[j] = "server"
            PROVE  /\ spawned'[j] \in Pids /\ spawned'[j] < nextPid' /\ spawned'[j] \notin entries'
                   /\ \A r \in Routers : home'[r] # spawned'[j]
        <4>1. CASE j = i
          BY <2>1, <2>2, <3>1, <3>2, <3>4, <4>1
        <4>2. CASE j # i
          <5>1. /\ spawned[j] \in Pids /\ spawned[j] < nextPid /\ spawned[j] \notin entries
                /\ \A r \in Routers : home[r] # spawned[j]
            BY <3>3, <3>6, <4>2 DEF PoolInv, PidsAreFresh
          <5>2. spawned[j] \in Nat
            BY <5>1 DEF Pids
          <5> QED BY <2>1, <2>2, <3>3, <4>2, <5>1, <5>2
        <4> QED BY <4>1, <4>2
      <3>7. ASSUME NEW j \in Indexes, NEW k \in Indexes, spawning'[j] = "server",
                   spawning'[k] = "server", spawned'[j] = spawned'[k]
            PROVE  j = k
        <4>1. \A l \in Indexes : l # i /\ spawning[l] = "server" => spawned[l] # nextPid
          <5> TAKE l \in Indexes
          <5> HAVE l # i /\ spawning[l] = "server"
          <5>1. spawned[l] \in Pids /\ spawned[l] < nextPid
            BY DEF PoolInv, PidsAreFresh
          <5> QED BY <2>2, <5>1 DEF Pids
        <4>2. CASE j # i /\ k # i
          BY <3>3, <3>7, <4>2 DEF PoolInv, PidsAreFresh
        <4>3. CASE j = i \/ k = i
          BY <3>3, <3>4, <3>7, <4>1, <4>3
        <4> QED BY <4>2, <4>3
      <3> QED BY <3>5, <3>6, <3>7 DEF PidsAreFresh
    <2>5. CountsAreExact'
      BY <2>1, CountsStay DEF PoolInv
    <2>6. RoutersAreNew' /\ CreationsAreOne' /\ RoomsAreOwn' /\ LiveAreHome' /\ HandedIsRoom'
          /\ RoutersAreAccountedFor'
      BY <2>1 DEF PoolInv, RoutersAreNew, CreationsAreOne, RoomsAreOwn, LiveAreHome, HandedIsRoom,
                  RoutersAreAccountedFor
    <2> QED BY <2>3, <2>4, <2>5, <2>6 DEF PoolInv
  <1>2. CASE ServerCreated(i)
    <2> DEFINE p == spawned[i]
    <2>1. /\ spawning[i] = "server" /\ entries' = entries \cup {p}
          /\ indexOf' = [indexOf EXCEPT ![p] = i]
          /\ routerCount' = [routerCount EXCEPT ![p] = 0]
          /\ spawning' = [spawning EXCEPT ![i] = "no"]
          /\ UNCHANGED <<spawned, nextPid, up, rooms, creations, live, home, nextRouter, handed,
                         abandoned>>
      BY <1>2 DEF ServerCreated, roomVars
    <2>2. /\ p \in Pids /\ p < nextPid /\ p \notin entries
          /\ \A r \in Routers : home[r] # p
      BY <2>1 DEF PoolInv, PidsAreFresh
    <2>3. live \subseteq Routers /\ routerCount \in [Pids -> Nat]
          /\ spawning \in [Indexes -> {"no", "process", "server", "failed"}]
          /\ rooms \in [Meetings -> Routers \cup {Nothing}]
      BY DEF PoolInv, TypeOK
    <2>4. \A j \in Indexes : spawning'[j] = "server" => j # i /\ spawning[j] = "server"
      BY <2>1, <2>3
    <2>5. TypeOK'
      BY <2>1, <2>2 DEF PoolInv, TypeOK
    <2>6. PidsAreFresh'
      <3>1. \A j \in Indexes : spawning'[j] = "server" => spawned[j] # p
        BY <2>1, <2>4 DEF PoolInv, PidsAreFresh
      <3> HIDE DEF p
      <3> QED BY <2>1, <2>2, <2>4, <3>1 DEF PoolInv, PidsAreFresh
    <2>7. CountsAreExact'
      <3>1. \A q : RoutersOn(q)' = RoutersOn(q)
        BY <2>1 DEF RoutersOn
      <3>2. RoutersOn(p) = {}
        BY <2>2, <2>3 DEF RoutersOn
      <3>3. \A q \in entries : q # p /\ routerCount'[q] = routerCount[q]
        BY <2>1, <2>2, <2>3 DEF PoolInv, TypeOK
      <3>4. routerCount'[p] = 0
        BY <2>1, <2>2, <2>3
      <3> HIDE DEF p
      <3> QED BY <2>1, <3>1, <3>2, <3>3, <3>4, FS_EmptySet DEF PoolInv, CountsAreExact
    <2>8. RoomsAreOwn' /\ LiveAreHome'
      BY <2>1, <2>2, <2>3 DEF PoolInv, RoomsAreOwn, LiveAreHome
    <2>9. RoutersAreNew' /\ CreationsAreOne' /\ HandedIsRoom' /\ RoutersAreAccountedFor'
      BY <2>1 DEF PoolInv, RoutersAreNew, CreationsAreOne, HandedIsRoom, RoutersAreAccountedFor
    <2> QED BY <2>5, <2>6, <2>7, <2>8, <2>9 DEF PoolInv
  <1>3. CASE SpawnFails(i)
    <2>1. /\ spawning' = [j \in Indexes |-> "failed"] /\ up' = FALSE
          /\ entries' = {} /\ live' = {} /\ creations' = {}
          /\ UNCHANGED <<routerCount, indexOf, spawned, nextPid, rooms, home, nextRouter, handed,
                         abandoned>>
      BY <1>3 DEF SpawnFails
    <2>2. TypeOK'
      BY <2>1 DEF PoolInv, TypeOK
    <2>3. PidsAreFresh'
      <3>1. \A j \in Indexes : spawning'[j] # "server"
        BY <2>1
      <3> QED BY <2>1, <3>1 DEF PoolInv, PidsAreFresh
    <2>4. CountsAreExact'
      BY <2>1 DEF CountsAreExact
    <2>5. RoutersAreNew' /\ CreationsAreOne' /\ RoomsAreOwn' /\ LiveAreHome' /\ HandedIsRoom'
          /\ RoutersAreAccountedFor'
      BY <2>1 DEF PoolInv, RoutersAreNew, CreationsAreOne, RoomsAreOwn, LiveAreHome, HandedIsRoom,
                  RoutersAreAccountedFor
    <2> QED BY <2>2, <2>3, <2>4, <2>5 DEF PoolInv
  <1> QED BY <1>1, <1>2, <1>3 DEF SpawnStep

LEMMA NextPool == PoolInv /\ [Next]_vars => PoolInv'
  <1> SUFFICES ASSUME PoolInv, [Next]_vars PROVE PoolInv'
    OBVIOUS
  <1>1. ASSUME NEW m \in Meetings,
               JoinStanding(m) \/ JoinFirst(m) \/ JoinPending(m) \/ MeetingEmpties(m)
        PROVE  PoolInv'
    BY <1>1, JoinStandingStep, JoinFirstStep, JoinPendingStep, MeetingEmptiesStep
  <1>2. ASSUME NEW c \in creations, CreationStep(c)
        PROVE  PoolInv'
    BY <1>2, RouterCreatedStep, ObserverCreatedStep, CreationFailsStep DEF CreationStep
  <1>3. ASSUME NEW p \in Pids, WorkerDies(p)
        PROVE  PoolInv'
    BY <1>3, WorkerDiesStep
  <1>4. ASSUME NEW i \in Indexes, SpawnStep(i)
        PROVE  PoolInv'
    BY <1>4, SpawnStepKeeps
  <1>5. CASE Shutdown
    BY <1>5, ShutdownStep
  <1>6. CASE UNCHANGED vars
    <2>1. UNCHANGED <<entries, routerCount, indexOf, spawning, spawned, nextPid, up, rooms,
                      creations, live, home, nextRouter, handed, abandoned>>
      BY <1>6 DEF vars, poolVars, roomVars
    <2>2. TypeOK' /\ PidsAreFresh' /\ RoutersAreNew' /\ CreationsAreOne'
      BY <2>1 DEF PoolInv, TypeOK, PidsAreFresh, RoutersAreNew, CreationsAreOne
    <2>3. RoomsAreOwn' /\ LiveAreHome' /\ HandedIsRoom' /\ RoutersAreAccountedFor'
      BY <2>1 DEF PoolInv, RoomsAreOwn, LiveAreHome, HandedIsRoom, RoutersAreAccountedFor
    <2>4. CountsAreExact'
      BY <2>1, CountsStay DEF PoolInv
    <2> QED BY <2>2, <2>3, <2>4 DEF PoolInv
  <1> QED BY <1>1, <1>2, <1>3, <1>4, <1>5, <1>6 DEF Next

LEMMA PoolInvariant == Spec => []PoolInv
  BY InitPool, NextPool, PTL DEF Spec

----------------------------------------------------------------------------
(* Every reachable state is well typed, and a creation under way is on a   *)
(* worker that has not died.                                               *)
THEOREM PoolTypes == Spec => []TypeOK
  <1>1. PoolInv => TypeOK
    BY DEF PoolInv
  <1> QED BY <1>1, PoolInvariant, PTL

(* Whoever is in a meeting was given the same router, whatever dies,       *)
(* empties or fails in between.                                            *)
THEOREM OneRouter == Spec => []OneRouterPerMeeting
  <1>1. PoolInv => OneRouterPerMeeting
    BY DEF PoolInv, HandedIsRoom, OneRouterPerMeeting
  <1> QED BY <1>1, PoolInvariant, PTL

(* The count the least loaded worker is chosen by is the number of routers *)
(* that worker runs.                                                       *)
THEOREM CountsExact == Spec => []CountsAreExact
  <1>1. PoolInv => CountsAreExact
    BY DEF PoolInv
  <1> QED BY <1>1, PoolInvariant, PTL

(* No router is left running that nobody can close, but for those whose    *)
(* audio observer could not be created.                                    *)
THEOREM RoutersAccounted == Spec => []RoutersAreAccountedFor
  <1>1. PoolInv => RoutersAreAccountedFor
    BY DEF PoolInv
  <1> QED BY <1>1, PoolInvariant, PTL

(* A meeting's router is closed under it only by the death of its worker.  *)
THEOREM RoomsOutlive == Spec => []RoomsOutliveOnlyWorkers
  <1>1. PoolInv => RoomsOutliveOnlyWorkers
    BY DEF PoolInv, RoomsAreOwn, RoomsOutliveOnlyWorkers
  <1> QED BY <1>1, PoolInvariant, PTL

----------------------------------------------------------------------------
(* The pool implements the safety part of RouterContract.                  *)

Creating(m) == \E c \in creations : c.meeting = m

(* No router appears without a creation, none gives way to a creation.     *)
MovesFairly(m) ==
    /\ rooms'[m] # Nothing => rooms[m] # Nothing \/ Creating(m)
    /\ rooms[m] # Nothing => rooms'[m] # Nothing \/ ~Creating(m)'

LEMMA StepsMoveFairly ==
    ASSUME PoolInv, [Next]_vars, NEW m \in Meetings
    PROVE  MovesFairly(m)
  <1>1. CASE rooms' = rooms
    BY <1>1 DEF MovesFairly
  <1>2. ASSUME NEW n \in Meetings, MeetingEmpties(n)
        PROVE  MovesFairly(m)
    <2>1. rooms' = rooms \/ rooms' = [rooms EXCEPT ![n] = Nothing]
      BY <1>2 DEF MeetingEmpties
    <2>2. creations' = Marked(n, FALSE)
      BY <1>2 DEF MeetingEmpties, Marked
    <2>3. rooms \in [Meetings -> Routers \cup {Nothing}]
      BY DEF PoolInv, TypeOK
    <2>4. Creating(m)' => Creating(m)
      <3>1. TypeOK /\ FALSE \in BOOLEAN
        BY DEF PoolInv
      <3>2. \A d \in Marked(n, FALSE) :
               \E c \in creations : /\ Same(c, d)
                                    /\ d = IF c.meeting = n THEN [c EXCEPT !.awaited = FALSE] ELSE c
        BY <3>1, MarkedSame
      <3>3. \A d \in Marked(n, FALSE) : \E c \in creations : c.meeting = d.meeting
        BY <3>2 DEF Same
      <3> QED BY <2>2, <3>3 DEF Creating
    <2>5. rooms[m] # Nothing => ~Creating(m)
      BY DEF PoolInv, CreationsAreOne, Creating
    <2> QED BY <2>1, <2>3, <2>4, <2>5 DEF MovesFairly
  <1>3. ASSUME NEW c \in creations, ObserverCreated(c)
        PROVE  MovesFairly(m)
    <2>1. rooms' = [rooms EXCEPT ![c.meeting] = c.router]
      BY <1>3 DEF ObserverCreated
    <2>2. rooms \in [Meetings -> Routers \cup {Nothing}] /\ c.router # Nothing
      BY DEF PoolInv, TypeOK, Creations, Routers, Nothing
    <2>3. m = c.meeting => Creating(m)
      BY DEF Creating
    <2> QED BY <2>1, <2>2, <2>3 DEF MovesFairly
  <1>4. ASSUME NEW n \in Meetings, JoinStanding(n) \/ JoinFirst(n) \/ JoinPending(n)
        PROVE  rooms' = rooms
    BY <1>4 DEF JoinStanding, JoinFirst, JoinPending
  <1>5. ASSUME NEW c \in creations, RouterCreated(c) \/ CreationFails(c)
        PROVE  rooms' = rooms
    BY <1>5 DEF RouterCreated, CreationFails
  <1>6. ASSUME NEW p \in Pids, WorkerDies(p)
        PROVE  rooms' = rooms
    BY <1>6 DEF WorkerDies
  <1>7. ASSUME NEW i \in Indexes, SpawnStep(i)
        PROVE  rooms' = rooms
    BY <1>7 DEF SpawnStep, ProcessStarted, ServerCreated, SpawnFails, roomVars
  <1>8. Shutdown \/ UNCHANGED vars => rooms' = rooms
    BY DEF Shutdown, vars, roomVars
  <1> QED BY <1>1, <1>2, <1>3, <1>4, <1>5, <1>6, <1>7, <1>8 DEF Next, CreationStep

(* A router is created in the background, stands until it is closed, and a *)
(* room is never handed back to a creation: what MeetingRoom assumes of    *)
(* the router manager holds of it on any pool, worker deaths included.     *)
THEOREM PoolKeepsContract == Spec => Contract!ContractSafety
  <1> DEFINE states == [m \in Meetings |-> RouterState(m)]
  <1>1. Init => states = [m \in Meetings |-> "none"]
    BY DEF Init, RouterState
  <1>2. PoolInv /\ [Next]_vars => Contract!ContractNext
    <2> SUFFICES ASSUME PoolInv, [Next]_vars, NEW m \in Meetings
                 PROVE  states'[m] = states[m] \/ Contract!Step(m)
      BY DEF Contract!ContractNext
    <2>1. states[m] = RouterState(m) /\ states'[m] = RouterState(m)'
      OBVIOUS
    <2>2. MovesFairly(m)
      BY StepsMoveFairly
    <2>3. /\ RouterState(m) \in {"none", "pending", "ready"}
          /\ RouterState(m)' \in {"none", "pending", "ready"}
      BY DEF RouterState
    <2>4. ~(RouterState(m) = "none" /\ RouterState(m)' = "ready")
      BY <2>2 DEF MovesFairly, Creating, RouterState
    <2>5. ~(RouterState(m) = "ready" /\ RouterState(m)' = "pending")
      BY <2>2 DEF MovesFairly, Creating, RouterState
    <2> HIDE DEF states
    <2> QED BY <2>1, <2>3, <2>4, <2>5 DEF Contract!Step, Contract!Becomes, states
  <1> QED BY <1>1, <1>2, PoolInvariant, PTL DEF Spec, Contract!ContractSafety
=============================================================================
