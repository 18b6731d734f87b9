--------------------------- MODULE Traffic_proofs ---------------------------
(***************************************************************************)
(* Proofs about Traffic, for any connections, limits and windows.          *)
(***************************************************************************)
EXTENDS Traffic, FiniteSetTheorems, SequenceTheorems, TLAPS

(* Every accepted hit that still falls into the window is in the list.     *)
Counting(set, l) == {h \in set : now - h.at < Window[l]}
Covered(l, key)  == Counting(accepted[l][key], l) \subseteq hits[l][key]

(* What was accepted is finite, in the past, and all a list can hold.      *)
Counted ==
    \A l \in Limiters, key \in Keys :
        /\ hits[l][key] \subseteq accepted[l][key]
        /\ IsFiniteSet(accepted[l][key])
        /\ \A h \in accepted[l][key] : h.at <= now

(* Only the event limiter forgets, and only closed connections.            *)
Remembered ==
    \A l \in Limiters, key \in Keys : (l # "event" \/ key \in connected) => Covered(l, key)

(* A connection that was never opened has sent nothing.                    *)
Unheard ==
    \A s \in Sockets : auth[s] = "none" => s \notin connected /\ accepted["event"][s] = {}

LimiterInv == TypeOK /\ Counted /\ Remembered /\ Unheard /\ NeverOverLimit /\ RefusedOnlyAtLimit

(* ClosedAreForgotten and the chat need who may hold a seat.               *)
EndedIsLeft == ended => \A s \in Sockets : seat[s] = "out"

USE LimitsAssumption, HistoryAssumption, BoundsAssumption

----------------------------------------------------------------------------
(* A call of a limiter whose list holds every hit that counts.             *)

(* NewHit is a hit.                                                        *)
LEMMA NewHitIsHit ==
    ASSUME TypeOK, Counted, NEW l \in Limiters, NEW key \in Keys
    PROVE  NewHit(l, key) \in Hit /\ NewHit(l, key).at = now
  BY FS_CardinalityType DEF TypeOK, Counted, NewHit, Hit

(* The list a call filters is exactly what counts against the key.         *)
LEMMA RecentIsCounting ==
    ASSUME TypeOK, Counted, NEW l \in Limiters, NEW key \in Keys, Covered(l, key)
    PROVE  /\ Recent(l, key) = Counting(accepted[l][key], l)
           /\ IsFiniteSet(Recent(l, key))
           /\ Cardinality(Recent(l, key)) \in Nat
  <1>1. Recent(l, key) = Counting(accepted[l][key], l)
    BY DEF Counted, Covered, Counting, Recent
  <1>2. Recent(l, key) \subseteq accepted[l][key]
    BY <1>1 DEF Counting
  <1>3. IsFiniteSet(Recent(l, key))
    BY <1>2, FS_Subset DEF Counted
  <1> QED BY <1>1, <1>3, FS_CardinalityType

(* What counts at this instant never exceeds the limit.                    *)
LEMMA CountingWithinLimit ==
    ASSUME LimiterInv, NEW l \in Limiters, NEW key \in Keys
    PROVE  Cardinality(Counting(accepted[l][key], l)) <= MaxHits[l]
  <1> DEFINE set == accepted[l][key]
  <1>1. now \in Nat /\ Window[l] \in Nat /\ MaxHits[l] \in Nat
    BY DEF LimiterInv, TypeOK
  <1>2. \A h \in set : h.at \in Nat /\ h.at <= now
    BY DEF LimiterInv, TypeOK, Counted, Hit
  <1>3. CASE Window[l] = 0
    <2>1. Counting(set, l) = {}
      BY <1>1, <1>2, <1>3 DEF Counting
    <2> QED BY <1>1, <2>1, FS_EmptySet
  <1>4. CASE Window[l] # 0
    <2> DEFINE t == IF now + 1 >= Window[l] THEN now + 1 - Window[l] ELSE 0
    <2>1. t \in 0..now
      BY <1>1, <1>4
    <2>2. Counting(set, l) \subseteq InWindow(set, l, t)
      BY <1>1, <1>2, <1>4 DEF Counting, InWindow
    <2>3. IsFiniteSet(InWindow(set, l, t))
      <3>1. InWindow(set, l, t) \subseteq set
        BY DEF InWindow
      <3> QED BY <3>1, FS_Subset DEF LimiterInv, Counted
    <2>4. Cardinality(InWindow(set, l, t)) <= MaxHits[l]
      BY <2>1 DEF LimiterInv, NeverOverLimit
    <2>5. /\ Cardinality(Counting(set, l)) <= Cardinality(InWindow(set, l, t))
          /\ IsFiniteSet(Counting(set, l))
      BY <2>2, <2>3, FS_Subset
    <2>6. /\ Cardinality(Counting(set, l)) \in Nat
          /\ Cardinality(InWindow(set, l, t)) \in Nat
      BY <2>3, <2>5, FS_CardinalityType
    <2> HIDE DEF t
    <2> QED BY <1>1, <2>4, <2>5, <2>6
  <1> QED BY <1>3, <1>4

(* An accepted hit keeps every window within the limit.                    *)
LEMMA AcceptedFits ==
    ASSUME LimiterInv, NEW l \in Limiters, NEW key \in Keys, Covered(l, key),
           Admits(l, key), NEW t \in 0..now
    PROVE  Cardinality(InWindow(accepted[l][key] \cup {NewHit(l, key)}, l, t)) <= MaxHits[l]
  <1> DEFINE set == accepted[l][key]
             hit == NewHit(l, key)
             old == InWindow(set, l, t)
             new == InWindow(set \cup {hit}, l, t)
  <1>1. now \in Nat /\ Window[l] \in Nat /\ MaxHits[l] \in Nat
    BY DEF LimiterInv, TypeOK
  <1>2. \A h \in set : h.at \in Nat /\ h.at <= now
    BY DEF LimiterInv, TypeOK, Counted, Hit
  <1>3. old \subseteq set
    BY DEF InWindow
  <1>4. IsFiniteSet(old) /\ Cardinality(old) \in Nat
    BY <1>3, FS_Subset, FS_CardinalityType DEF LimiterInv, Counted
  <1>5. hit.at = now
    BY NewHitIsHit DEF LimiterInv
  <1>6. CASE now < t + Window[l]
    <2>1. old \subseteq Recent(l, key)
      <3>1. old \subseteq Counting(set, l)
        BY <1>1, <1>2, <1>6 DEF InWindow, Counting
      <3> QED BY <3>1, RecentIsCounting DEF LimiterInv
    <2>2. Cardinality(old) <= Cardinality(Recent(l, key))
      BY <2>1, RecentIsCounting, FS_Subset DEF LimiterInv
    <2>3. Cardinality(old) < MaxHits[l]
      BY <1>1, <1>4, <2>2, RecentIsCounting DEF Admits, LimiterInv
    <2>4. new \subseteq old \cup {hit}
      BY DEF InWindow
    <2>5. /\ IsFiniteSet(old \cup {hit})
          /\ Cardinality(old \cup {hit}) <= Cardinality(old) + 1
      <3> HIDE DEF old, hit
      <3>1. /\ IsFiniteSet(old \cup {hit})
            /\ \/ Cardinality(old \cup {hit}) = Cardinality(old)
               \/ Cardinality(old \cup {hit}) = Cardinality(old) + 1
        BY <1>4, FS_AddElement
      <3> QED BY <1>4, <3>1
    <2>6. IsFiniteSet(new) /\ Cardinality(new) <= Cardinality(old \cup {hit})
      BY <2>4, <2>5, FS_Subset
    <2>7. Cardinality(new) \in Nat /\ Cardinality(old \cup {hit}) \in Nat
      BY <2>5, <2>6, FS_CardinalityType
    <2> HIDE DEF new, old, hit
    <2>8. Cardinality(new) <= MaxHits[l]
      BY <1>1, <1>4, <2>3, <2>5, <2>6, <2>7
    <2> QED BY <2>8 DEF new, hit
  <1>7. CASE ~ (now < t + Window[l])
    <2>1. new = old
      BY <1>1, <1>5, <1>7 DEF InWindow
    <2>2. Cardinality(old) <= MaxHits[l]
      BY DEF LimiterInv, NeverOverLimit
    <2> QED BY <2>1, <2>2
  <1> QED BY <1>6, <1>7

(* Put changes the list of one key of one limiter.                         *)
LEMMA PutChangesOne ==
    ASSUME NEW map \in [Limiters -> [Keys -> SUBSET Hit]], NEW l \in Limiters, NEW key \in Keys,
           NEW value \in SUBSET Hit
    PROVE  /\ Put(map, l, key, value) \in [Limiters -> [Keys -> SUBSET Hit]]
           /\ Put(map, l, key, value)[l][key] = value
           /\ \A m \in Limiters, k \in Keys :
                 <<m, k>> # <<l, key>> => Put(map, l, key, value)[m][k] = map[m][k]
  BY DEF Put

(* What a call leaves behind: of its own key, and of every other.          *)
LEMMA CallEffect ==
    ASSUME LimiterInv, NEW l \in Limiters, NEW key \in Keys, Covered(l, key), Recorded(l, key)
    PROVE  /\ AfterCall(l, key) \in [Limiters -> [Keys -> SUBSET Hit]]
           /\ accepted' \in [Limiters -> [Keys -> SUBSET Hit]]
           /\ refused' \subseteq Limiters \X Keys
           /\ \A m \in Limiters, k \in Keys : <<m, k>> # <<l, key>> =>
                 /\ accepted'[m][k] = accepted[m][k]
                 /\ AfterCall(l, key)[m][k] = hits[m][k]
                 /\ <<m, k>> \in refused' => <<m, k>> \in refused
           /\ \/ /\ Admits(l, key)
                 /\ accepted'[l][key] = accepted[l][key] \cup {NewHit(l, key)}
                 /\ AfterCall(l, key)[l][key] = Recent(l, key) \cup {NewHit(l, key)}
                 /\ refused' = refused
              \/ /\ ~Admits(l, key)
                 /\ accepted'[l][key] = accepted[l][key]
                 /\ AfterCall(l, key)[l][key] \in {hits[l][key], Recent(l, key)}
  <1>1. NewHit(l, key) \in Hit /\ Recent(l, key) \subseteq Hit
    BY NewHitIsHit DEF LimiterInv, TypeOK, Recent
  <1>2. hits \in [Limiters -> [Keys -> SUBSET Hit]] /\ accepted \in [Limiters -> [Keys -> SUBSET Hit]]
    BY DEF LimiterInv, TypeOK
  <1>3. refused \subseteq Limiters \X Keys
    BY DEF LimiterInv, TypeOK
  <1>4. CASE Admits(l, key)
    <2> DEFINE list == Recent(l, key) \cup {NewHit(l, key)}
               all == accepted[l][key] \cup {NewHit(l, key)}
    <2>1. list \in SUBSET Hit /\ all \in SUBSET Hit
      BY <1>1, <1>2
    <2>2. AfterCall(l, key) = Put(hits, l, key, list)
      BY <1>4 DEF AfterCall
    <2>3. accepted' = Put(accepted, l, key, all) /\ refused' = refused
      BY <1>4 DEF Recorded
    <2> HIDE DEF list, all
    <2>4. /\ AfterCall(l, key) \in [Limiters -> [Keys -> SUBSET Hit]]
          /\ AfterCall(l, key)[l][key] = list
          /\ \A m \in Limiters, k \in Keys :
                <<m, k>> # <<l, key>> => AfterCall(l, key)[m][k] = hits[m][k]
      <3>1. /\ Put(hits, l, key, list) \in [Limiters -> [Keys -> SUBSET Hit]]
            /\ Put(hits, l, key, list)[l][key] = list
            /\ \A m \in Limiters, k \in Keys :
                  <<m, k>> # <<l, key>> => Put(hits, l, key, list)[m][k] = hits[m][k]
        BY <1>2, <2>1, PutChangesOne
      <3> QED BY <2>2, <3>1
    <2>5. /\ accepted' \in [Limiters -> [Keys -> SUBSET Hit]]
          /\ accepted'[l][key] = all
          /\ \A m \in Limiters, k \in Keys :
                <<m, k>> # <<l, key>> => accepted'[m][k] = accepted[m][k]
      <3>1. /\ Put(accepted, l, key, all) \in [Limiters -> [Keys -> SUBSET Hit]]
            /\ Put(accepted, l, key, all)[l][key] = all
            /\ \A m \in Limiters, k \in Keys :
                  <<m, k>> # <<l, key>> => Put(accepted, l, key, all)[m][k] = accepted[m][k]
        BY <1>2, <2>1, PutChangesOne
      <3> QED BY <2>3, <3>1
    <2> QED BY <1>3, <1>4, <2>3, <2>4, <2>5 DEF list, all
  <1>5. CASE ~Admits(l, key)
    <2>1. Refusal(l, key) \in SUBSET Hit /\ Refusal(l, key) \in {hits[l][key], Recent(l, key)}
      BY <1>1, <1>2 DEF Refusal
    <2>2. AfterCall(l, key) = Put(hits, l, key, Refusal(l, key))
      BY <1>5 DEF AfterCall
    <2>3. accepted' = accepted /\ refused' = refused \cup {<<l, key>>}
      BY <1>5 DEF Recorded
    <2>4. /\ AfterCall(l, key) \in [Limiters -> [Keys -> SUBSET Hit]]
          /\ AfterCall(l, key)[l][key] = Refusal(l, key)
          /\ \A m \in Limiters, k \in Keys :
                <<m, k>> # <<l, key>> => AfterCall(l, key)[m][k] = hits[m][k]
      <3>1. /\ Put(hits, l, key, Refusal(l, key)) \in [Limiters -> [Keys -> SUBSET Hit]]
            /\ Put(hits, l, key, Refusal(l, key))[l][key] = Refusal(l, key)
            /\ \A m \in Limiters, k \in Keys :
                  <<m, k>> # <<l, key>> => Put(hits, l, key, Refusal(l, key))[m][k] = hits[m][k]
        BY <1>2, <2>1, PutChangesOne
      <3> QED BY <2>2, <3>1
    <2> QED BY <1>2, <1>3, <1>5, <2>1, <2>3, <2>4
  <1> QED BY <1>4, <1>5

(* A call keeps both sides of the limit, and its list keeps what counts.   *)
LEMMA CallKeeps ==
    ASSUME LimiterInv, NEW l \in Limiters, NEW key \in Keys, Covered(l, key), Recorded(l, key),
           now' = now
    PROVE  /\ NeverOverLimit' /\ RefusedOnlyAtLimit'
           /\ \A m \in Limiters, k \in Keys :
                 /\ AfterCall(l, key)[m][k] \subseteq accepted'[m][k]
                 /\ IsFiniteSet(accepted'[m][k])
                 /\ \A h \in accepted'[m][k] : h.at <= now
                 /\ Covered(m, k) => Counting(accepted'[m][k], m) \subseteq AfterCall(l, key)[m][k]
  <1>1. \A m \in Limiters, k \in Keys : <<m, k>> # <<l, key>> =>
           /\ accepted'[m][k] = accepted[m][k]
           /\ AfterCall(l, key)[m][k] = hits[m][k]
           /\ <<m, k>> \in refused' => <<m, k>> \in refused
    BY CallEffect
  <1>2. \/ /\ Admits(l, key)
           /\ accepted'[l][key] = accepted[l][key] \cup {NewHit(l, key)}
           /\ AfterCall(l, key)[l][key] = Recent(l, key) \cup {NewHit(l, key)}
           /\ refused' = refused
        \/ /\ ~Admits(l, key)
           /\ accepted'[l][key] = accepted[l][key]
           /\ AfterCall(l, key)[l][key] \in {hits[l][key], Recent(l, key)}
    BY CallEffect
  <1>3. TypeOK /\ Counted
    BY DEF LimiterInv
  <1>4. Recent(l, key) = Counting(accepted[l][key], l)
    BY <1>3, RecentIsCounting
  <1>5. NewHit(l, key).at = now /\ now \in Nat
    BY <1>3, NewHitIsHit DEF TypeOK
  <1>6. NeverOverLimit'
    <2> SUFFICES ASSUME NEW m \in Limiters, NEW k \in Keys, NEW t \in 0..now
                 PROVE  Cardinality(InWindow(accepted'[m][k], m, t)) <= MaxHits[m]
      BY DEF NeverOverLimit, InWindow
    <2>1. CASE accepted'[m][k] = accepted[m][k]
      BY <2>1 DEF LimiterInv, NeverOverLimit
    <2>2. CASE accepted'[m][k] # accepted[m][k]
      <3>1. m = l /\ k = key /\ Admits(l, key)
        BY <1>1, <1>2, <2>2
      <3> QED BY <1>2, <3>1, AcceptedFits
    <2> QED BY <2>1, <2>2
  <1>7. RefusedOnlyAtLimit'
    <2> SUFFICES ASSUME NEW m \in Limiters, NEW k \in Keys, <<m, k>> \in refused'
                 PROVE  Cardinality(Counting(accepted'[m][k], m)) = MaxHits[m]
      BY DEF RefusedOnlyAtLimit, Counting
    <2>1. CASE <<m, k>> # <<l, key>>
      BY <1>1, <2>1 DEF LimiterInv, RefusedOnlyAtLimit, Counting
    <2>2. CASE m = l /\ k = key
      <3>1. Cardinality(Counting(accepted[l][key], l)) <= MaxHits[l]
        BY CountingWithinLimit
      <3>2. Cardinality(Counting(accepted[l][key], l)) \in Nat
        BY <1>3, <1>4, RecentIsCounting
      <3>3. MaxHits[l] \in Nat
        OBVIOUS
      <3>4. CASE Admits(l, key)
        <4>1. <<l, key>> \in refused
          BY <1>2, <2>2, <3>4
        <4>2. Cardinality(Counting(accepted[l][key], l)) = MaxHits[l]
          BY <4>1 DEF LimiterInv, RefusedOnlyAtLimit, Counting
        <4> QED BY <1>4, <3>2, <3>3, <3>4, <4>2 DEF Admits
      <3>5. CASE ~Admits(l, key)
        <4>1. ~(Cardinality(Counting(accepted[l][key], l)) < MaxHits[l])
          BY <1>4, <3>5 DEF Admits
        <4>2. accepted'[m][k] = accepted[l][key]
          BY <1>2, <2>2, <3>5
        <4> QED BY <2>2, <3>1, <3>2, <3>3, <4>1, <4>2
      <3> QED BY <3>4, <3>5
    <2> QED BY <2>1, <2>2
  <1>8. ASSUME NEW m \in Limiters, NEW k \in Keys
        PROVE  /\ AfterCall(l, key)[m][k] \subseteq accepted'[m][k]
               /\ IsFiniteSet(accepted'[m][k])
               /\ \A h \in accepted'[m][k] : h.at <= now
               /\ Covered(m, k) => Counting(accepted'[m][k], m) \subseteq AfterCall(l, key)[m][k]
    <2>1. CASE <<m, k>> # <<l, key>>
      BY <1>1, <1>3, <2>1 DEF Counted, Covered
    <2>2. CASE m = l /\ k = key
      <3>1. /\ hits[l][key] \subseteq accepted[l][key]
            /\ IsFiniteSet(accepted[l][key])
            /\ \A h \in accepted[l][key] : h.at <= now
            /\ Recent(l, key) \subseteq accepted[l][key]
            /\ Counting(accepted[l][key], l) \subseteq hits[l][key]
        BY <1>3, <1>4 DEF Counted, Counting, Covered
      <3>2. IsFiniteSet(accepted'[l][key])
        BY <1>2, <3>1, FS_AddElement
      <3>3. Counting(accepted[l][key] \cup {NewHit(l, key)}, l)
                \subseteq Counting(accepted[l][key], l) \cup {NewHit(l, key)}
        BY DEF Counting
      <3>4. CASE Admits(l, key)
        <4>1. Counting(accepted'[l][key], l) \subseteq AfterCall(l, key)[l][key]
          BY <1>2, <1>4, <3>3, <3>4
        <4> QED BY <1>2, <1>5, <2>2, <3>1, <3>2, <3>4, <4>1
      <3>5. CASE ~Admits(l, key)
        BY <1>2, <1>4, <2>2, <3>1, <3>2, <3>5
      <3> QED BY <3>4, <3>5
    <2> QED BY <2>1, <2>2
  <1> QED BY <1>6, <1>7, <1>8

----------------------------------------------------------------------------
(* What each kind of step does to the limiters.                            *)

LimiterPart == Counted /\ Remembered /\ Unheard /\ NeverOverLimit /\ RefusedOnlyAtLimit

LimiterTypes ==
    /\ hits \in [Limiters -> [Keys -> SUBSET Hit]]
    /\ accepted \in [Limiters -> [Keys -> SUBSET Hit]]
    /\ refused \subseteq Limiters \X Keys

(* Authentication only moves on, and no connection opens.                  *)
NobodyNew ==
    /\ now' = now
    /\ connected' \subseteq connected
    /\ \A s \in Sockets : auth'[s] = "none" => auth[s] = "none"

LEMMA KeysHold ==
    ASSUME NEW s \in Sockets
    PROVE  s \in Keys /\ UserOf[s] \in Keys /\ AddressOf[s] \in Keys
  BY DEF Keys

LEMMA LimitersHold ==
    "connection" \in Limiters /\ "event" \in Limiters /\ "reaction" \in Limiters /\ "key" \in Limiters
  BY DEF Limiters

(* A call for a key that is remembered.                                    *)
LEMMA CallStep ==
    ASSUME LimiterInv, NEW l \in Limiters, NEW key \in Keys, l = "event" => key \in connected,
           Consume(l, key), NobodyNew
    PROVE  LimiterPart' /\ LimiterTypes'
  <1>1. Covered(l, key)
    BY DEF LimiterInv, Remembered
  <1>2. hits' = AfterCall(l, key) /\ Recorded(l, key) /\ now' = now
    BY DEF Consume, NobodyNew
  <1>3. NeverOverLimit' /\ RefusedOnlyAtLimit'
    BY <1>1, <1>2, CallKeeps
  <1>4. LimiterTypes'
    BY <1>1, <1>2, CallEffect DEF LimiterTypes
  <1>5. \A m \in Limiters, k \in Keys :
           /\ hits'[m][k] \subseteq accepted'[m][k]
           /\ IsFiniteSet(accepted'[m][k])
           /\ \A h \in accepted'[m][k] : h.at <= now
           /\ Covered(m, k) => Counting(accepted'[m][k], m) \subseteq hits'[m][k]
    BY <1>1, <1>2, CallKeeps
  <1>6. Counted'
    BY <1>2, <1>5 DEF Counted
  <1>7. Remembered'
    <2>1. \A m \in Limiters, k \in Keys : Covered(m, k) => Covered(m, k)'
      BY <1>2, <1>5 DEF Covered, Counting
    <2> QED BY <2>1 DEF LimiterInv, Remembered, NobodyNew
  <1>8. Unheard'
    <2> SUFFICES ASSUME NEW s \in Sockets, auth'[s] = "none"
                 PROVE  s \notin connected' /\ accepted'["event"][s] = {}
      BY DEF Unheard
    <2>1. s \notin connected /\ accepted["event"][s] = {}
      BY DEF LimiterInv, Unheard, NobodyNew
    <2>2. <<"event", s>> # <<l, key>>
      BY <2>1
    <2>3. accepted'["event"][s] = accepted["event"][s]
      <3>1. s \in Keys /\ "event" \in Limiters
        BY KeysHold, LimitersHold
      <3>2. \A m \in Limiters, k \in Keys : <<m, k>> # <<l, key>> =>
               /\ accepted'[m][k] = accepted[m][k]
               /\ AfterCall(l, key)[m][k] = hits[m][k]
               /\ <<m, k>> \in refused' => <<m, k>> \in refused
        BY <1>1, <1>2, CallEffect
      <3> QED BY <2>2, <3>1, <3>2
    <2> QED BY <2>1, <2>3 DEF NobodyNew
  <1> QED BY <1>3, <1>4, <1>6, <1>7, <1>8 DEF LimiterPart

(* A step that calls no limiter.                                           *)
LEMMA QuietStep ==
    ASSUME LimiterInv, UNCHANGED limiterVars, NobodyNew
    PROVE  LimiterPart' /\ LimiterTypes'
  <1>1. Counted' /\ NeverOverLimit' /\ RefusedOnlyAtLimit' /\ LimiterTypes'
    BY DEF LimiterInv, TypeOK, limiterVars, NobodyNew, Counted, NeverOverLimit,
           RefusedOnlyAtLimit, InWindow, LimiterTypes
  <1>2. Remembered' /\ Unheard'
    BY DEF LimiterInv, limiterVars, NobodyNew, Remembered, Covered, Counting, Unheard
  <1> QED BY <1>1, <1>2 DEF LimiterPart

(* The event list of a connection that has closed is dropped, from lists   *)
(* that kept what counts.                                                  *)
LEMMA ReleaseStep ==
    ASSUME LimiterTypes', NeverOverLimit', RefusedOnlyAtLimit', Unheard', NEW s \in Sockets,
           now' = now, connected' = connected \ {s},
           NEW lists \in [Limiters -> [Keys -> SUBSET Hit]], hits' = Released(lists, s),
           \A m \in Limiters, k \in Keys :
               /\ lists[m][k] \subseteq accepted'[m][k]
               /\ IsFiniteSet(accepted'[m][k])
               /\ \A h \in accepted'[m][k] : h.at <= now,
           \A m \in Limiters, k \in Keys :
               (m # "event" \/ k \in connected) => Counting(accepted'[m][k], m) \subseteq lists[m][k]
    PROVE  LimiterPart' 
  <1>1. /\ hits'["event"][s] = {}
        /\ \A m \in Limiters, k \in Keys : <<m, k>> # <<"event", s>> => hits'[m][k] = lists[m][k]
    <2>1. hits' = Put(lists, "event", s, {}) /\ {} \in SUBSET Hit
      BY DEF Released
    <2>2. s \in Keys /\ "event" \in Limiters
      BY KeysHold, LimitersHold
    <2> HIDE DEF Put
    <2>3. Put(lists, "event", s, {})["event"][s] = {}
      BY <2>1, <2>2, PutChangesOne
    <2>4. \A m \in Limiters, k \in Keys :
             <<m, k>> # <<"event", s>> => Put(lists, "event", s, {})[m][k] = lists[m][k]
      BY <2>1, <2>2, PutChangesOne
    <2> QED BY <2>1, <2>3, <2>4
  <1>2. Counted'
    BY <1>1 DEF Counted
  <1>3. Remembered'
    <2> SUFFICES ASSUME NEW m \in Limiters, NEW k \in Keys, m # "event" \/ k \in connected'
                 PROVE  Covered(m, k)'
      BY DEF Remembered
    <2>1. <<m, k>> # <<"event", s>> /\ (m # "event" \/ k \in connected)
      OBVIOUS
    <2>2. Counting(accepted'[m][k], m) \subseteq hits'[m][k]
      BY <1>1, <2>1
    <2> QED BY <2>2, Zenon DEF Covered, Counting
  <1> QED BY <1>2, <1>3 DEF LimiterPart

(* Time passes: the windows end later, and nobody is refused any more.     *)
LEMMA TickStep ==
    ASSUME LimiterInv, Tick
    PROVE  LimiterPart' /\ LimiterTypes'
  <1>1. /\ now \in Nat /\ now' = now + 1 /\ refused' = {}
        /\ UNCHANGED <<hits, accepted, connected, auth>>
    BY DEF LimiterInv, TypeOK, Tick
  <1>2. \A m \in Limiters, k \in Keys : \A h \in accepted[m][k] : h.at \in Nat /\ h.at <= now
    BY DEF LimiterInv, TypeOK, Hit, Counted
  <1>3. Counted'
    <2>1. \A m \in Limiters, k \in Keys : \A h \in accepted[m][k] : h.at <= now + 1
      BY <1>1, <1>2
    <2> QED BY <1>1, <2>1 DEF LimiterInv, Counted
  <1>4. Remembered'
    <2> SUFFICES ASSUME NEW m \in Limiters, NEW k \in Keys, m # "event" \/ k \in connected
                 PROVE  Covered(m, k)'
      BY <1>1 DEF Remembered
    <2>1. Covered(m, k)
      BY DEF LimiterInv, Remembered
    <2>2. Window[m] \in Nat
      OBVIOUS
    <2>4. {h \in accepted'[m][k] : now' - h.at < Window[m]} \subseteq hits'[m][k]
      <3>1. accepted' = accepted /\ hits' = hits /\ now' = now + 1
        BY <1>1
      <3>2. ASSUME NEW h \in accepted[m][k], now' - h.at < Window[m]
            PROVE  h \in hits[m][k]
        <4>1. now - h.at < Window[m]
          BY <1>1, <1>2, <2>2, <3>2
        <4> QED BY <2>1, <4>1 DEF Covered, Counting
      <3> QED BY <3>1, <3>2
    <2> QED BY <2>4, Zenon DEF Covered, Counting
  <1>5. Unheard' /\ RefusedOnlyAtLimit'
    BY <1>1 DEF LimiterInv, Unheard, RefusedOnlyAtLimit
  <1>6. NeverOverLimit'
    <2> SUFFICES ASSUME NEW m \in Limiters, NEW k \in Keys, NEW t \in 0..(now + 1)
                 PROVE  Cardinality(InWindow(accepted[m][k], m, t)) <= MaxHits[m]
      BY <1>1 DEF NeverOverLimit, InWindow
    <2>1. CASE t \in 0..now
      BY <2>1 DEF LimiterInv, NeverOverLimit
    <2>2. CASE t = now + 1
      <3>1. InWindow(accepted[m][k], m, t) = {}
        BY <1>1, <1>2, <2>2 DEF InWindow
      <3> QED BY <3>1, FS_EmptySet
    <2> QED BY <1>1, <2>1, <2>2
  <1>7. LimiterTypes'
    BY <1>1 DEF LimiterTypes, LimiterInv, TypeOK
  <1> QED BY <1>3, <1>4, <1>5, <1>6, <1>7 DEF LimiterPart

----------------------------------------------------------------------------
(* Every step keeps what the limiters know.                                *)

(* Nothing has happened yet.                                               *)
LEMMA InitLimiterInv == Init => LimiterInv
  <1> SUFFICES ASSUME Init PROVE LimiterInv
    OBVIOUS
  <1>1. TypeOK
    <2>1. hits = [l \in Limiters |-> [key \in Keys |-> {}]] /\ accepted = hits
      BY DEF Init
    <2>2. [l \in Limiters |-> [key \in Keys |-> {}]] \in [Limiters -> [Keys -> SUBSET Hit]]
      OBVIOUS
    <2>3. buffer \in Seq(Nat)
      BY DEF Init
    <2>4. refused \subseteq Limiters \X Keys
      BY DEF Init
    <2> QED BY <2>1, <2>2, <2>3, <2>4 DEF Init, TypeOK
  <1>2. \A l \in Limiters, key \in Keys : accepted[l][key] = {} /\ hits[l][key] = {}
    BY DEF Init
  <1>3. Counted /\ Remembered /\ RefusedOnlyAtLimit
    BY <1>2, FS_EmptySet DEF Init, Counted, Remembered, Covered, Counting, RefusedOnlyAtLimit
  <1>4. Unheard
    BY <1>2, KeysHold, LimitersHold DEF Init, Unheard
  <1>5. NeverOverLimit
    <2> SUFFICES ASSUME NEW l \in Limiters, NEW key \in Keys, NEW t \in 0..now
                 PROVE  Cardinality(InWindow(accepted[l][key], l, t)) <= MaxHits[l]
      BY DEF NeverOverLimit
    <2>1. InWindow(accepted[l][key], l, t) = {}
      BY <1>2 DEF InWindow
    <2> QED BY <2>1, FS_EmptySet
  <1> QED BY <1>1, <1>3, <1>4, <1>5 DEF LimiterInv

(* A connection opens: it has sent nothing yet.                            *)
LEMMA ConnectStep ==
    ASSUME LimiterInv, NEW s \in Sockets, Connect(s)
    PROVE  LimiterPart' /\ LimiterTypes'
  <1>1. UNCHANGED <<now, hits, accepted, refused>>
    BY DEF Connect, limiterVars
  <1>2. connected' = connected \cup {s} /\ auth' = [auth EXCEPT ![s] = "pending"] /\ auth[s] = "none"
    BY DEF Connect
  <1>3. auth \in [Sockets -> {"none", "pending", "user", "failed"}]
    BY DEF LimiterInv, TypeOK
  <1>4. Counted' /\ NeverOverLimit' /\ RefusedOnlyAtLimit' /\ LimiterTypes'
    <2>1. Counted' /\ LimiterTypes'
      BY <1>1 DEF LimiterInv, TypeOK, Counted, LimiterTypes
    <2>2. NeverOverLimit' /\ RefusedOnlyAtLimit'
      BY <1>1 DEF LimiterInv, NeverOverLimit, RefusedOnlyAtLimit, InWindow
    <2> QED BY <2>1, <2>2
  <1>5. Remembered'
    <2> SUFFICES ASSUME NEW l \in Limiters, NEW key \in Keys, l # "event" \/ key \in connected'
                 PROVE  Covered(l, key)
      BY <1>1 DEF Remembered, Covered, Counting
    <2>1. CASE l # "event" \/ key \in connected
      BY <2>1 DEF LimiterInv, Remembered
    <2>2. CASE l = "event" /\ key = s
      <3>1. accepted["event"][s] = {}
        BY <1>2 DEF LimiterInv, Unheard
      <3> QED BY <2>2, <3>1 DEF Covered, Counting
    <2> QED BY <1>2, <2>1, <2>2
  <1>6. Unheard'
    BY <1>1, <1>2, <1>3 DEF LimiterInv, Unheard
  <1> QED BY <1>4, <1>5, <1>6 DEF LimiterPart

(* A connection closes, and its event list is dropped.                     *)
LEMMA DisconnectStep ==
    ASSUME LimiterInv, NEW s \in Sockets, Disconnect(s)
    PROVE  LimiterPart' /\ LimiterTypes'
  <1>1. /\ UNCHANGED <<now, accepted, refused, auth>>
        /\ connected' = connected \ {s} /\ hits' = Released(hits, s)
    BY DEF Disconnect, Gone
  <1>2. hits \in [Limiters -> [Keys -> SUBSET Hit]]
    BY DEF LimiterInv, TypeOK
  <1>3. LimiterTypes'
    <2>1. s \in Keys /\ "event" \in Limiters /\ {} \in SUBSET Hit
      BY KeysHold, LimitersHold
    <2>2. hits' \in [Limiters -> [Keys -> SUBSET Hit]]
      BY <1>1, <1>2, <2>1, PutChangesOne DEF Released
    <2> QED BY <1>1, <2>2 DEF LimiterInv, TypeOK, LimiterTypes
  <1>4. NeverOverLimit' /\ RefusedOnlyAtLimit' /\ Unheard'
    BY <1>1 DEF LimiterInv, NeverOverLimit, RefusedOnlyAtLimit, InWindow, Unheard
  <1>5. \A m \in Limiters, k \in Keys :
           /\ hits[m][k] \subseteq accepted'[m][k]
           /\ IsFiniteSet(accepted'[m][k])
           /\ \A h \in accepted'[m][k] : h.at <= now
    BY <1>1 DEF LimiterInv, Counted
  <1>6. \A m \in Limiters, k \in Keys :
           (m # "event" \/ k \in connected) => Counting(accepted'[m][k], m) \subseteq hits[m][k]
    BY <1>1 DEF LimiterInv, Remembered, Covered
  <1> QED BY <1>1, <1>2, <1>3, <1>4, <1>5, <1>6, ReleaseStep

(* A connection is refused after its call of the connection limiter.       *)
LEMMA RejectedStep ==
    ASSUME LimiterInv, NEW s \in Sockets, NEW key \in Keys, Rejected(s, key), now' = now,
           auth[s] = "pending"
    PROVE  LimiterPart' /\ LimiterTypes'
  <1> DEFINE lists == AfterCall("connection", key)
  <1>1. "connection" \in Limiters /\ "event" \in Limiters /\ s \in Keys /\ {} \in SUBSET Hit
    BY KeysHold, LimitersHold
  <1>2. Covered("connection", key) /\ Recorded("connection", key)
    BY <1>1 DEF LimiterInv, Remembered, Rejected
  <1>3. /\ connected' = connected \ {s} /\ hits' = Released(lists, s)
        /\ auth' = [auth EXCEPT ![s] = "failed"]
    BY DEF Rejected, Gone
  <1>4. /\ lists \in [Limiters -> [Keys -> SUBSET Hit]]
        /\ accepted' \in [Limiters -> [Keys -> SUBSET Hit]]
        /\ refused' \subseteq Limiters \X Keys
    BY <1>1, <1>2, CallEffect
  <1>5. \A m \in Limiters, k \in Keys : <<m, k>> # <<"connection", key>> =>
           /\ accepted'[m][k] = accepted[m][k]
           /\ lists[m][k] = hits[m][k]
           /\ <<m, k>> \in refused' => <<m, k>> \in refused
    BY <1>1, <1>2, CallEffect
  <1>6. NeverOverLimit' /\ RefusedOnlyAtLimit'
    BY <1>1, <1>2, CallKeeps
  <1>7. \A m \in Limiters, k \in Keys :
           /\ lists[m][k] \subseteq accepted'[m][k]
           /\ IsFiniteSet(accepted'[m][k])
           /\ \A h \in accepted'[m][k] : h.at <= now
           /\ Covered(m, k) => Counting(accepted'[m][k], m) \subseteq lists[m][k]
    BY <1>1, <1>2, CallKeeps
  <1> HIDE DEF lists
  <1>8. LimiterTypes'
    <2>1. hits' \in [Limiters -> [Keys -> SUBSET Hit]]
      BY <1>1, <1>3, <1>4, PutChangesOne DEF Released
    <2> QED BY <1>4, <2>1 DEF LimiterTypes
  <1>9. Unheard'
    <2> SUFFICES ASSUME NEW r \in Sockets, auth'[r] = "none"
                 PROVE  r \notin connected' /\ accepted'["event"][r] = {}
      BY DEF Unheard
    <2>1. auth[r] = "none"
      BY <1>3 DEF LimiterInv, TypeOK
    <2>2. r \notin connected /\ accepted["event"][r] = {}
      BY <2>1 DEF LimiterInv, Unheard
    <2>3. r \in Keys /\ <<"event", r>> # <<"connection", key>>
      BY KeysHold
    <2>4. accepted'["event"][r] = accepted["event"][r]
      BY <1>1, <1>5, <2>3
    <2> QED BY <1>3, <2>2, <2>4
  <1>10. \A m \in Limiters, k \in Keys :
            (m # "event" \/ k \in connected) => Counting(accepted'[m][k], m) \subseteq lists[m][k]
    BY <1>7 DEF LimiterInv, Remembered
  <1> QED BY <1>3, <1>4, <1>6, <1>7, <1>8, <1>9, <1>10, ReleaseStep

LEMMA NextLimiter ==
    ASSUME LimiterInv, Next
    PROVE  LimiterPart' /\ LimiterTypes'
  <1> USE KeysHold, LimitersHold
  <1>0. auth \in [Sockets -> {"none", "pending", "user", "failed"}] /\ connected \subseteq Sockets
    BY DEF LimiterInv, TypeOK
  <1>1. ASSUME NEW s \in Sockets, ConnectionStep(s)
        PROVE  LimiterPart' /\ LimiterTypes'
    <2>1. CASE Connect(s)
      BY <2>1, ConnectStep
    <2>2. CASE Authenticated(s)
      <3>1. now' = now /\ auth[s] = "pending"
        BY <2>2 DEF Authenticated
      <3>2. CASE Admitted(s)
        <4>1. NobodyNew /\ Consume("connection", UserOf[s])
          BY <1>0, <3>1, <3>2 DEF Admitted, NobodyNew
        <4> QED BY <4>1, CallStep
      <3>3. CASE Rejected(s, UserOf[s])
        BY <3>1, <3>3, RejectedStep
      <3>4. CASE Rejected(s, AddressOf[s])
        BY <3>1, <3>4, RejectedStep
      <3> QED BY <2>2, <3>2, <3>3, <3>4 DEF Authenticated
    <2>3. CASE Disconnect(s)
      BY <2>3, DisconnectStep
    <2>4. CASE GuardedEvent(s)
      <3>1. NobodyNew /\ Consume("event", s) /\ s \in connected
        BY <2>4 DEF GuardedEvent, NobodyNew, May
      <3> QED BY <3>1, CallStep
    <2>5. CASE CreateKey(s)
      <3>1. NobodyNew /\ Consume("key", AddressOf[s])
        BY <2>5 DEF CreateKey, NobodyNew
      <3> QED BY <3>1, CallStep
    <2> QED BY <1>1, <2>1, <2>2, <2>3, <2>4, <2>5 DEF ConnectionStep
  <1>2. ASSUME NEW s \in Sockets, MeetingStep(s)
        PROVE  LimiterPart' /\ LimiterTypes'
    <2>1. CASE JoinRoom(s)
      <3>1. NobodyNew /\ Consume("event", s) /\ s \in connected
        BY <2>1 DEF JoinRoom, NobodyNew, May
      <3> QED BY <3>1, CallStep
    <2>2. CASE Reaction(s)
      <3>1. NobodyNew /\ Consume("reaction", UserOf[s])
        BY <2>2 DEF Reaction, NobodyNew
      <3> QED BY <3>1, CallStep
    <2>3. CASE JoinAnswered(s) \/ LeaveRoom(s) \/ ChatMessage(s)
      <3>1. NobodyNew /\ UNCHANGED limiterVars
        BY <2>3 DEF JoinAnswered, LeaveRoom, ChatMessage, NobodyNew
      <3> QED BY <3>1, QuietStep
    <2> QED BY <1>2, <2>1, <2>2, <2>3 DEF MeetingStep
  <1>3. CASE EndMeeting
    <2>1. NobodyNew /\ UNCHANGED limiterVars
      BY <1>3 DEF EndMeeting, NobodyNew
    <2> QED BY <2>1, QuietStep
  <1>4. CASE Tick
    BY <1>4, TickStep
  <1> QED BY <1>1, <1>2, <1>3, <1>4 DEF Next

----------------------------------------------------------------------------
(* Types of the rest.                                                      *)

RoomTypes ==
    /\ acts \in Scenarios
    /\ now \in Nat
    /\ connected \subseteq Sockets
    /\ auth \in [Sockets -> {"none", "pending", "user", "failed"}]
    /\ seat \in [Sockets -> {"out", "joining", "in"}]
    /\ ended \in BOOLEAN
    /\ buffer \in Seq(Nat)
    /\ sent \in Nat
    /\ shown \in [Sockets -> SUBSET Nat]
    /\ replied \in [Sockets -> Nat]
    /\ \A s \in Sockets : seat[s] # "out" => s \in connected /\ auth[s] = "user"

LEMMA TypesSplit == TypeOK <=> LimiterTypes /\ RoomTypes
  BY DEF TypeOK, LimiterTypes, RoomTypes

(* The history stays a sequence of messages.                               *)
LEMMA KeptType ==
    ASSUME NEW list \in Seq(Nat), NEW m \in Nat
    PROVE  Kept(Append(list, m)) \in Seq(Nat)
  <1>1. Append(list, m) \in Seq(Nat) /\ Append(list, m) # <<>>
    BY AppendProperties
  <1>2. Tail(Append(list, m)) \in Seq(Nat)
    BY <1>1, HeadTailProperties
  <1> QED BY <1>1, <1>2 DEF Kept

LEMMA NextRoom ==
    ASSUME RoomTypes, Next
    PROVE  RoomTypes'
  <1>1. ASSUME NEW s \in Sockets, ConnectionStep(s)
        PROVE  RoomTypes'
    <2>1. CASE Connect(s)
      BY <2>1 DEF Connect, chatVars, RoomTypes
    <2>2. CASE Authenticated(s)
      <3>1. auth[s] = "pending" /\ UNCHANGED <<acts, now, ended>>
        BY <2>2 DEF Authenticated
      <3>2. CASE Admitted(s)
        BY <3>1, <3>2 DEF Admitted, chatVars, RoomTypes
      <3>3. ASSUME NEW key \in Keys, Rejected(s, key)
            PROVE  RoomTypes'
        BY <3>1, <3>3 DEF Rejected, Gone, RoomTypes
      <3> QED BY <2>2, <3>2, <3>3, KeysHold DEF Authenticated
    <2>3. CASE Disconnect(s)
      BY <2>3 DEF Disconnect, Gone, RoomTypes
    <2>4. CASE GuardedEvent(s) \/ CreateKey(s)
      BY <2>4 DEF GuardedEvent, CreateKey, chatVars, RoomTypes
    <2> QED BY <1>1, <2>1, <2>2, <2>3, <2>4 DEF ConnectionStep
  <1>2. ASSUME NEW s \in Sockets, MeetingStep(s)
        PROVE  RoomTypes'
    <2>1. CASE JoinRoom(s)
      <3>1. seat' = IF Admits("event", s) /\ MayJoin(s) THEN Seats(s) ELSE seat
        BY <2>1 DEF JoinRoom
      <3>2. s \in connected
        BY <2>1 DEF JoinRoom, May
      <3>3. /\ seat' \in [Sockets -> {"out", "joining", "in"}]
            /\ \A t \in Sockets : seat'[t] # "out" => t \in connected /\ auth[t] = "user"
        BY <3>1, <3>2 DEF Seats, MayJoin, RoomTypes
      <3>4. shown' \in [Sockets -> SUBSET Nat]
        BY <2>1 DEF JoinRoom, RoomTypes
      <3> QED BY <2>1, <3>3, <3>4 DEF JoinRoom, RoomTypes
    <2>2. CASE JoinAnswered(s)
      <3>1. {buffer[k] : k \in DOMAIN buffer} \subseteq Nat
        BY DEF RoomTypes
      <3> QED BY <2>2, <3>1 DEF JoinAnswered, RoomTypes
    <2>3. CASE LeaveRoom(s)
      BY <2>3 DEF LeaveRoom, RoomTypes
    <2>4. CASE Reaction(s)
      BY <2>4 DEF Reaction, chatVars, RoomTypes
    <2>5. CASE ChatMessage(s)
      <3>1. buffer' \in Seq(Nat) /\ sent' \in Nat
        BY <2>5, KeptType DEF ChatMessage, RoomTypes
      <3> QED BY <2>5, <3>1 DEF ChatMessage, RoomTypes
    <2> QED BY <1>2, <2>1, <2>2, <2>3, <2>4, <2>5 DEF MeetingStep
  <1>3. CASE EndMeeting
    <2>1. buffer' \in Seq(Nat)
      BY <1>3 DEF EndMeeting
    <2> QED BY <1>3, <2>1 DEF EndMeeting, RoomTypes
  <1>4. CASE Tick
    BY <1>4 DEF Tick, chatVars, RoomTypes
  <1> QED BY <1>1, <1>2, <1>3, <1>4 DEF Next

(* The limiters' invariant is inductive.                                   *)
LEMMA LimiterInvariant == Spec => []LimiterInv
  <1>1. Init => LimiterInv
    BY InitLimiterInv
  <1>2. LimiterInv /\ [Next]_vars => LimiterInv'
    <2> SUFFICES ASSUME LimiterInv, [Next]_vars PROVE LimiterInv'
      OBVIOUS
    <2>1. CASE Next
      <3>1. LimiterPart' /\ LimiterTypes'
        BY <2>1, NextLimiter
      <3>2. RoomTypes'
        BY <2>1, NextRoom, TypesSplit DEF LimiterInv
      <3>3. TypeOK'
        BY <3>1, <3>2 DEF TypeOK, LimiterTypes, RoomTypes
      <3> QED BY <3>1, <3>3 DEF LimiterInv, LimiterPart
    <2>2. CASE UNCHANGED vars
      <3>1. UNCHANGED <<acts, now, hits, accepted, refused, connected, auth, seat, ended, buffer,
                        sent, shown, replied>>
        BY <2>2 DEF vars, limiterVars, chatVars
      <3>2. NobodyNew /\ UNCHANGED limiterVars
        BY <3>1 DEF NobodyNew, limiterVars
      <3>3. LimiterPart' /\ LimiterTypes'
        BY <3>2, QuietStep
      <3>4. TypeOK'
        BY <3>1 DEF LimiterInv, TypeOK
      <3> QED BY <3>3, <3>4 DEF LimiterInv, LimiterPart
    <2> QED BY <2>1, <2>2
  <1> QED BY <1>1, <1>2, PTL DEF Spec

(* The variables keep their types, and whoever has a seat is connected and *)
(* known, however late the verification of a connection answers.           *)
THEOREM TrafficTypes == Spec => []TypeOK
  <1>1. LimiterInv => TypeOK
    BY DEF LimiterInv
  <1> QED BY <1>1, LimiterInvariant, PTL

(* No window holds more accepted hits than the limit allows, for any limit *)
(* and any length of the window.                                           *)
THEOREM LimitHolds == Spec => []NeverOverLimit
  <1>1. LimiterInv => NeverOverLimit
    BY DEF LimiterInv
  <1> QED BY <1>1, LimiterInvariant, PTL

(* Whoever is refused has used up the limit within the last window.        *)
THEOREM RefusalsAreDue == Spec => []RefusedOnlyAtLimit
  <1>1. LimiterInv => RefusedOnlyAtLimit
    BY DEF LimiterInv
  <1> QED BY <1>1, LimiterInvariant, PTL

----------------------------------------------------------------------------
(* Chat, and the lists of closed connections.                              *)

(* The last HistoryLimit of n messages.                                    *)
Last(n) == LET kept == IF n < HistoryLimit THEN n ELSE HistoryLimit
           IN  [k \in 1..kept |-> n - kept + k]

LEMMA LastIsSeq ==
    ASSUME NEW n \in Nat
    PROVE  /\ Last(n) \in Seq(Nat)
           /\ Len(Last(n)) = IF n < HistoryLimit THEN n ELSE HistoryLimit
           /\ \A k \in 1..Len(Last(n)) : Last(n)[k] = n - Len(Last(n)) + k
  <1> DEFINE kept == IF n < HistoryLimit THEN n ELSE HistoryLimit
  <1>1. kept \in Nat /\ kept <= n
    OBVIOUS
  <1> HIDE DEF kept
  <1>2. Last(n) = [k \in 1..kept |-> n - kept + k]
    BY DEF Last, kept
  <1>3. \A k \in 1..kept : n - kept + k \in Nat
    BY <1>1
  <1>4. Last(n) \in [1..kept -> Nat]
    BY <1>2, <1>3
  <1>5. Last(n) \in Seq(Nat)
    BY <1>1, <1>4, SeqDef
  <1>6. DOMAIN Last(n) = 1..Len(Last(n)) /\ Len(Last(n)) \in Nat
    BY <1>5, LenProperties
  <1>7. Len(Last(n)) = kept
    BY <1>1, <1>4, <1>6
  <1> QED BY <1>2, <1>5, <1>7 DEF kept

(* A new message pushes out the oldest one once the history is full.       *)
LEMMA KeptIsLast ==
    ASSUME NEW n \in Nat
    PROVE  Kept(Append(Last(n), n + 1)) = Last(n + 1)
  <1> DEFINE longer == Append(Last(n), n + 1)
             size   == Len(Last(n))
  <1>1. /\ Last(n) \in Seq(Nat) /\ size \in Nat
        /\ size = IF n < HistoryLimit THEN n ELSE HistoryLimit
        /\ \A k \in 1..size : Last(n)[k] = n - size + k
    BY LastIsSeq, LenProperties
  <1>2. /\ longer \in Seq(Nat) /\ longer # <<>>
        /\ Len(longer) = size + 1
        /\ \A k \in 1..size : longer[k] = Last(n)[k]
        /\ longer[size + 1] = n + 1
    <2>1. n + 1 \in Nat /\ Last(n) \in Seq(Nat)
      BY <1>1
    <2>2. /\ Append(Last(n), n + 1) \in Seq(Nat)
          /\ Append(Last(n), n + 1) # <<>>
          /\ Len(Append(Last(n), n + 1)) = Len(Last(n)) + 1
          /\ \A i \in 1..Len(Last(n)) : Append(Last(n), n + 1)[i] = Last(n)[i]
          /\ Append(Last(n), n + 1)[Len(Last(n)) + 1] = n + 1
      BY <2>1, AppendProperties
    <2> QED BY <2>2
  <1>3. /\ Last(n + 1) \in Seq(Nat)
        /\ Len(Last(n + 1)) = IF n + 1 < HistoryLimit THEN n + 1 ELSE HistoryLimit
        /\ \A k \in 1..Len(Last(n + 1)) : Last(n + 1)[k] = n + 1 - Len(Last(n + 1)) + k
    BY LastIsSeq
  <1> HIDE DEF longer, size
  <1>4. \A k \in 1..(size + 1) : longer[k] = n - size + k
    <2> TAKE k \in 1..(size + 1)
    <2>1. CASE k \in 1..size
      <3>1. longer[k] = Last(n)[k] /\ Last(n)[k] = n - size + k
        BY <1>1, <1>2, <2>1
      <3> QED BY <3>1
    <2>2. CASE k = size + 1
      <3>1. longer[k] = n + 1 /\ n - size + k = n + 1
        BY <1>1, <1>2, <2>2
      <3> QED BY <3>1
    <2> QED BY <1>1, <2>1, <2>2
  <1>5. CASE size + 1 > HistoryLimit
    <2>1. size = HistoryLimit /\ Len(Last(n + 1)) = size
      BY <1>1, <1>3, <1>5
    <2>2. /\ Tail(longer) \in Seq(Nat) /\ Len(Tail(longer)) = size
          /\ \A k \in 1..size : Tail(longer)[k] = longer[k + 1]
      BY <1>1, <1>2, HeadTailProperties
    <2>3. \A k \in 1..size : Tail(longer)[k] = Last(n + 1)[k]
      <3> TAKE k \in 1..size
      <3>1. k + 1 \in 1..(size + 1)
        BY <1>1
      <3>2. Tail(longer)[k] = n - size + (k + 1)
        BY <1>4, <2>2, <3>1
      <3>3. Last(n + 1)[k] = n + 1 - size + k
        BY <1>3, <2>1
      <3>4. n - size + (k + 1) = n + 1 - size + k
        BY <1>1
      <3> QED BY <3>2, <3>3, <3>4
    <2>4. Tail(longer) = Last(n + 1)
      BY <1>3, <2>1, <2>2, <2>3, SeqEqual
    <2> QED BY <1>2, <1>5, <2>4 DEF Kept, longer
  <1>6. CASE ~(size + 1 > HistoryLimit)
    <2>1. size = n /\ Len(Last(n + 1)) = size + 1
      BY <1>1, <1>3, <1>6
    <2>2. \A k \in 1..(size + 1) : longer[k] = Last(n + 1)[k]
      BY <1>1, <1>3, <1>4, <2>1
    <2>3. longer = Last(n + 1)
      BY <1>2, <1>3, <2>1, <2>2, SeqEqual
    <2> QED BY <1>2, <1>6, <2>3 DEF Kept, longer
  <1> QED BY <1>5, <1>6

RoomInv == TypeOK /\ EndedIsLeft /\ ClosedAreForgotten /\ HistoryIsRecent /\ NoMessageIsMissed
RoomPart == EndedIsLeft /\ HistoryIsRecent /\ NoMessageIsMissed

(* The reply brings every message the limit leaves.                        *)
LEMMA ReplyBringsLast ==
    ASSUME NEW n \in Nat, NEW m \in 1..n, m + HistoryLimit > n
    PROVE  m \in {Last(n)[k] : k \in DOMAIN Last(n)}
  <1> DEFINE size == Len(Last(n))
             k    == m - (n - size)
  <1>1. /\ Last(n) \in Seq(Nat) /\ size \in Nat
        /\ size = IF n < HistoryLimit THEN n ELSE HistoryLimit
        /\ \A i \in 1..size : Last(n)[i] = n - size + i
    BY LastIsSeq, LenProperties
  <1>2. DOMAIN Last(n) = 1..size
    BY <1>1, LenProperties
  <1> HIDE DEF size
  <1>3. k \in 1..size
    BY <1>1
  <1>4. n - size + k = m
    BY <1>1
  <1> HIDE DEF k
  <1>5. Last(n)[k] = n - size + k
    BY <1>1, <1>3
  <1> QED BY <1>2, <1>3, <1>4, <1>5

(* Only calls, closing and verifying touch the event lists.                *)
LEMMA ForgottenStep ==
    ASSUME LimiterInv, ClosedAreForgotten, Next
    PROVE  ClosedAreForgotten'
  <1> USE KeysHold, LimitersHold
  <1>0. hits \in [Limiters -> [Keys -> SUBSET Hit]] /\ connected \subseteq Sockets
    BY DEF LimiterInv, TypeOK
  <1>1. ASSUME NEW l \in Limiters, NEW key \in Keys, NEW s \in Sockets,
               <<l, key>> # <<"event", s>>
        PROVE  AfterCall(l, key)["event"][s] = hits["event"][s]
    BY <1>0, <1>1 DEF AfterCall, Put
  <1>2. ASSUME NEW lists \in [Limiters -> [Keys -> SUBSET Hit]], NEW s \in Sockets,
               hits' = Released(lists, s), connected' = connected \ {s},
               \A t \in Sockets : lists["event"][t] = hits["event"][t]
        PROVE  ClosedAreForgotten'
    <2>2. \A t \in Sockets : hits'["event"][t] = IF t = s THEN {} ELSE hits["event"][t]
      <3>1. "event" \in Limiters /\ \A t \in Sockets : t \in Keys
        OBVIOUS
      <3> QED BY <1>2, <3>1, PutChangesOne DEF Released
    <2> QED BY <1>2, <2>2 DEF ClosedAreForgotten
  <1>3. ASSUME NEW l \in Limiters, NEW key \in Keys, l = "event" => key \in connected,
               Consume(l, key), connected' = connected
        PROVE  ClosedAreForgotten'
    <2> SUFFICES ASSUME NEW s \in Sockets, s \notin connected
                 PROVE  hits'["event"][s] = {}
      BY <1>3 DEF ClosedAreForgotten
    <2>1. <<l, key>> # <<"event", s>>
      BY <1>3
    <2> QED BY <1>1, <1>3, <2>1 DEF Consume, ClosedAreForgotten
  <1>4. ASSUME NEW s \in Sockets, ConnectionStep(s)
        PROVE  ClosedAreForgotten'
    <2>1. CASE Connect(s)
      BY <2>1 DEF Connect, limiterVars, ClosedAreForgotten
    <2>2. CASE Authenticated(s)
      <3>1. CASE Admitted(s)
        <4>1. Consume("connection", UserOf[s]) /\ connected' = connected
          BY <3>1 DEF Admitted
        <4> QED BY <1>3, <4>1
      <3>2. ASSUME NEW key \in Keys, Rejected(s, key)
            PROVE  ClosedAreForgotten'
        <4> DEFINE lists == AfterCall("connection", key)
        <4>1. hits' = Released(lists, s) /\ connected' = connected \ {s}
          BY <3>2 DEF Rejected, Gone
        <4>2. \A t \in Sockets : lists["event"][t] = hits["event"][t]
          BY <1>1
        <4>3. lists \in [Limiters -> [Keys -> SUBSET Hit]]
          <5>1. Covered("connection", key) /\ Recorded("connection", key)
            BY <3>2 DEF Rejected, LimiterInv, Remembered
          <5> QED BY <5>1, CallEffect
        <4> HIDE DEF lists
        <4> QED BY <1>2, <4>1, <4>2, <4>3
      <3> QED BY <2>2, <3>1, <3>2 DEF Authenticated
    <2>3. CASE Disconnect(s)
      BY <1>0, <1>2, <2>3 DEF Disconnect, Gone
    <2>4. CASE GuardedEvent(s)
      BY <1>3, <2>4 DEF GuardedEvent, May
    <2>5. CASE CreateKey(s)
      BY <1>3, <2>5 DEF CreateKey
    <2> QED BY <1>4, <2>1, <2>2, <2>3, <2>4, <2>5 DEF ConnectionStep
  <1>5. ASSUME NEW s \in Sockets, MeetingStep(s)
        PROVE  ClosedAreForgotten'
    <2>1. CASE JoinRoom(s)
      BY <1>3, <2>1 DEF JoinRoom, May
    <2>2. CASE Reaction(s)
      BY <1>3, <2>2 DEF Reaction
    <2>3. CASE JoinAnswered(s) \/ LeaveRoom(s) \/ ChatMessage(s)
      BY <2>3 DEF JoinAnswered, LeaveRoom, ChatMessage, limiterVars, ClosedAreForgotten
    <2> QED BY <1>5, <2>1, <2>2, <2>3 DEF MeetingStep
  <1>6. CASE EndMeeting \/ Tick
    BY <1>6 DEF EndMeeting, Tick, limiterVars, ClosedAreForgotten
  <1> QED BY <1>4, <1>5, <1>6 DEF Next

(* Nobody sits in an ended meeting, the history is the last messages, and  *)
(* who has its reply has them all.                                         *)
LEMMA RoomStep ==
    ASSUME TypeOK, RoomPart, Next
    PROVE  RoomPart'
  <1> USE DEF RoomPart
  <1>0. /\ seat \in [Sockets -> {"out", "joining", "in"}] /\ ended \in BOOLEAN
        /\ sent \in Nat /\ shown \in [Sockets -> SUBSET Nat] /\ replied \in [Sockets -> Nat]
    BY DEF TypeOK
  <1>a. ASSUME UNCHANGED <<ended, buffer, sent, replied>>,
               \A t \in Sockets : seat'[t] = "in" => seat[t] = "in" /\ shown'[t] = shown[t],
               ended => \A t \in Sockets : seat'[t] = "out"
        PROVE  RoomPart'
    BY <1>0, <1>a DEF EndedIsLeft, HistoryIsRecent, NoMessageIsMissed
  <1>1. ASSUME NEW s \in Sockets, ConnectionStep(s)
        PROVE  RoomPart'
    <2>1. CASE Connect(s) \/ GuardedEvent(s) \/ CreateKey(s)
      <3>1. UNCHANGED <<ended, seat, shown, buffer, sent, replied>>
        BY <2>1 DEF Connect, GuardedEvent, CreateKey, chatVars
      <3> QED BY <1>a, <3>1 DEF EndedIsLeft
    <2>2. CASE Authenticated(s)
      <3>1. CASE Admitted(s)
        BY <1>a, <2>2, <3>1 DEF Authenticated, Admitted, chatVars, EndedIsLeft
      <3>2. ASSUME NEW key \in Keys, Rejected(s, key)
            PROVE  RoomPart'
        BY <1>0, <1>a, <2>2, <3>2 DEF Authenticated, Rejected, Gone, EndedIsLeft
      <3> QED BY <2>2, <3>1, <3>2, KeysHold DEF Authenticated
    <2>3. CASE Disconnect(s)
      BY <1>0, <1>a, <2>3 DEF Disconnect, Gone, EndedIsLeft
    <2> QED BY <1>1, <2>1, <2>2, <2>3 DEF ConnectionStep
  <1>2. ASSUME NEW s \in Sockets, JoinRoom(s)
        PROVE  RoomPart'
    <2>1. /\ seat' = IF Admits("event", s) /\ MayJoin(s) THEN Seats(s) ELSE seat
          /\ shown' = [t \in Sockets |-> IF seat'[t] = "out" THEN {} ELSE shown[t]]
          /\ UNCHANGED <<ended, buffer, sent, replied>>
      BY <1>2 DEF JoinRoom
    <2>2. \A t \in Sockets : seat'[t] = "in" => seat[t] = "in" /\ shown'[t] = shown[t]
      BY <1>0, <2>1 DEF Seats
    <2>3. ended => seat' = seat
      BY <2>1 DEF MayJoin
    <2> QED BY <1>a, <2>1, <2>2, <2>3 DEF EndedIsLeft
  <1>3. ASSUME NEW s \in Sockets, JoinAnswered(s)
        PROVE  RoomPart'
    <2>1. ~ended
      BY <1>3 DEF JoinAnswered, EndedIsLeft
    <2>2. buffer = Last(sent)
      BY <2>1 DEF HistoryIsRecent, Last
    <2>3. ASSUME NEW m \in 1..sent, m + HistoryLimit > sent
          PROVE  m \in shown'[s]
      BY <1>0, <1>3, <2>2, <2>3, ReplyBringsLast DEF JoinAnswered
    <2>4. NoMessageIsMissed'
      <3> SUFFICES ASSUME NEW t \in Sockets, seat'[t] = "in", NEW m \in 1..sent,
                          m + HistoryLimit > replied'[t]
                   PROVE  m \in shown'[t]
        BY <1>3 DEF JoinAnswered, NoMessageIsMissed
      <3>1. CASE t = s
        BY <1>0, <1>3, <2>3, <3>1 DEF JoinAnswered
      <3>2. CASE t # s
        BY <1>0, <1>3, <3>2 DEF JoinAnswered, NoMessageIsMissed
      <3> QED BY <3>1, <3>2
    <2>5. EndedIsLeft' /\ HistoryIsRecent'
      BY <1>3, <2>1 DEF JoinAnswered, EndedIsLeft, HistoryIsRecent
    <2> QED BY <2>4, <2>5
  <1>4. ASSUME NEW s \in Sockets, LeaveRoom(s)
        PROVE  RoomPart'
    BY <1>0, <1>4, <1>a DEF LeaveRoom, EndedIsLeft
  <1>5. ASSUME NEW s \in Sockets, Reaction(s)
        PROVE  RoomPart'
    BY <1>5, <1>a DEF Reaction, chatVars, EndedIsLeft
  <1>6. ASSUME NEW s \in Sockets, ChatMessage(s)
        PROVE  RoomPart'
    <2>1. /\ sent' = sent + 1 /\ buffer' = Kept(Append(buffer, sent')) /\ seat[s] # "out"
          /\ shown' = [t \in Sockets |-> IF Hears(s, t) THEN shown[t] \cup {sent'} ELSE shown[t]]
          /\ UNCHANGED <<seat, ended, replied>>
      BY <1>6 DEF ChatMessage
    <2>2. ~ended
      BY <2>1 DEF EndedIsLeft
    <2>3. buffer = Last(sent)
      BY <2>2 DEF HistoryIsRecent, Last
    <2>4. buffer' = Last(sent')
      BY <1>0, <2>1, <2>3, KeptIsLast
    <2>5. EndedIsLeft' /\ HistoryIsRecent'
      BY <2>1, <2>2, <2>4 DEF EndedIsLeft, HistoryIsRecent, Last
    <2>6. NoMessageIsMissed'
      <3> SUFFICES ASSUME NEW t \in Sockets, seat[t] = "in", NEW m \in 1..(sent + 1),
                          m + HistoryLimit > replied[t]
                   PROVE  m \in shown'[t]
        BY <2>1 DEF NoMessageIsMissed
      <3>1. shown'[t] = shown[t] \cup {sent + 1}
        BY <2>1 DEF Hears
      <3>2. CASE m \in 1..sent
        BY <3>1, <3>2 DEF NoMessageIsMissed
      <3>3. CASE m = sent + 1
        BY <3>1, <3>3
      <3> QED BY <1>0, <3>2, <3>3
    <2> QED BY <2>5, <2>6
  <1>7. CASE EndMeeting
    BY <1>0, <1>7 DEF EndMeeting, EndedIsLeft, HistoryIsRecent, NoMessageIsMissed
  <1>8. CASE Tick
    BY <1>8, <1>a DEF Tick, chatVars, EndedIsLeft
  <1>9. ASSUME NEW s \in Sockets, MeetingStep(s)
        PROVE  RoomPart'
    BY <1>2, <1>3, <1>4, <1>5, <1>6, <1>9 DEF MeetingStep
  <1> QED BY <1>1, <1>7, <1>8, <1>9 DEF Next

LEMMA RoomInvariant == Spec => [](ClosedAreForgotten /\ RoomPart)
  <1> DEFINE Inv == ClosedAreForgotten /\ RoomPart
  <1>1. Init => Inv
    <2> SUFFICES ASSUME Init PROVE Inv
      OBVIOUS
    <2>1. ClosedAreForgotten
      BY KeysHold, LimitersHold DEF Init, ClosedAreForgotten
    <2>2. buffer = <<>> /\ sent = 0 /\ ended = FALSE
      BY DEF Init
    <2>3. HistoryIsRecent
      <3>1. Last(0) \in Seq(Nat) /\ Len(Last(0)) = 0
        BY LastIsSeq
      <3>2. Last(0) = <<>>
        BY <3>1, EmptySeq
      <3> QED BY <2>2, <3>2 DEF HistoryIsRecent, Last
    <2>4. EndedIsLeft /\ NoMessageIsMissed
      BY DEF Init, EndedIsLeft, NoMessageIsMissed
    <2> QED BY <2>1, <2>3, <2>4 DEF RoomPart
  <1>2. LimiterInv /\ Inv /\ [Next]_vars => Inv'
    <2> SUFFICES ASSUME LimiterInv, Inv, [Next]_vars PROVE Inv'
      OBVIOUS
    <2>1. CASE Next
      <3>1. ClosedAreForgotten'
        BY <2>1, ForgottenStep
      <3>2. RoomPart'
        BY <2>1, RoomStep DEF LimiterInv
      <3> QED BY <3>1, <3>2
    <2>2. CASE UNCHANGED vars
      <3>1. UNCHANGED <<hits, connected, seat, ended, buffer, sent, shown, replied>>
        BY <2>2 DEF vars, limiterVars, chatVars
      <3> QED BY <3>1 DEF ClosedAreForgotten, RoomPart, EndedIsLeft, HistoryIsRecent, NoMessageIsMissed
    <2> QED BY <2>1, <2>2
  <1> HIDE DEF Inv
  <1>3. Spec => []Inv
    BY <1>1, <1>2, LimiterInvariant, PTL DEF Spec
  <1> QED BY <1>3 DEF Inv

(* The event limiter remembers open connections only.                      *)
THEOREM ClosedForgotten == Spec => []ClosedAreForgotten
  BY RoomInvariant, PTL

(* The history is the latest messages, for any limit, 0 included.          *)
THEOREM HistoryKept == Spec => []HistoryIsRecent
  <1>1. RoomPart => HistoryIsRecent
    BY DEF RoomPart
  <1> QED BY <1>1, RoomInvariant, PTL

(* No message falls between the history in a join reply and the broadcasts. *)
THEOREM NothingMissed == Spec => []NoMessageIsMissed
  <1>1. RoomPart => NoMessageIsMissed
    BY DEF RoomPart
  <1> QED BY <1>1, RoomInvariant, PTL
=============================================================================
