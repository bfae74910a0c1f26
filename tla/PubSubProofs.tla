---------------------------- MODULE PubSubProofs ----------------------------
(***************************************************************************)
(* What TLAPS proves of the two ends of the Redis channel: of Publishers,  *)
(* for every number of threads, threshold and number of probes, that the   *)
(* breaker trips on failures alone and is probed while it is half open,    *)
(* but for the race the module records;                                    *)
(* and of LiveFeed, for every number of clients and all limits, that the   *)
(* limits of connections hold, listeners are shared, broadcasts reach all  *)
(* and a client closed for silence was asked.                              *)
(***************************************************************************)
EXTENDS Publishers, LiveFeed, FiniteSetTheorems, SequenceTheorems, TLAPS

-----------------------------------------------------------------------------
(* The publishers.                                                         *)
CallPlaces == {"idle"} \cup InCall \cup Outcomes

(* A caller that moves leaves the others where they are.                    *)
LEMMA MoveShapes ==
    ASSUME at \in [Callers -> CallPlaces], NEW c \in Callers, NEW from, NEW to \in CallPlaces,
           Move(c, from, to)
    PROVE  /\ at' \in [Callers -> CallPlaces] /\ at[c] = from /\ at'[c] = to
           /\ \A d \in Callers \ {c} : at'[d] = at[d]
BY DEF Move

(* A step of call() or _on_failure() keeps the breaker's types.             *)
LEMMA BreakerTypes ==
    ASSUME BreakerTypeOK, NEW c \in Callers,
           Look(c) \/ Proceed(c) \/ Finish(c)
    PROVE  BreakerTypeOK'
<1> USE ThresholdAssumption, MaxProbesAssumption DEF CallPlaces, InCall, Outcomes
<1>0. at \in [Callers -> CallPlaces]
  BY DEF BreakerTypeOK
<1>1. CASE Look(c)
  <2>1. at' \in [Callers -> CallPlaces]
    BY <1>0, <1>1, MoveShapes DEF Look
  <2>2. probes' \in 0 .. MaxProbes /\ UNCHANGED <<state, failures, cooled, raced>>
    BY <1>1 DEF Look, BreakerTypeOK
  <2> QED BY <2>1, <2>2 DEF BreakerTypeOK
<1>2. CASE Halve(c)
  BY <1>0, <1>2, MoveShapes DEF Halve, BreakerTypeOK
<1>3. CASE Returns(c)
  <2>1. at' \in [Callers -> CallPlaces]
    BY <1>0, <1>3, MoveShapes DEF Returns
  <2>2. raced' \in BOOLEAN
    BY <1>3 DEF Returns, BreakerTypeOK
  <2>3. failures' \in 0 .. Threshold /\ UNCHANGED <<state, probes, cooled>>
    BY <1>3 DEF Returns, BreakerTypeOK
  <2> QED BY <2>1, <2>2, <2>3 DEF BreakerTypeOK
<1>4. CASE Close(c)
  <2>1. raced' \in BOOLEAN
    BY <1>4 DEF Close, Overtakes
  <2> QED BY <1>0, <1>4, <2>1, MoveShapes DEF Close, BreakerTypeOK
<1>5. CASE Raises(c)
  BY <1>0, <1>5, MoveShapes DEF Raises, BreakerTypeOK
<1>6. CASE Counted(c)
  BY <1>0, <1>6, MoveShapes DEF Counted, BreakerTypeOK
<1>7. CASE Open(c)
  BY <1>0, <1>7, MoveShapes DEF Open, BreakerTypeOK
<1>8. CASE Finish(c)
  BY <1>8 DEF Finish, BreakerTypeOK
<1> QED BY <1>1, <1>2, <1>3, <1>4, <1>5, <1>6, <1>7, <1>8 DEF Proceed

(* What a step of a publisher, of Redis or of time is for the breaker.      *)
LEMMA PublisherKinds ==
    ASSUME [PublishersNext]_pubVars
    PROVE  \/ \E c \in Callers : Look(c) \/ Proceed(c) \/ Finish(c)
           \/ Cools \/ UNCHANGED brkVars
BY DEF PublishersNext, Publish, Step, Published, RedisChanges, TimePasses, Proceed, pubVars

(* Type correctness of the publishers over the breaker.                     *)
THEOREM PublisherTypes == PublishersSpec => []PublishersTypeOK
<1>1. PublishersInit => PublishersTypeOK
  <2> SUFFICES ASSUME PublishersInit PROVE PublishersTypeOK
    OBVIOUS
  <2>1. failures \in 0 .. Threshold /\ probes \in 0 .. MaxProbes
    BY ThresholdAssumption, MaxProbesAssumption DEF PublishersInit, BreakerInit
  <2>2. at \in [Callers -> {"idle"} \cup InCall \cup Outcomes]
    BY DEF PublishersInit, BreakerInit
  <2>3. cooled \in BOOLEAN /\ raced \in BOOLEAN /\ state \in {"CLOSED", "OPEN", "HALF_OPEN"}
    BY DEF PublishersInit, BreakerInit
  <2>4. up \in BOOLEAN /\ gone \subseteq Captures /\ bare \subseteq Captures
    BY DEF PublishersInit
  <2> QED BY <2>1, <2>2, <2>3, <2>4 DEF PublishersTypeOK, BreakerTypeOK
<1>2. PublishersTypeOK /\ [PublishersNext]_pubVars => PublishersTypeOK'
  <2> SUFFICES ASSUME PublishersTypeOK, [PublishersNext]_pubVars PROVE PublishersTypeOK'
    OBVIOUS
  <2>1. BreakerTypeOK'
    <3>1. CASE Cools \/ UNCHANGED brkVars
      BY <3>1 DEF Cools, brkVars, PublishersTypeOK, BreakerTypeOK
    <3> QED BY <3>1, PublisherKinds, BreakerTypes DEF PublishersTypeOK
  <2>2. up' \in BOOLEAN /\ gone' \subseteq Captures /\ bare' \subseteq Captures
    BY DEF PublishersTypeOK, PublishersNext, Publish, Step, Published, RedisChanges, TimePasses, pubVars
  <2> QED BY <2>1, <2>2 DEF PublishersTypeOK
<1> QED BY <1>1, <1>2, PTL DEF PublishersSpec

(* Every step keeps what stands behind an open breaker.                     *)
LEMMA TripStep ==
    ASSUME PublishersTypeOK, BackedByFailures, [PublishersNext]_pubVars PROVE BackedByFailures'
<1> USE DEF CallPlaces, InCall, Outcomes
<1>0. /\ at \in [Callers -> CallPlaces] /\ failures \in 0 .. Threshold
      /\ Threshold \in Nat \ {0} /\ raced \in BOOLEAN
  BY ThresholdAssumption DEF PublishersTypeOK, BreakerTypeOK
<1>1. CASE Cools \/ UNCHANGED brkVars
  BY <1>1 DEF Cools, brkVars, BackedByFailures
<1>2. ASSUME NEW c \in Callers, Look(c) PROVE BackedByFailures'
  <2>1. CASE state = "OPEN"
    BY <1>2, <2>1 DEF Look, BackedByFailures
  <2>2. CASE state # "OPEN"
    <3>1. \E to \in {"rejected", "calling"} : Move(c, "idle", to)
      BY <1>2, <2>2 DEF Look
    <3>2. UNCHANGED <<state, failures, raced>>
      BY <1>2 DEF Look
    <3> QED BY <1>0, <3>1, <3>2, MoveShapes DEF BackedByFailures
  <2> QED BY <2>1, <2>2
<1>3. ASSUME NEW c \in Callers, Halve(c) PROVE BackedByFailures'
  BY <1>0, <1>3, MoveShapes DEF Halve, BackedByFailures
<1>4. ASSUME NEW c \in Callers, Returns(c) PROVE BackedByFailures'
  <2>1. CASE state = "HALF_OPEN"
    BY <1>0, <1>4, <2>1, MoveShapes DEF Returns, BackedByFailures
  <2>2. CASE state # "HALF_OPEN" /\ raced'
    BY <2>2 DEF BackedByFailures
  <2>3. CASE state # "HALF_OPEN" /\ ~raced'
    <3>1. /\ Move(c, "calling", "ok") /\ state' = state /\ ~ (state = "OPEN") /\ ~Overtakes(c)
      BY <1>4, <2>3 DEF Returns
    <3>2. state' = "CLOSED"
      BY <2>3, <3>1 DEF PublishersTypeOK, BreakerTypeOK
    <3> QED BY <1>0, <3>1, <3>2, MoveShapes DEF Overtakes, BackedByFailures
  <2> QED BY <2>1, <2>2, <2>3
<1>5. ASSUME NEW c \in Callers, Close(c) PROVE BackedByFailures'
  <2>1. CASE raced'
    BY <2>1 DEF BackedByFailures
  <2>2. CASE ~raced'
    <3>1. Move(c, "closing", "ok") /\ state' = "CLOSED" /\ ~Overtakes(c)
      BY <1>5, <2>2 DEF Close
    <3> QED BY <1>0, <3>1, MoveShapes DEF Overtakes, BackedByFailures
  <2> QED BY <2>1, <2>2
<1>6. ASSUME NEW c \in Callers, Raises(c) PROVE BackedByFailures'
  <2>1. UNCHANGED <<state, raced>> /\ (failures = Threshold => failures' = Threshold)
    BY <1>6, <1>0 DEF Raises
  <2> QED BY <1>0, <1>6, <2>1, MoveShapes DEF Raises, BackedByFailures
<1>7. ASSUME NEW c \in Callers, Counted(c) PROVE BackedByFailures'
  <2>1. UNCHANGED <<state, raced, failures>>
    BY <1>7 DEF Counted
  <2>2. CASE failures = Threshold
    BY <2>1, <2>2 DEF BackedByFailures
  <2>3. CASE failures # Threshold
    <3>1. Move(c, "counted", "raised")
      BY <1>0, <1>7, <2>3 DEF Counted
    <3> QED BY <1>0, <2>1, <2>3, <3>1, MoveShapes DEF BackedByFailures
  <2> QED BY <2>2, <2>3
<1>8. ASSUME NEW c \in Callers, Open(c) PROVE BackedByFailures'
  BY <1>0, <1>8, MoveShapes DEF Open, BackedByFailures
<1>9. ASSUME NEW c \in Callers, Finish(c) PROVE BackedByFailures'
  BY <1>0, <1>9 DEF Finish, BackedByFailures
<1> QED BY <1>1, <1>2, <1>3, <1>4, <1>5, <1>6, <1>7, <1>8, <1>9, PublisherKinds DEF Proceed

(* TripsOnFailures for any number of threads and any threshold: without the *)
(* race, a breaker that is not closed has counted its threshold.            *)
THEOREM TripsOnFailuresAlone == PublishersSpec => []TripsOnFailures
<1>1. PublishersInit => BackedByFailures
  BY DEF PublishersInit, BreakerInit, BackedByFailures
<1>2. BackedByFailures => TripsOnFailures
  BY DEF BackedByFailures, TripsOnFailures
<1>3. PublishersTypeOK /\ BackedByFailures /\ [PublishersNext]_pubVars => BackedByFailures'
  BY TripStep
<1> QED BY <1>1, <1>2, <1>3, PublisherTypes, PTL DEF PublishersSpec

(* Every step keeps a caller out while the breaker is half open.            *)
LEMMA ProbeStep ==
    ASSUME PublishersTypeOK, BackedByFailures, HalfOpenIsProbed, [PublishersNext]_pubVars
    PROVE  HalfOpenIsProbed'
<1> USE DEF CallPlaces, InCall, Outcomes
<1>0. /\ at \in [Callers -> CallPlaces] /\ failures \in 0 .. Threshold
      /\ Threshold \in Nat \ {0} /\ raced \in BOOLEAN
  BY ThresholdAssumption DEF PublishersTypeOK, BreakerTypeOK
<1> DEFINE Out == {"calling", "closing", "counted", "opening"}
<1>1. CASE Cools \/ UNCHANGED brkVars
  BY <1>1 DEF Cools, brkVars, HalfOpenIsProbed
<1>2. ASSUME NEW c \in Callers, NEW from, NEW to \in CallPlaces, Move(c, from, to),
             UNCHANGED <<state, raced>>, from \in Out => to \in Out
      PROVE  HalfOpenIsProbed'
  <2> SUFFICES ASSUME ~raced, state = "HALF_OPEN" PROVE \E d \in Callers : at'[d] \in Out
    BY <1>2 DEF HalfOpenIsProbed
  <2>1. PICK d \in Callers : at[d] \in Out
    BY DEF HalfOpenIsProbed
  <2> QED BY <1>0, <1>2, <2>1, MoveShapes
<1>3. ASSUME NEW c \in Callers, Look(c) PROVE HalfOpenIsProbed'
  <2>1. UNCHANGED <<state, raced>>
        /\ \E to \in {"probing", "rejected", "calling"} : Move(c, "idle", to)
    BY <1>3 DEF Look
  <2> QED BY <1>2, <2>1
<1>4. ASSUME NEW c \in Callers, Halve(c) PROVE HalfOpenIsProbed'
  BY <1>0, <1>4, MoveShapes DEF Halve, HalfOpenIsProbed
<1>5. ASSUME NEW c \in Callers, Returns(c) PROVE HalfOpenIsProbed'
  <2>1. CASE state = "HALF_OPEN"
    BY <1>2, <1>5, <2>1 DEF Returns
  <2>2. CASE state # "HALF_OPEN"
    BY <1>5, <2>2 DEF Returns, HalfOpenIsProbed
  <2> QED BY <2>1, <2>2
<1>6. ASSUME NEW c \in Callers, Close(c) PROVE HalfOpenIsProbed'
  BY <1>6 DEF Close, HalfOpenIsProbed
<1>7. ASSUME NEW c \in Callers, Raises(c) PROVE HalfOpenIsProbed'
  BY <1>2, <1>7 DEF Raises
<1>8. ASSUME NEW c \in Callers, Counted(c) PROVE HalfOpenIsProbed'
  <2>1. UNCHANGED <<state, raced>>
    BY <1>8 DEF Counted
  <2>2. CASE raced \/ state # "HALF_OPEN"
    BY <2>1, <2>2 DEF HalfOpenIsProbed
  <2>3. CASE ~raced /\ state = "HALF_OPEN"
    <3>1. failures >= Threshold
      BY <1>0, <2>3 DEF BackedByFailures
    <3>2. Move(c, "counted", "opening")
      BY <1>8, <3>1 DEF Counted
    <3> QED BY <1>2, <2>1, <3>2
  <2> QED BY <2>2, <2>3
<1>9. ASSUME NEW c \in Callers, Open(c) PROVE HalfOpenIsProbed'
  BY <1>9 DEF Open, HalfOpenIsProbed
<1>10. ASSUME NEW c \in Callers, Finish(c) PROVE HalfOpenIsProbed'
  <2>1. UNCHANGED <<state, raced>> /\ \A d \in Callers : at[d] \in Out => at'[d] = at[d]
    BY <1>0, <1>10 DEF Finish
  <2> QED BY <2>1 DEF HalfOpenIsProbed
<1> QED
  BY <1>1, <1>3, <1>4, <1>5, <1>6, <1>7, <1>8, <1>9, <1>10, PublisherKinds DEF Proceed

(* HalfOpenIsProbed for any number of threads, threshold and probes: the    *)
(* safety half of RecoversWithRedis.                                        *)
THEOREM HalfOpenHasProbe == PublishersSpec => []HalfOpenIsProbed
<1>1. PublishersInit => BackedByFailures /\ HalfOpenIsProbed
  BY DEF PublishersInit, BreakerInit, BackedByFailures, HalfOpenIsProbed
<1>2. PublishersTypeOK /\ BackedByFailures /\ HalfOpenIsProbed /\ [PublishersNext]_pubVars
        => BackedByFailures' /\ HalfOpenIsProbed'
  BY TripStep, ProbeStep
<1> QED BY <1>1, <1>2, PublisherTypes, PTL DEF PublishersSpec

-----------------------------------------------------------------------------
(* The feed.                                                               *)
(* The steps of the handlers of c that are not its Leave.                    *)
Handles(c) ==
    Accept(c) \/ Reject(c) \/ Admit(c) \/ EnterAtLast(c) \/ TurnedAway(c)
    \/ Welcome(c) \/ WelcomeFails(c) \/ LeaveAtLast(c)

(* What a step is for the connections: one of a handler, or none.            *)
LEMMA FeedKinds ==
    ASSUME [Next]_vars
    PROVE  \/ \E c \in Clients : Handles(c) \/ Leave(c)
           \/ UNCHANGED <<redis, pc, lock, queue, count, alices, waited>>
<1>1. ASSUME NEW c \in Clients, NEW d \in Clients,
             Disconnect(c) \/ ListenerEnds(c) \/ Broadcast(c) \/ SendOne(c, d)
      PROVE  UNCHANGED <<redis, pc, lock, queue, count, alices, waited>>
  BY <1>1 DEF Disconnect, ListenerEnds, Broadcast, SendOne, connVars
<1>2. ASSUME ServeEvent \/ ReadOther \/ SeeDisconnect \/ CloseSilent
      PROVE  Leave(Followed) \/ UNCHANGED <<redis, pc, lock, queue, count, alices, waited>>
  BY <1>2 DEF ServeEvent, ReadOther, SeeDisconnect, CloseSilent, FollowedLeaves, connVars
<1>3. ASSUME ReadPong \/ Ping \/ Pong \/ Say \/ PublishEvent \/ Enqueue \/ UNCHANGED vars
      PROVE  UNCHANGED <<redis, pc, lock, queue, count, alices, waited>>
  BY <1>3 DEF ReadPong, Ping, Pong, Say, PublishEvent, Enqueue, vars, connVars
<1>4. ASSUME NEW c \in Clients, OtherLeaves(c) PROVE Leave(c)
  BY <1>4 DEF OtherLeaves
<1> QED BY <1>1, <1>2, <1>3, <1>4, ClientsAssumption DEF Next, Handles

(* A handler that moves leaves the others where they are.                    *)
LEMMA GotoShape ==
    ASSUME pc \in [Clients -> Places], NEW c \in Clients, NEW to \in Places,
           pc' = [pc EXCEPT ![c] = to]
    PROVE  pc' \in [Clients -> Places] /\ pc'[c] = to /\ \A d \in Clients \ {c} : pc'[d] = pc[d]
OBVIOUS

(* Where the lock's queue goes when its head is served.                      *)
LEMMA QueueHead ==
    ASSUME QueueInv, queue \in Seq(Clients), NEW c \in Clients, pc[c] \in Waiting
    PROVE  queue # <<>> /\ Tail(queue) \in Seq(Clients) /\ Len(queue) \in Nat \ {0}
<1>1. PICK i \in 1 .. Len(queue) : queue[i] = c
  BY DEF QueueInv
<1> QED BY <1>1, LenProperties, HeadTailProperties

(* The types of the connections ...                                          *)
ConnTypeOK ==
    /\ redis \in BOOLEAN /\ pc \in [Clients -> Places]
    /\ {lock, conns, cams, waited} \subseteq SUBSET Clients
    /\ queue \in Seq(Clients) /\ count \in Nat /\ alices \in Nat

(* What happens to a client under the lock keeps those types ...           *)
LEMMA EnterTypes ==
    ASSUME ConnTypeOK, NEW c \in Clients, Enter(c)
    PROVE  /\ pc' \in [Clients -> Places] /\ {lock', conns', cams'} \subseteq SUBSET Clients
           /\ count' \in Nat /\ alices' \in Nat
           /\ pc'[c] \in {"turning", "welcome"} /\ \A d \in Clients \ {c} : pc'[d] = pc[d]
<1>1. CASE count >= MaxGlobal
  BY <1>1, GotoShape DEF Enter, ConnTypeOK, Places
<1>2. CASE ~ (count >= MaxGlobal)
  BY <1>2, GotoShape DEF Enter, ConnTypeOK, Places, Registered
<1> QED BY <1>1, <1>2

(* ... and so does the finally clause.                                     *)
LEMMA UncountTypes ==
    ASSUME ConnTypeOK, NEW c \in Clients, Uncount(c)
    PROVE  /\ pc' \in [Clients -> Places] /\ {conns', cams'} \subseteq SUBSET Clients
           /\ count' \in Nat /\ alices' \in Nat
           /\ pc'[c] = "ended" /\ \A d \in Clients \ {c} : pc'[d] = pc[d]
<1>1. pc' \in [Clients -> Places] /\ pc'[c] = "ended" /\ \A d \in Clients \ {c} : pc'[d] = pc[d]
  BY GotoShape DEF Uncount, ConnTypeOK, Places
<1>2. {conns', cams'} \subseteq SUBSET Clients
  BY DEF Uncount, ConnTypeOK
<1>3. count' \in Nat /\ alices' \in Nat
  BY DEF Uncount, ConnTypeOK, Less
<1> QED BY <1>1, <1>2, <1>3

(* What a step of c's handler does to the counts: nothing, while it moves;   *)
(* it registers c; or it uncounts c.                                         *)
Quiet(c) ==
    /\ UNCHANGED <<count, alices>> /\ waited \subseteq waited'
    /\ \/ pc[c] = "new" /\ pc'[c] \in {"auth", "ended"}
       \/ pc[c] = "auth" /\ pc'[c] \in {"ended", "turning"}
       \/ pc[c] = "auth" /\ pc'[c] = "entering" /\ c \in waited'
       \/ pc[c] = "entering" /\ pc'[c] = "turning"
       \/ pc[c] = "turning" /\ pc'[c] = "ended"
       \/ pc[c] = "welcome" /\ pc'[c] \in {"loop", "leaked"}
       \/ pc[c] = "loop" /\ pc'[c] = "leaving"

Registers(c) ==
    /\ (pc[c] = "auth" /\ (c \in Alice => alices < MaxPerUser)) \/ pc[c] = "entering"
    /\ pc'[c] = "welcome" /\ waited' = waited
    /\ count < MaxGlobal /\ count' = count + 1
    /\ alices' = IF c \in Alice THEN alices + 1 ELSE alices

Uncounts(c) ==
    /\ pc[c] \in {"loop", "leaving"} /\ pc'[c] = "ended" /\ waited' = waited
    /\ count' = Less(count) /\ alices' = IF c \in Alice THEN Less(alices) ELSE alices

Steps(c) ==
    /\ Quiet(c) \/ Registers(c) \/ Uncounts(c)
    /\ \A d \in Clients \ {c} : pc'[d] = pc[d]

(* Under the lock a client is turned away or registered.                   *)
LEMMA EnterSteps ==
    ASSUME ConnTypeOK, NEW c \in Clients, Enter(c), waited' = waited,
           (pc[c] = "auth" /\ (c \in Alice => alices < MaxPerUser)) \/ pc[c] = "entering"
    PROVE  Steps(c) /\ pc'[c] \notin Waiting
<1>0. MaxGlobal \in Nat /\ count \in Nat
  BY LimitsAssumption DEF ConnTypeOK
<1>1. CASE count >= MaxGlobal
  <2>1. pc'[c] = "turning" /\ UNCHANGED <<count, alices>>
    BY <1>1, GotoShape DEF Enter, ConnTypeOK, Places
  <2> QED BY <2>1, EnterTypes DEF Steps, Quiet, Waiting
<1>2. CASE ~ (count >= MaxGlobal)
  <2>1. /\ pc'[c] = "welcome" /\ count' = count + 1 /\ count < MaxGlobal
        /\ alices' = IF c \in Alice THEN alices + 1 ELSE alices
    BY <1>0, <1>2, GotoShape DEF Enter, ConnTypeOK, Places, Registered
  <2>2. Registers(c)
    BY <2>1 DEF Registers
  <2> QED BY <2>1, <2>2, EnterTypes DEF Steps, Waiting
<1> QED BY <1>1, <1>2

(* The finally clause uncounts.                                            *)
LEMMA UncountSteps ==
    ASSUME ConnTypeOK, NEW c \in Clients, Uncount(c), waited' = waited,
           pc[c] \in {"loop", "leaving"}
    PROVE  Steps(c)
BY UncountTypes DEF Uncount, Steps, Uncounts

(* Every handler's step keeps the types of the connections and does one of   *)
(* these things.                                                             *)
LEMMA HandlerSteps ==
    ASSUME ConnTypeOK, QueueInv, NEW c \in Clients, Handles(c) \/ Leave(c)
    PROVE  /\ Steps(c)
           /\ {lock', waited'} \subseteq SUBSET Clients /\ redis' = redis
           /\ pc' \in [Clients -> Places] /\ queue' \in Seq(Clients)
           /\ count' \in Nat /\ alices' \in Nat
           /\ \/ queue' = queue /\ pc'[c] \notin Waiting
              \/ queue' = Append(queue, c)
              \/ queue # <<>> /\ Head(queue) = c /\ queue' = Tail(queue) /\ pc'[c] \notin Waiting
<1> DEFINE Goal == /\ Steps(c)
           /\ {lock', waited'} \subseteq SUBSET Clients /\ redis' = redis
           /\ pc' \in [Clients -> Places] /\ queue' \in Seq(Clients)
           /\ count' \in Nat /\ alices' \in Nat
           /\ \/ queue' = queue /\ pc'[c] \notin Waiting
              \/ queue' = Append(queue, c)
              \/ queue # <<>> /\ Head(queue) = c /\ queue' = Tail(queue) /\ pc'[c] \notin Waiting
<1>0. /\ {lock, waited} \subseteq SUBSET Clients /\ pc \in [Clients -> Places]
      /\ queue \in Seq(Clients) /\ count \in Nat /\ alices \in Nat
  BY DEF ConnTypeOK
<1>q. Append(queue, c) \in Seq(Clients)
  BY <1>0
<1>1. ASSUME NEW to \in Places, pc' = [pc EXCEPT ![c] = to], to \notin Waiting,
             UNCHANGED <<redis, queue, count, alices, waited>>,
             lock' \subseteq Clients,
             \/ pc[c] = "new" /\ to \in {"auth", "ended"}
             \/ pc[c] = "auth" /\ to = "ended"
             \/ pc[c] = "turning" /\ to = "ended"
             \/ pc[c] = "welcome" /\ to \in {"loop", "leaked"}
      PROVE  Goal
  BY <1>0, <1>1, GotoShape DEF Steps, Quiet, Waiting
<1>2. CASE Accept(c) \/ Reject(c)
  BY <1>0, <1>1, <1>2 DEF Accept, Reject, Goto, Places, Waiting
<1>3. CASE TurnedAway(c)
  BY <1>0, <1>1, <1>3 DEF TurnedAway, Goto, Places, Waiting
<1>4. CASE Welcome(c) \/ WelcomeFails(c)
  <2>1. CASE Welcome(c)
    <3>1. pc[c] = "welcome" /\ pc' = [pc EXCEPT ![c] = "loop"]
      BY <2>1 DEF Welcome, Goto
    <3>2. UNCHANGED <<redis, lock, queue, count, alices, waited>>
      BY <2>1 DEF Welcome
    <3>3. "loop" \in Places /\ "loop" \notin Waiting /\ lock' \subseteq Clients
      BY <1>0, <3>2 DEF Places, Registered, Waiting
    <3> QED BY <1>1, <3>1, <3>2, <3>3
  <2>2. CASE WelcomeFails(c)
    BY <1>0, <1>1, <2>2 DEF WelcomeFails, Goto, Places, Waiting
  <2> QED BY <1>4, <2>1, <2>2
<1>5. CASE Admit(c)
  <2>1. CASE LockIsFree /\ Enter(c) /\ UNCHANGED <<queue, waited>>
    BY <1>0, <1>5, <2>1, EnterSteps, EnterTypes DEF Admit
  <2>2. CASE ~LockIsFree /\ Goto(c, "auth", "entering")
    <3>1. /\ pc[c] = "auth" /\ pc' = [pc EXCEPT ![c] = "entering"]
          /\ queue' = Append(queue, c) /\ waited' = waited \cup {c}
          /\ UNCHANGED <<redis, lock, count, alices>>
      BY <1>5, <2>2, LenProperties DEF Admit, Goto, LockIsFree, Enter
    <3>2. Steps(c) /\ pc' \in [Clients -> Places]
      BY <1>0, <3>1, GotoShape DEF Steps, Quiet, Places, Waiting
    <3> QED BY <1>0, <1>q, <3>1, <3>2
  <2> QED BY <1>5, <2>1, <2>2 DEF Admit
<1>6. CASE EnterAtLast(c)
  <2>1. queue # <<>> /\ Tail(queue) \in Seq(Clients)
    BY <1>0, <1>6, QueueHead DEF EnterAtLast, Waiting
  <2> QED BY <1>0, <1>6, <2>1, EnterSteps, EnterTypes DEF EnterAtLast
<1>7. CASE LeaveAtLast(c)
  <2>1. queue # <<>> /\ Tail(queue) \in Seq(Clients)
    BY <1>0, <1>7, QueueHead DEF LeaveAtLast, Waiting
  <2> QED BY <1>0, <1>7, <2>1, UncountSteps, UncountTypes DEF LeaveAtLast, Waiting
<1>8. CASE Leave(c)
  <2>1. CASE LockIsFree /\ Uncount(c) /\ UNCHANGED <<lock, queue>>
    BY <1>0, <1>8, <2>1, UncountSteps, UncountTypes DEF Leave, Waiting
  <2>2. CASE /\ ~LockIsFree /\ Goto(c, "loop", "leaving") /\ queue' = Append(queue, c)
             /\ UNCHANGED <<lock, conns, cams, count, alices, listVars>>
    <3>1. pc[c] = "loop" /\ pc' = [pc EXCEPT ![c] = "leaving"] /\ UNCHANGED <<redis, waited>>
      BY <1>8, <2>2 DEF Leave, Goto
    <3>2. Steps(c) /\ pc' \in [Clients -> Places]
      BY <1>0, <2>2, <3>1, GotoShape DEF Steps, Quiet, Places, Waiting
    <3> QED BY <1>0, <1>q, <2>2, <3>1, <3>2
  <2> QED BY <1>8, <2>1, <2>2 DEF Leave
<1> QED BY <1>2, <1>3, <1>4, <1>5, <1>6, <1>7, <1>8 DEF Handles

(* Whoever waits stays in the queue.                                         *)
LEMMA QueueStep ==
    ASSUME ConnTypeOK, QueueInv, [Next]_vars
    PROVE  QueueInv'
<1>0. queue \in Seq(Clients) /\ pc \in [Clients -> Places]
  BY DEF ConnTypeOK
<1>1. ASSUME NEW c \in Clients, Handles(c) \/ Leave(c),
             NEW d \in Clients, pc'[d] \in Waiting
      PROVE  \E i \in 1 .. Len(queue') : queue'[i] = d
  <2>1. d # c => \E i \in 1 .. Len(queue) : queue[i] = d
    BY <1>1, HandlerSteps DEF Steps, QueueInv
  <2>2. CASE queue' = queue /\ pc'[c] \notin Waiting
    BY <1>1, <2>1, <2>2
  <2>3. CASE queue' = Append(queue, c)
    <3>1. /\ Len(queue') = Len(queue) + 1 /\ queue'[Len(queue) + 1] = c /\ Len(queue) \in Nat
          /\ \A i \in 1 .. Len(queue) : queue'[i] = queue[i]
      BY <1>0, <2>3
    <3> QED BY <2>1, <3>1
  <2>4. CASE queue # <<>> /\ Head(queue) = c /\ queue' = Tail(queue) /\ pc'[c] \notin Waiting
    <3>1. PICK i \in 1 .. Len(queue) : queue[i] = d
      BY <1>1, <2>1, <2>4
    <3>2. /\ Len(queue') = Len(queue) - 1 /\ Len(queue) \in Nat /\ queue[1] = c
          /\ \A j \in 1 .. Len(queue') : queue'[j] = queue[j + 1]
      BY <1>0, <2>4, HeadTailProperties, LenProperties
    <3>3. i # 1
      BY <1>1, <2>4, <3>1, <3>2
    <3>4. i - 1 \in 1 .. Len(queue') /\ queue'[i - 1] = d
      BY <3>1, <3>2, <3>3
    <3> QED BY <3>4
  <2> QED BY <1>1, <2>2, <2>3, <2>4, HandlerSteps
<1> QED BY <1>1, FeedKinds DEF QueueInv
(* The counts.  How the clients that hold a place change with a step.        *)
LEMMA HoldingFinite ==
    /\ IsFiniteSet(Holding) /\ IsFiniteSet(Holding \cap Alice)
    /\ IsFiniteSet((Holding \cap Alice) \ waited)
BY FS_Subset, ClientsAssumption DEF Holding

(* A user's clients beyond the limit had to wait.                          *)
LEMMA AlicesBound ==
    ASSUME NEW H \in SUBSET Clients, NEW W \in SUBSET Clients, NEW n,
           n = Cardinality(H \cap Alice), Cardinality((H \cap Alice) \ W) <= MaxPerUser
    PROVE  n <= MaxPerUser + Cardinality(W \cap Alice)
<1> DEFINE A == H \cap Alice
           B == A \ W
           C == A \cap W
           D == W \cap Alice
<1>1. IsFiniteSet(A) /\ IsFiniteSet(B) /\ IsFiniteSet(C) /\ IsFiniteSet(D)
  BY FS_Subset, ClientsAssumption
<1>2. /\ Cardinality(A) \in Nat /\ Cardinality(B) \in Nat /\ Cardinality(C) \in Nat
      /\ Cardinality(D) \in Nat
  BY <1>1, FS_CardinalityType
<1>3. A = B \cup C /\ B \cap C = {}
  OBVIOUS
<1>4. C \subseteq D
  OBVIOUS
<1>5. Cardinality(B) <= MaxPerUser /\ MaxPerUser \in Nat /\ n = Cardinality(A)
  BY LimitsAssumption
<1> HIDE DEF A, B, C, D
<1>6. Cardinality(A) = Cardinality(B) + Cardinality(C)
  <2>1. Cardinality(B \cup C) = Cardinality(B) + Cardinality(C) - Cardinality(B \cap C)
    BY <1>1, FS_Union
  <2>2. Cardinality(B \cap C) = 0
    BY <1>3, FS_EmptySet
  <2>3. Cardinality(A) = Cardinality(B \cup C)
    BY <1>3
  <2> QED BY <1>2, <2>1, <2>2, <2>3
<1>7. Cardinality(C) <= Cardinality(D)
  BY <1>1, <1>4, FS_Subset
<1>8. n <= MaxPerUser + Cardinality(D)
  BY <1>2, <1>5, <1>6, <1>7
<1> QED BY <1>8 DEF D

(* Every step keeps the counts and the limits.                             *)
LEMMA LimitsStep ==
    ASSUME ConnTypeOK, ConnTypeOK', QueueInv, EnteredInv, LimitsHold, [Next]_vars
    PROVE  /\ EnteredInv' /\ count' = Cardinality(Holding') /\ count' <= MaxGlobal
           /\ alices' = Cardinality(Holding' \cap Alice)
<1> DEFINE A == Holding \cap Alice
           B == A \ waited
           Goal == /\ EnteredInv' /\ count' = Cardinality(Holding') /\ count' <= MaxGlobal
                   /\ alices' = Cardinality(Holding' \cap Alice)
<1>0. /\ MaxGlobal \in Nat /\ MaxPerUser \in Nat /\ count \in Nat /\ alices \in Nat
      /\ pc \in [Clients -> Places] /\ pc' \in [Clients -> Places]
  BY LimitsAssumption DEF ConnTypeOK
<1>f. /\ IsFiniteSet(Holding) /\ IsFiniteSet(A) /\ IsFiniteSet(B)
      /\ Cardinality(A) \in Nat /\ Cardinality(B) \in Nat /\ Cardinality(Holding) \in Nat
  BY HoldingFinite, FS_CardinalityType
<1>g. /\ IsFiniteSet(Holding') /\ IsFiniteSet(A') /\ IsFiniteSet(B')
      /\ Cardinality(A') \in Nat /\ Cardinality(B') \in Nat
  BY FS_Subset, FS_CardinalityType, ClientsAssumption DEF Holding
<1>h. /\ count = Cardinality(Holding) /\ count <= MaxGlobal /\ alices = Cardinality(A)
      /\ Cardinality(B) <= MaxPerUser
  BY DEF LimitsHold, EnteredInv
<1>1. CASE UNCHANGED <<redis, pc, lock, queue, count, alices, waited>>
  BY <1>1 DEF EnteredInv, LimitsHold, Holding
<1>2. ASSUME NEW c \in Clients, Handles(c) \/ Leave(c)
      PROVE  Goal
  <2>0. Steps(c)
    BY <1>2, HandlerSteps
  <2>1. CASE Quiet(c)
    <3>1. Holding' = Holding
      BY <1>0, <2>0, <2>1 DEF Steps, Quiet, Holding, Registered, Waiting
    <3>2. \A d \in Clients : pc'[d] = "entering" => d \in waited'
      BY <2>0, <2>1 DEF Steps, Quiet, EnteredInv
    <3>3. B' \subseteq B
      BY <2>1, <3>1 DEF Quiet
    <3>4. Cardinality(B') <= Cardinality(B)
      BY <1>f, <3>3, FS_Subset
    <3>5. Cardinality(B') <= MaxPerUser
      BY <1>0, <1>f, <1>g, <1>h, <3>4
    <3>6. count' = count /\ alices' = alices
      BY <2>1 DEF Quiet
    <3> QED BY <1>h, <3>1, <3>2, <3>5, <3>6 DEF EnteredInv
  <2>2. CASE Registers(c)
    <3>1. Holding' = Holding \cup {c} /\ c \notin Holding
      BY <1>0, <2>0, <2>2 DEF Steps, Registers, Holding, Registered, Waiting
    <3>2. \A d \in Clients : pc'[d] = "entering" => d \in waited'
      BY <2>0, <2>2 DEF Steps, Registers, EnteredInv
    <3>3. Cardinality(Holding') = Cardinality(Holding) + 1
      BY <1>f, <3>1, FS_AddElement
    <3>4. count' = count + 1 /\ count < MaxGlobal /\ waited' = waited
      BY <2>2 DEF Registers
    <3>5. count' = Cardinality(Holding') /\ count' <= MaxGlobal
      BY <1>0, <1>h, <3>3, <3>4
    <3>6. CASE c \in Alice
      <4>1. A' = A \cup {c} /\ c \notin A
        BY <3>1, <3>6
      <4>2. Cardinality(A') = Cardinality(A) + 1
        BY <1>f, <4>1, FS_AddElement
      <4>3. alices' = Cardinality(A')
        BY <1>h, <2>2, <3>6, <4>2 DEF Registers
      <4>4. CASE pc[c] = "entering"
        <5>1. B' = B
          BY <3>1, <3>4, <4>4 DEF EnteredInv
        <5> QED BY <1>h, <3>2, <3>5, <4>3, <5>1 DEF EnteredInv
      <4>5. CASE alices < MaxPerUser
        <5>1. B' \subseteq A'
          OBVIOUS
        <5>2. Cardinality(B') <= Cardinality(A')
          BY <1>g, <5>1, FS_Subset
        <5>3. Cardinality(A') <= MaxPerUser
          BY <1>0, <1>h, <4>2, <4>5
        <5>4. Cardinality(B') <= MaxPerUser
          BY <1>0, <1>g, <5>2, <5>3
        <5> QED BY <3>2, <3>5, <4>3, <5>4 DEF EnteredInv
      <4> QED BY <2>2, <3>6, <4>4, <4>5 DEF Registers
    <3>7. CASE c \notin Alice
      <4>1. A' = A /\ B' = B /\ alices' = alices
        BY <2>2, <3>1, <3>4, <3>7 DEF Registers
      <4> QED BY <1>h, <3>2, <3>5, <4>1 DEF EnteredInv
    <3> QED BY <3>6, <3>7
  <2>3. CASE Uncounts(c)
    <3>1. Holding' = Holding \ {c} /\ c \in Holding
      BY <1>0, <2>0, <2>3 DEF Steps, Uncounts, Holding, Registered, Waiting
    <3>2. (\A d \in Clients : pc'[d] = "entering" => d \in waited') /\ waited' = waited
      BY <2>0, <2>3 DEF Steps, Uncounts, EnteredInv
    <3>3. Cardinality(Holding') = Cardinality(Holding) - 1
      BY <1>f, <3>1, FS_RemoveElement
    <3>4. Cardinality(Holding) # 0
      BY <1>f, <3>1, FS_EmptySet
    <3>5. count' = Less(count)
      BY <2>3 DEF Uncounts
    <3>6. count' = Cardinality(Holding') /\ count' <= MaxGlobal
      BY <1>0, <1>h, <3>3, <3>4, <3>5 DEF Less
    <3>7. B' \subseteq B
      BY <3>1, <3>2
    <3>8. Cardinality(B') <= MaxPerUser
      BY <1>0, <1>f, <1>g, <1>h, <3>7, FS_Subset
    <3>9. alices' = Cardinality(A')
      <4>1. CASE c \in Alice
        <5>1. A' = A \ {c} /\ c \in A
          BY <3>1, <4>1
        <5>2. Cardinality(A') = Cardinality(A) - 1 /\ Cardinality(A) # 0
          <6> HIDE DEF A
          <6>1. Cardinality(A \ {c}) = Cardinality(A) - 1
            BY <1>f, <5>1, FS_RemoveElement
          <6>2. Cardinality(A) # 0
            BY <1>f, <5>1, FS_EmptySet
          <6> QED BY <5>1, <6>1, <6>2
        <5>3. alices' = Less(alices)
          BY <2>3, <4>1 DEF Uncounts
        <5> QED BY <1>0, <1>h, <5>2, <5>3 DEF Less
      <4>2. CASE c \notin Alice
        <5>1. A' = A /\ alices' = alices
          BY <2>3, <3>1, <4>2 DEF Uncounts
        <5> QED BY <1>h, <5>1
      <4> QED BY <4>1, <4>2
    <3> QED BY <3>2, <3>6, <3>8, <3>9 DEF EnteredInv
  <2> QED BY <2>0, <2>1, <2>2, <2>3 DEF Steps
<1> QED BY <1>1, <1>2, FeedKinds
-----------------------------------------------------------------------------
(* The listeners.                                                            *)
ListTypeOK ==
    /\ {tasks, cancelled} \subseteq SUBSET Clients
    /\ entry \in {<<>>} \cup [task : Clients, refs : Nat \ {0}]

(* What a step is for the listeners.                                         *)
LEMMA ListenKinds ==
    ASSUME ConnTypeOK, QueueInv, [Next]_vars
    PROVE  \/ UNCHANGED <<redis, pc, listVars>>
           \/ \E t \in Clients : ListenerEnds(t)
           \/ \E c \in Clients : Welcome(c)
           \/ \E c \in Clients : /\ pc[c] \in {"loop", "leaving"} /\ Uncount(c)
                                 /\ redis' = redis /\ pc \in [Clients -> Places]
           \/ \E c \in Clients : /\ UNCHANGED <<redis, listVars>> /\ Steps(c)
                                 /\ pc[c] \notin {"loop", "leaving", "ended"}
                                 /\ pc'[c] \notin {"loop", "leaving"}
           \/ \E c \in Clients : /\ UNCHANGED <<redis, listVars>> /\ Steps(c)
                                 /\ pc[c] = "loop" /\ pc'[c] = "leaving"
<1> DEFINE Goal ==
           \/ UNCHANGED <<redis, pc, listVars>>
           \/ \E t \in Clients : ListenerEnds(t)
           \/ \E c \in Clients : Welcome(c)
           \/ \E c \in Clients : /\ pc[c] \in {"loop", "leaving"} /\ Uncount(c)
                                 /\ redis' = redis /\ pc \in [Clients -> Places]
           \/ \E c \in Clients : /\ UNCHANGED <<redis, listVars>> /\ Steps(c)
                                 /\ pc[c] \notin {"loop", "leaving", "ended"}
                                 /\ pc'[c] \notin {"loop", "leaving"}
           \/ \E c \in Clients : /\ UNCHANGED <<redis, listVars>> /\ Steps(c)
                                 /\ pc[c] = "loop" /\ pc'[c] = "leaving"
<1>0. pc \in [Clients -> Places]
  BY DEF ConnTypeOK
<1>1. ASSUME NEW c \in Clients, NEW d \in Clients, Disconnect(c) \/ Broadcast(c) \/ SendOne(c, d)
      PROVE  Goal
  BY <1>1 DEF Disconnect, Broadcast, SendOne, connVars
<1>2. ASSUME ReadPong \/ Ping \/ Pong \/ Say \/ PublishEvent \/ Enqueue \/ UNCHANGED vars PROVE Goal
  BY <1>2 DEF ReadPong, Ping, Pong, Say, PublishEvent, Enqueue, vars, connVars
<1>3. ASSUME NEW c \in Clients, Leave(c) PROVE Goal
  <2>1. CASE Uncount(c)
    BY <1>0, <1>3, <2>1 DEF Leave
  <2>2. CASE Goto(c, "loop", "leaving") /\ UNCHANGED listVars
    <3>1. pc[c] = "loop" /\ pc'[c] = "leaving"
      BY <1>0, <2>2, GotoShape DEF Goto, Places, Waiting
    <3>2. redis' = redis /\ Steps(c)
      BY <1>3, HandlerSteps
    <3> QED BY <2>2, <3>1, <3>2
  <2> QED BY <1>3, <2>1, <2>2 DEF Leave
<1>4. ASSUME NEW c \in Clients, Accept(c) \/ Reject(c) \/ Admit(c) \/ EnterAtLast(c)
                                \/ TurnedAway(c) \/ WelcomeFails(c)
      PROVE  Goal
  <2>1. Steps(c) /\ redis' = redis
    BY <1>4, HandlerSteps DEF Handles
  <2>2. UNCHANGED listVars
    BY <1>4 DEF Accept, Reject, Admit, EnterAtLast, TurnedAway, WelcomeFails
  <2>3. pc[c] \in {"new", "auth", "entering", "turning", "welcome"}
    BY <1>4 DEF Accept, Reject, Admit, EnterAtLast, TurnedAway, WelcomeFails, Goto
  <2>4. pc'[c] \notin {"loop", "leaving"}
    <3>1. CASE WelcomeFails(c)
      BY <1>0, <3>1, GotoShape DEF WelcomeFails, Goto, Places
    <3>2. CASE ~WelcomeFails(c)
      <4>1. pc[c] # "welcome"
        BY <1>4, <3>2 DEF Accept, Reject, Admit, EnterAtLast, TurnedAway, Goto
      <4> QED BY <2>1, <2>3, <4>1 DEF Steps, Quiet, Registers, Uncounts
    <3> QED BY <3>1, <3>2
  <2> QED BY <2>1, <2>2, <2>3, <2>4
<1>5. ASSUME NEW c \in Clients, LeaveAtLast(c) PROVE Goal
  BY <1>0, <1>5 DEF LeaveAtLast
<1>6. ASSUME ServeEvent \/ ReadOther \/ SeeDisconnect \/ CloseSilent
      PROVE  Leave(Followed) \/ UNCHANGED <<redis, pc, listVars>>
  BY <1>6 DEF ServeEvent, ReadOther, SeeDisconnect, CloseSilent, FollowedLeaves, connVars
<1>7. ASSUME NEW c \in Clients, OtherLeaves(c) PROVE Leave(c)
  BY <1>7 DEF OtherLeaves
<1> QED BY <1>1, <1>2, <1>3, <1>4, <1>5, <1>6, <1>7, ClientsAssumption DEF Next

(* An entry of _redis_listeners is not its absence.                        *)
LEMMA EntryIsNotNone ==
    ASSUME NEW x \in [task : Clients, refs : Nat \ {0}] PROVE x # <<>>
<1>1. "task" \in DOMAIN x
  OBVIOUS
<1>2. DOMAIN <<>> = {}
  OBVIOUS
<1> QED BY <1>1, <1>2

(* Every step keeps one listener for the clients served.                   *)
LEMMA ListenStep ==
    ASSUME ConnTypeOK, ConnTypeOK', ListTypeOK, QueueInv, TasksInv, OneListener, [Next]_vars
    PROVE  ListTypeOK' /\ TasksInv' /\ OneListener'
<1> DEFINE Goal == ListTypeOK' /\ TasksInv' /\ OneListener'
<1>0. /\ pc \in [Clients -> Places] /\ pc' \in [Clients -> Places] /\ redis \in BOOLEAN
      /\ entry \in {<<>>} \cup [task : Clients, refs : Nat \ {0}]
      /\ tasks \subseteq Clients /\ cancelled \subseteq Clients
  BY DEF ConnTypeOK, ListTypeOK
<1>e. \A x : x \in [task : Clients, refs : Nat \ {0}] => x # <<>>
  BY EntryIsNotNone
<1>f. /\ IsFiniteSet(Served) /\ Cardinality(Served) \in Nat
      /\ IsFiniteSet(Served') /\ Cardinality(Served') \in Nat
  BY FS_Subset, FS_CardinalityType, ClientsAssumption DEF Served
<1>1. CASE UNCHANGED <<redis, pc, listVars>>
  BY <1>1 DEF listVars, ListTypeOK, TasksInv, OneListener, Served
<1>2. ASSUME NEW t \in Clients, ListenerEnds(t) PROVE Goal
  <2>1. UNCHANGED <<redis, pc>> /\ Served' = Served
    BY <1>2 DEF ListenerEnds, connVars, Served
  <2>2. entry # <<>> => t # entry.task
    BY <1>2 DEF ListenerEnds, OneListener
  <2>3. /\ entry' = entry /\ t \in cancelled
        /\ cancelled' = cancelled \ {t} /\ tasks' = tasks \ {t}
    BY <1>2, <2>2 DEF ListenerEnds
  <2>4. OneListener'
    BY <2>1, <2>3, <2>2 DEF OneListener
  <2>5. TasksInv' /\ ListTypeOK'
    BY <1>0, <2>1, <2>3 DEF TasksInv, ListTypeOK
  <2> QED BY <2>4, <2>5
<1>3. ASSUME NEW c \in Clients, Welcome(c) PROVE Goal
  <2>1. pc[c] = "welcome" /\ pc'[c] = "loop" /\ redis' = redis /\ \A d \in Clients \ {c} : pc'[d] = pc[d]
    BY <1>0, <1>3, GotoShape DEF Welcome, Goto, Places, Registered
  <2>2. c \notin tasks
    BY <2>1 DEF TasksInv
  <2>3. CASE ~ (redis /\ c \notin Admins)
    <3>1. UNCHANGED listVars
      BY <1>3, <2>3 DEF Welcome
    <3>2. Served' = Served \/ redis = FALSE
      BY <1>0, <2>1, <2>3 DEF Served
    <3> QED BY <1>0, <2>1, <3>1, <3>2 DEF listVars, ListTypeOK, TasksInv, OneListener
  <2>4. CASE redis /\ c \notin Admins
    <3>1. Served' = Served \cup {c} /\ c \notin Served
      BY <1>0, <2>1, <2>4 DEF Served
    <3>2. Cardinality(Served') = Cardinality(Served) + 1
      BY <1>f, <3>1, FS_AddElement
    <3>3. Ensure(c)
      BY <1>3, <2>4 DEF Welcome
    <3>4. CASE entry # <<>>
      <4>1. entry' = [entry EXCEPT !.refs = @ + 1] /\ UNCHANGED <<tasks, cancelled>>
        BY <3>3, <3>4 DEF Ensure
      <4>2. entry.refs = Cardinality(Served) /\ tasks \ cancelled = {entry.task}
        BY <3>4 DEF OneListener
      <4>3. /\ entry' \in [task : Clients, refs : Nat \ {0}] /\ entry'.task = entry.task
            /\ entry'.refs = entry.refs + 1
        BY <1>0, <3>4, <4>1
      <4>4. OneListener'
        BY <1>e, <2>1, <2>4, <3>1, <3>2, <4>1, <4>2, <4>3 DEF OneListener
      <4> QED BY <1>0, <2>1, <4>1, <4>3, <4>4 DEF ListTypeOK, TasksInv
    <3>5. CASE entry = <<>>
      <4>1. entry' = [task |-> c, refs |-> 1] /\ tasks' = tasks \cup {c} /\ cancelled' = cancelled
        BY <3>3, <3>5 DEF Ensure
      <4>2. tasks = cancelled /\ Served = {}
        BY <2>4, <3>5 DEF OneListener
      <4>3. entry' \in [task : Clients, refs : Nat \ {0}] /\ entry'.task = c /\ entry'.refs = 1
        BY <4>1
      <4>4. Cardinality(Served') = 1
        BY <3>2, <4>2, FS_EmptySet
      <4>5. tasks' \ cancelled' = {c}
        BY <2>2, <4>1, <4>2
      <4>6. OneListener'
        BY <1>e, <2>1, <2>4, <3>1, <4>3, <4>4, <4>5 DEF OneListener
      <4> QED BY <1>0, <2>1, <4>1, <4>3, <4>6 DEF ListTypeOK, TasksInv
    <3> QED BY <3>4, <3>5
  <2> QED BY <2>3, <2>4
<1>4. ASSUME NEW c \in Clients, pc[c] \in {"loop", "leaving"}, Uncount(c), redis' = redis
      PROVE  Goal
  <2>1. pc'[c] = "ended" /\ \A d \in Clients \ {c} : pc'[d] = pc[d]
    BY <1>4, UncountTypes
  <2>2. \A t \in tasks : pc'[t] \in {"loop", "leaving", "ended"}
    BY <1>0, <2>1 DEF TasksInv
  <2>3. CASE ~ (redis /\ c \notin Admins)
    <3>1. UNCHANGED listVars
      BY <1>4, <2>3 DEF Uncount
    <3>2. Served' = Served \/ redis = FALSE
      BY <1>0, <2>1, <1>4, <2>3 DEF Served
    <3> QED BY <1>0, <1>4, <2>2, <3>1, <3>2 DEF listVars, ListTypeOK, TasksInv, OneListener
  <2>4. CASE redis /\ c \notin Admins
    <3>1. Served' = Served \ {c} /\ c \in Served
      BY <1>0, <1>4, <2>1, <2>4 DEF Served
    <3>2. Cardinality(Served') = Cardinality(Served) - 1
      BY <1>f, <3>1, FS_RemoveElement
    <3>3. Release
      BY <1>4, <2>4 DEF Uncount
    <3>4. /\ entry # <<>> /\ entry.refs = Cardinality(Served)
          /\ tasks \ cancelled = {entry.task}
      BY <2>4, <3>1 DEF OneListener
    <3>5. entry \in [task : Clients, refs : Nat \ {0}]
      BY <1>0, <3>4
    <3>6. CASE entry.refs > 1
      <4>1. entry' = [entry EXCEPT !.refs = @ - 1] /\ UNCHANGED <<tasks, cancelled>>
        BY <3>3, <3>4, <3>6 DEF Release
      <4>2. /\ entry' \in [task : Clients, refs : Nat \ {0}] /\ entry'.task = entry.task
            /\ entry'.refs = entry.refs - 1
        BY <3>5, <3>6, <4>1
      <4>3. Served' # {}
        BY <1>f, <3>2, <3>4, <3>6, FS_EmptySet
      <4>4. OneListener'
        BY <1>e, <1>4, <2>4, <3>2, <3>4, <4>1, <4>2, <4>3 DEF OneListener
      <4> QED BY <1>0, <2>2, <4>1, <4>2, <4>4 DEF ListTypeOK, TasksInv
    <3>7. CASE ~ (entry.refs > 1)
      <4>1. entry' = <<>> /\ cancelled' = cancelled \cup {entry.task} /\ tasks' = tasks
        BY <3>3, <3>4, <3>7 DEF Release
      <4>2. Cardinality(Served') = 0
        BY <1>f, <3>2, <3>4, <3>5, <3>7
      <4>3. Served' = {}
        BY <1>f, <4>2, FS_EmptySet
      <4>4. tasks' = cancelled' /\ cancelled' \subseteq Clients
        BY <1>0, <3>4, <4>1 DEF TasksInv
      <4> QED BY <1>0, <2>2, <4>1, <4>3, <4>4 DEF ListTypeOK, TasksInv, OneListener
    <3> QED BY <3>6, <3>7
  <2> QED BY <2>3, <2>4
<1>5. ASSUME NEW c \in Clients, UNCHANGED <<redis, listVars>>, Steps(c),
             pc[c] \notin {"loop", "leaving", "ended"}, pc'[c] \notin {"loop", "leaving"}
      PROVE  Goal
  <2>1. Served' = Served
    BY <1>0, <1>5 DEF Served, Steps
  <2>2. \A t \in tasks : pc'[t] = pc[t]
    BY <1>0, <1>5 DEF TasksInv, Steps
  <2> QED BY <1>5, <2>1, <2>2 DEF listVars, ListTypeOK, TasksInv, OneListener
<1>6. ASSUME NEW c \in Clients, UNCHANGED <<redis, listVars>>, Steps(c),
             pc[c] = "loop", pc'[c] = "leaving"
      PROVE  Goal
  <2>1. Served' = Served
    BY <1>0, <1>6 DEF Served, Steps
  <2>2. \A t \in tasks : pc'[t] \in {"loop", "leaving", "ended"}
    BY <1>0, <1>6 DEF TasksInv, Steps
  <2> QED BY <1>6, <2>1, <2>2 DEF listVars, ListTypeOK, TasksInv, OneListener
<1> QED BY <1>1, <1>2, <1>3, <1>4, <1>5, <1>6, ListenKinds
-----------------------------------------------------------------------------
(* Where broadcasts look.                                                    *)
Reached ==
    \A c \in Clients : pc[c] \in Registered /\ c \notin broken => c \in conns \cap cams

ReachTypeOK ==
    /\ {conns, cams, broken} \subseteq SUBSET Clients /\ todo \in [Clients -> SUBSET Clients]

(* What a step is for the lists that broadcasts go through.                *)
LEMMA ReachKinds ==
    ASSUME ConnTypeOK, QueueInv, [Next]_vars
    PROVE  \/ /\ UNCHANGED <<conns, cams>> /\ broken \subseteq broken'
              /\ pc' = pc \/ \E c \in Clients : Quiet(c) /\ Steps(c)
           \/ \E c \in Clients : /\ conns' = conns \cup {c} /\ cams' = cams \cup {c}
                                 /\ broken' = broken /\ Steps(c)
           \/ \E c \in Clients : /\ conns' = conns \ {c} /\ cams' = cams \ {c} /\ broken' = broken
                                 /\ c \in broken \/ pc'[c] \notin Registered
                                 /\ \A d \in Clients \ {c} : pc'[d] = pc[d]
<1> DEFINE Goal ==
           \/ /\ UNCHANGED <<conns, cams>> /\ broken \subseteq broken'
              /\ pc' = pc \/ \E c \in Clients : Quiet(c) /\ Steps(c)
           \/ \E c \in Clients : /\ conns' = conns \cup {c} /\ cams' = cams \cup {c}
                                 /\ broken' = broken /\ Steps(c)
           \/ \E c \in Clients : /\ conns' = conns \ {c} /\ cams' = cams \ {c} /\ broken' = broken
                                 /\ c \in broken \/ pc'[c] \notin Registered
                                 /\ \A d \in Clients \ {c} : pc'[d] = pc[d]
<1>1. ASSUME NEW c \in Clients, Disconnect(c) \/ Broadcast(c) \/ ListenerEnds(c) PROVE Goal
  BY <1>1 DEF Disconnect, Broadcast, ListenerEnds, connVars
<1>2. ASSUME NEW t \in Clients, NEW c \in Clients, SendOne(t, c) PROVE Goal
  BY <1>2 DEF SendOne, Registered
<1>3. ASSUME ReadPong \/ Ping \/ Pong \/ Say \/ PublishEvent \/ Enqueue \/ UNCHANGED vars PROVE Goal
  BY <1>3 DEF ReadPong, Ping, Pong, Say, PublishEvent, Enqueue, vars, connVars
<1>4. ASSUME NEW c \in Clients, Uncount(c), broken' = broken PROVE Goal
  <2>1. pc'[c] \notin Registered /\ \A d \in Clients \ {c} : pc'[d] = pc[d]
    BY <1>4, UncountTypes DEF Registered
  <2> QED BY <1>4, <2>1 DEF Uncount
<1>5. ASSUME NEW c \in Clients, Enter(c), broken' = broken, Steps(c) PROVE Goal
  <2>1. CASE count >= MaxGlobal
    <3>1. UNCHANGED <<conns, cams>> /\ pc'[c] = "turning"
      BY <1>5, <2>1, GotoShape DEF Enter, ConnTypeOK, Places
    <3>2. Quiet(c)
      BY <1>5, <3>1 DEF Steps, Registers, Uncounts
    <3> QED BY <1>5, <3>1, <3>2
  <2>2. CASE ~ (count >= MaxGlobal)
    BY <1>5, <2>2 DEF Enter
  <2> QED BY <2>1, <2>2
<1>6. ASSUME NEW c \in Clients, pc' = [pc EXCEPT ![c] = "leaving"], pc[c] = "loop", Steps(c),
             UNCHANGED <<conns, cams, broken>>
      PROVE  Goal
  BY <1>6 DEF Steps, Registers, Uncounts, Quiet, ConnTypeOK
<1>7. ASSUME NEW c \in Clients, Leave(c) PROVE Goal
  <2>1. Steps(c) /\ broken' = broken
    BY <1>7, HandlerSteps DEF Leave
  <2> HIDE DEF Goal
  <2>2. CASE Uncount(c)
    BY <1>4, <2>1, <2>2
  <2>3. CASE Goto(c, "loop", "leaving") /\ UNCHANGED <<conns, cams>>
    BY <1>6, <2>1, <2>3 DEF Goto
  <2> QED BY <1>7, <2>2, <2>3 DEF Leave
<1>8. ASSUME NEW c \in Clients, Steps(c), UNCHANGED <<conns, cams, broken>>,
             pc[c] \notin {"loop", "leaving"}, pc'[c] # "welcome"
      PROVE  Goal
  BY <1>8 DEF Steps, Registers, Uncounts
<1>9. ASSUME NEW c \in Clients, Accept(c) \/ Reject(c) \/ TurnedAway(c) \/ Welcome(c) \/ WelcomeFails(c)
      PROVE  Goal
  <2>1. Steps(c)
    BY <1>9, HandlerSteps DEF Handles
  <2>2. UNCHANGED <<conns, cams, broken>> /\ pc[c] \notin {"loop", "leaving"}
    BY <1>9 DEF Accept, Reject, TurnedAway, Welcome, WelcomeFails, Goto
  <2>3. pc'[c] # "welcome"
    BY <1>9 DEF Accept, Reject, TurnedAway, Welcome, WelcomeFails, Goto, ConnTypeOK
  <2> HIDE DEF Goal
  <2> QED BY <1>8, <2>1, <2>2, <2>3
<1>10. ASSUME NEW c \in Clients, Admit(c) PROVE Goal
  <2>1. Steps(c) /\ broken' = broken
    BY <1>10, HandlerSteps DEF Handles, Admit
  <2> HIDE DEF Goal
  <2>2. CASE Enter(c)
    BY <1>5, <2>1, <2>2
  <2>3. CASE Goto(c, "auth", "entering") /\ UNCHANGED <<conns, cams>>
    <3>1. pc[c] = "auth" /\ pc'[c] = "entering"
      BY <2>3 DEF Goto, ConnTypeOK
    <3> QED BY <1>8, <2>1, <2>3, <3>1
  <2> QED BY <1>10, <2>2, <2>3 DEF Admit
<1>11. ASSUME NEW c \in Clients, EnterAtLast(c) \/ LeaveAtLast(c) PROVE Goal
  <2>1. Steps(c) /\ broken' = broken
    BY <1>11, HandlerSteps DEF Handles, EnterAtLast, LeaveAtLast
  <2> HIDE DEF Goal
  <2> QED BY <1>4, <1>5, <1>11, <2>1 DEF EnterAtLast, LeaveAtLast
<1>12. ASSUME ServeEvent \/ ReadOther \/ SeeDisconnect \/ CloseSilent
       PROVE  Leave(Followed) \/ UNCHANGED <<pc, conns, cams, broken>>
  BY <1>12 DEF ServeEvent, ReadOther, SeeDisconnect, CloseSilent, FollowedLeaves, connVars
<1>13. UNCHANGED <<pc, conns, cams, broken>> => Goal
  OBVIOUS
<1> HIDE DEF Goal
<1>14. ASSUME NEW c \in Clients, OtherLeaves(c) PROVE Goal
  BY <1>7, <1>14 DEF OtherLeaves
<1>15. Goal
  BY <1>1, <1>2, <1>3, <1>7, <1>9, <1>10, <1>11, <1>12, <1>13, <1>14, ClientsAssumption DEF Next
<1> QED BY <1>15 DEF Goal

(* Every step keeps the clients that stand on the lists.                   *)
LEMMA ReachStep ==
    ASSUME ConnTypeOK, ConnTypeOK', QueueInv, Reached, [Next]_vars
    PROVE  Reached'
<1>0. pc \in [Clients -> Places] /\ pc' \in [Clients -> Places]
  BY DEF ConnTypeOK
<1>1. CASE UNCHANGED <<conns, cams>> /\ broken \subseteq broken' /\ pc' = pc
  BY <1>1 DEF Reached
<1>2. ASSUME NEW c \in Clients, UNCHANGED <<conns, cams>>, broken \subseteq broken', Quiet(c), Steps(c)
      PROVE  Reached'
  <2>1. \A d \in Clients : pc'[d] \in Registered => pc[d] \in Registered
    BY <1>2 DEF Quiet, Steps, Registered
  <2> QED BY <1>2, <2>1 DEF Reached
<1>3. ASSUME NEW c \in Clients, conns' = conns \cup {c}, cams' = cams \cup {c}, broken' = broken,
             Steps(c)
      PROVE  Reached'
  BY <1>3 DEF Steps, Reached
<1>4. ASSUME NEW c \in Clients, conns' = conns \ {c}, cams' = cams \ {c}, broken' = broken,
             c \in broken \/ pc'[c] \notin Registered, \A d \in Clients \ {c} : pc'[d] = pc[d]
      PROVE  Reached'
  BY <1>4 DEF Reached
<1> QED BY <1>1, <1>2, <1>3, <1>4, ReachKinds

-----------------------------------------------------------------------------
(* The bus of the followed client.                                           *)
Early == {"new", "auth", "turning", "entering", "welcome"}

BusTypeOK ==
    bus \in [published : 0 .. MaxEvents, last : 0 .. MaxEvents,
             coming : Seq(1 .. MaxEvents), held : Seq(1 .. MaxEvents)]

BeatTypeOK ==
    beat \in [age : 0 .. AgeLimit, pinged : BOOLEAN, inbox : Seq(Sayings),
              taken : SUBSET {"events", "messages"}]

(* An event is served.                                                       *)
Serves ==
    /\ bus.held # <<>> /\ bus' = [bus EXCEPT !.last = Head(bus.held), !.held = Tail(bus.held)]

(* What a step is for the bus.                                               *)
LEMMA BusKinds ==
    ASSUME ConnTypeOK, QueueInv, [Next]_vars
    PROVE  \/ /\ UNCHANGED <<redis, bus>>
              /\ pc'[Followed] = "loop" => pc[Followed] = "loop"
              /\ pc'[Followed] \in Early => pc[Followed] \in Early
           \/ /\ redis' = redis /\ pc[Followed] = "welcome" /\ pc'[Followed] = "loop"
              /\ bus' = [bus EXCEPT !.last = bus.published]
           \/ UNCHANGED <<redis, pc>> /\ ((Serves /\ Looping) \/ PublishEvent \/ Enqueue)
<1> DEFINE Same == /\ UNCHANGED <<redis, bus>>
                   /\ pc'[Followed] = "loop" => pc[Followed] = "loop"
                   /\ pc'[Followed] \in Early => pc[Followed] \in Early
<1>0. Followed \in Clients /\ pc \in [Clients -> Places]
  BY ClientsAssumption DEF ConnTypeOK
<1>1. ASSUME NEW c \in Clients, Steps(c), UNCHANGED <<redis, bus>>,
             c = Followed => ~ (pc[c] = "welcome" /\ pc'[c] = "loop")
      PROVE  Same
  <2>1. CASE c # Followed
    BY <1>0, <1>1, <2>1 DEF Steps
  <2>2. CASE c = Followed
    BY <1>1, <2>2 DEF Steps, Quiet, Registers, Uncounts, Early
  <2> QED BY <2>1, <2>2
<1>2. ASSUME NEW c \in Clients, Accept(c) \/ Reject(c) \/ Admit(c) \/ EnterAtLast(c)
                                \/ TurnedAway(c) \/ WelcomeFails(c) \/ LeaveAtLast(c)
      PROVE  Same
  <2>1. Steps(c) /\ redis' = redis
    BY <1>2, HandlerSteps DEF Handles
  <2>2. bus' = bus
    BY <1>2 DEF Accept, Reject, Admit, EnterAtLast, TurnedAway, WelcomeFails, LeaveAtLast
  <2>3. ~ (pc[c] = "welcome" /\ pc'[c] = "loop")
    BY <1>2 DEF Accept, Reject, Admit, EnterAtLast, TurnedAway, WelcomeFails, LeaveAtLast, Goto,
                ConnTypeOK
  <2> QED BY <1>1, <2>1, <2>2, <2>3
<1>3. ASSUME NEW c \in Clients, Leave(c), bus' = bus PROVE Same
  <2>1. Steps(c) /\ redis' = redis
    BY <1>3, HandlerSteps
  <2>2. pc[c] = "loop"
    BY <1>3 DEF Leave
  <2> QED BY <1>1, <1>3, <2>1, <2>2
<1>4. ASSUME NEW c \in Clients, Welcome(c), c # Followed PROVE Same
  <2>1. Steps(c) /\ redis' = redis
    BY <1>4, HandlerSteps DEF Handles
  <2>2. bus' = bus
    BY <1>4 DEF Welcome
  <2> QED BY <1>1, <1>4, <2>1, <2>2
<1>5. CASE Welcome(Followed)
  BY <1>0, <1>5 DEF Welcome, Goto
<1>6. ASSUME NEW c \in Clients,
             Disconnect(c) \/ ListenerEnds(c) \/ Broadcast(c) \/ \E d \in Clients : SendOne(c, d)
      PROVE  Same
  BY <1>6 DEF Disconnect, ListenerEnds, Broadcast, SendOne, connVars
<1>7. ASSUME ReadPong \/ Ping \/ Pong \/ Say \/ UNCHANGED vars PROVE Same
  BY <1>7 DEF ReadPong, Ping, Pong, Say, vars, connVars
<1>8. CASE ServeEvent
  <2>1. CASE Followed \in broken
    BY <1>0, <1>3, <1>8, <2>1 DEF ServeEvent, FollowedLeaves
  <2>2. CASE Followed \notin broken
    BY <1>8, <2>2 DEF ServeEvent, Serves, connVars
  <2> QED BY <2>1, <2>2
<1>9. ASSUME ReadOther \/ SeeDisconnect \/ CloseSilent PROVE Same
  <2>1. CASE FollowedLeaves
    BY <1>0, <1>3, <2>1 DEF FollowedLeaves
  <2>2. CASE UNCHANGED <<redis, connVars, bus>>
    BY <2>2 DEF connVars
  <2> QED BY <1>9, <2>1, <2>2 DEF ReadOther, SeeDisconnect, CloseSilent
<1>10. CASE PublishEvent \/ Enqueue
  BY <1>10 DEF PublishEvent, Enqueue, connVars
<1>11. ASSUME NEW c \in Clients, OtherLeaves(c) PROVE Same
  BY <1>3, <1>11 DEF OtherLeaves
<1>13. CASE Same
  BY <1>13
<1> HIDE DEF Same
<1>12. Same \/ Welcome(Followed) \/ ServeEvent \/ PublishEvent \/ Enqueue
  <2>1. ASSUME NEW c \in Clients,
               \/ Accept(c) \/ Reject(c) \/ Admit(c) \/ EnterAtLast(c) \/ TurnedAway(c)
               \/ Welcome(c) \/ WelcomeFails(c) \/ OtherLeaves(c) \/ LeaveAtLast(c)
               \/ Disconnect(c) \/ ListenerEnds(c) \/ Broadcast(c)
               \/ \E d \in Clients : SendOne(c, d)
        PROVE  Same \/ Welcome(Followed)
    BY <1>2, <1>4, <1>6, <1>11, <2>1
  <2>2. CASE ReadOther \/ SeeDisconnect \/ CloseSilent
    BY <1>9, <2>2
  <2>3. CASE ReadPong \/ Ping \/ Pong \/ Say \/ UNCHANGED vars
    BY <1>7, <2>3
  <2> QED BY <2>1, <2>2, <2>3 DEF Next
<1> QED BY <1>5, <1>8, <1>10, <1>12, <1>13

(* Every step keeps the types of the bus.                                  *)
LEMMA BusTypes ==
    ASSUME ConnTypeOK, QueueInv, BusTypeOK, [Next]_vars
    PROVE  BusTypeOK'
<1>0. /\ bus.published \in 0 .. MaxEvents /\ bus.last \in 0 .. MaxEvents /\ MaxEvents \in Nat
      /\ bus.held \in Seq(1 .. MaxEvents) /\ bus.coming \in Seq(1 .. MaxEvents)
  BY LimitsAssumption DEF BusTypeOK
<1>1. CASE bus' = bus
  BY <1>1 DEF BusTypeOK
<1>2. CASE bus' = [bus EXCEPT !.last = bus.published]
  BY <1>2 DEF BusTypeOK
<1>3. CASE Serves
  <2>1. Head(bus.held) \in 1 .. MaxEvents /\ Tail(bus.held) \in Seq(1 .. MaxEvents)
    BY <1>0, <1>3, HeadTailProperties DEF Serves
  <2>2. bus' = [bus EXCEPT !.last = Head(bus.held), !.held = Tail(bus.held)]
    BY <1>3 DEF Serves
  <2>3. Head(bus.held) \in 0 .. MaxEvents
    BY <1>0, <2>1
  <2> QED BY <1>0, <2>1, <2>2, <2>3 DEF BusTypeOK
<1>4. CASE PublishEvent
  <2>1. bus.published + 1 \in 1 .. MaxEvents
    BY <1>0, <1>4 DEF PublishEvent
  <2>2. Append(bus.coming, bus.published + 1) \in Seq(1 .. MaxEvents)
    BY <1>0, <2>1
  <2> DEFINE sent == IF Looping THEN Append(bus.coming, bus.published + 1) ELSE bus.coming
  <2>3. sent \in Seq(1 .. MaxEvents)
    BY <1>0, <2>2
  <2>4. bus' = [bus EXCEPT !.published = bus.published + 1, !.coming = sent]
    BY <1>4 DEF PublishEvent
  <2>5. bus.published + 1 \in 0 .. MaxEvents
    BY <1>0, <2>1
  <2> HIDE DEF sent
  <2> QED BY <1>0, <2>3, <2>4, <2>5 DEF BusTypeOK
<1>5. CASE Enqueue
  <2> DEFINE room == IF Len(bus.held) < QueueLimit THEN bus.held ELSE Tail(bus.held)
  <2>1. Head(bus.coming) \in 1 .. MaxEvents /\ Tail(bus.coming) \in Seq(1 .. MaxEvents)
    BY <1>0, <1>5, HeadTailProperties DEF Enqueue
  <2>2. room \in Seq(1 .. MaxEvents)
    <3>1. CASE Len(bus.held) < QueueLimit
      BY <1>0, <3>1
    <3>2. CASE ~ (Len(bus.held) < QueueLimit)
      <4>1. bus.held # <<>>
        BY <1>0, <3>2, LimitsAssumption, EmptySeq
      <4> QED BY <1>0, <3>2, <4>1, HeadTailProperties
    <3> QED BY <3>1, <3>2
  <2>3. Append(room, Head(bus.coming)) \in Seq(1 .. MaxEvents)
    BY <2>1, <2>2
  <2>4. bus' = [bus EXCEPT !.coming = Tail(@), !.held = Append(room, Head(bus.coming))]
    BY <1>5 DEF Enqueue
  <2> QED BY <1>0, <2>1, <2>3, <2>4 DEF BusTypeOK
<1> QED BY <1>1, <1>2, <1>3, <1>4, <1>5, BusKinds

(* What lies ahead of a reader, place by place.                              *)
LEMMA AheadShape ==
    ASSUME NEW x \in Nat, NEW h \in Seq(Nat), NEW k \in Seq(Nat), NEW a,
           a = <<x>> \o h \o k
    PROVE  /\ a \in Seq(Nat) /\ Len(a) = 1 + Len(h) + Len(k) /\ a[1] = x
           /\ Len(h) \in Nat /\ Len(k) \in Nat
           /\ \A i \in 1 .. Len(h) : a[i + 1] = h[i]
           /\ \A i \in 1 .. Len(k) : a[i + 1 + Len(h)] = k[i]
<1>1. <<x>> \in Seq(Nat) /\ Len(<<x>>) = 1 /\ <<x>>[1] = x
  OBVIOUS
<1>2. /\ <<x>> \o h \in Seq(Nat) /\ Len(<<x>> \o h) = 1 + Len(h)
      /\ \A i \in 1 .. 1 + Len(h) :
            (<<x>> \o h)[i] = IF i <= 1 THEN <<x>>[i] ELSE h[i - 1]
  BY <1>1, ConcatProperties
<1>3. /\ a \in Seq(Nat) /\ Len(a) = 1 + Len(h) + Len(k)
      /\ \A i \in 1 .. 1 + Len(h) + Len(k) :
            a[i] = IF i <= 1 + Len(h) THEN (<<x>> \o h)[i] ELSE k[i - (1 + Len(h))]
  BY <1>2, ConcatProperties
<1>4. Len(h) \in Nat /\ Len(k) \in Nat
  BY LenProperties
<1>5. \A i \in 1 .. Len(h) : a[i + 1] = h[i]
  <2> TAKE i \in 1 .. Len(h)
  <2>1. i + 1 \in 1 .. 1 + Len(h) /\ i + 1 \in 1 .. 1 + Len(h) + Len(k) /\ ~ (i + 1 <= 1)
        /\ (i + 1) - 1 = i
    BY <1>4
  <2> QED BY <1>2, <1>3, <1>4, <2>1
<1>6. \A i \in 1 .. Len(k) : a[i + 1 + Len(h)] = k[i]
  <2> TAKE i \in 1 .. Len(k)
  <2>1. /\ i + 1 + Len(h) \in 1 .. 1 + Len(h) + Len(k) /\ ~ (i + 1 + Len(h) <= 1 + Len(h))
        /\ i + 1 + Len(h) - (1 + Len(h)) = i
    BY <1>4
  <2> QED BY <1>3, <2>1
<1>7. a[1] = x
  BY <1>1, <1>2, <1>3, <1>4
<1> QED BY <1>3, <1>4, <1>5, <1>6, <1>7

(* Events in their order, up to the newest.                                  *)
Rises(a, newest) == (\A i \in 1 .. Len(a) - 1 : a[i] < a[i + 1]) /\ a[Len(a)] = newest

(* The reader takes the first.                                               *)
LEMMA RisesServed ==
    ASSUME NEW x \in Nat, NEW h \in Seq(Nat), NEW k \in Seq(Nat), NEW n, h # <<>>,
           Rises(<<x>> \o h \o k, n)
    PROVE  Rises(<<Head(h)>> \o Tail(h) \o k, n)
<1> DEFINE a == <<x>> \o h \o k
           b == <<Head(h)>> \o Tail(h) \o k
<1>1. /\ Head(h) \in Nat /\ Tail(h) \in Seq(Nat) /\ Len(Tail(h)) = Len(h) - 1 /\ Len(h) \in Nat \ {0}
      /\ Head(h) = h[1] /\ \A i \in 1 .. Len(Tail(h)) : Tail(h)[i] = h[i + 1]
  BY HeadTailProperties, EmptySeq
<1>2. /\ Len(a) = 1 + Len(h) + Len(k) /\ a[1] = x /\ Len(k) \in Nat
      /\ \A i \in 1 .. Len(h) : a[i + 1] = h[i]
      /\ \A i \in 1 .. Len(k) : a[i + 1 + Len(h)] = k[i]
  BY AheadShape
<1>3. /\ Len(b) = 1 + Len(Tail(h)) + Len(k) /\ b[1] = Head(h)
      /\ \A i \in 1 .. Len(Tail(h)) : b[i + 1] = Tail(h)[i]
      /\ \A i \in 1 .. Len(k) : b[i + 1 + Len(Tail(h))] = k[i]
  BY <1>1, AheadShape
<1>4. Rises(a, n)
  OBVIOUS
<1> HIDE DEF a, b
<1>5. Len(b) = Len(a) - 1 /\ Len(b) \in Nat /\ Len(b) >= 1 /\ Len(a) \in Nat
  BY <1>1, <1>2, <1>3
<1>6. \A j \in 1 .. Len(b) : b[j] = a[j + 1]
  <2> TAKE j \in 1 .. Len(b)
  <2>1. CASE j = 1
    BY <1>1, <1>2, <1>3, <2>1
  <2>2. CASE j # 1 /\ j <= Len(h)
    <3>1. j - 1 \in 1 .. Len(Tail(h)) /\ (j - 1) + 1 = j /\ j \in 1 .. Len(h)
      BY <1>1, <1>5, <2>2
    <3>2. b[(j - 1) + 1] = Tail(h)[j - 1] /\ Tail(h)[j - 1] = h[(j - 1) + 1] /\ a[j + 1] = h[j]
      BY <1>1, <1>2, <1>3, <3>1
    <3> QED BY <3>1, <3>2
  <2>3. CASE j > Len(h)
    <3>1. j - Len(h) \in 1 .. Len(k) /\ (j - Len(h)) + 1 + Len(Tail(h)) = j
          /\ (j - Len(h)) + 1 + Len(h) = j + 1
      BY <1>1, <1>2, <1>3, <2>3
    <3>2. b[(j - Len(h)) + 1 + Len(Tail(h))] = k[j - Len(h)]
          /\ a[(j - Len(h)) + 1 + Len(h)] = k[j - Len(h)]
      BY <1>2, <1>3, <3>1
    <3> QED BY <3>1, <3>2
  <2> QED BY <1>1, <2>1, <2>2, <2>3
<1>7. \A i \in 1 .. Len(b) - 1 : b[i] < b[i + 1]
  <2> TAKE i \in 1 .. Len(b) - 1
  <2>1. i \in 1 .. Len(b) /\ i + 1 \in 1 .. Len(b) /\ i + 1 \in 1 .. Len(a) - 1
    BY <1>5
  <2>2. b[i] = a[i + 1] /\ b[i + 1] = a[(i + 1) + 1]
    BY <1>6, <2>1
  <2>3. a[i + 1] < a[(i + 1) + 1]
    BY <1>4, <2>1 DEF Rises
  <2> QED BY <2>2, <2>3
<1>8. b[Len(b)] = n
  <2>1. Len(b) \in 1 .. Len(b) /\ Len(b) + 1 = Len(a)
    BY <1>5
  <2> QED BY <1>4, <1>6, <2>1 DEF Rises
<1>9. Rises(b, n)
  BY <1>7, <1>8 DEF Rises
<1> QED BY <1>9 DEF b
(* One more is published behind them.                                        *)
LEMMA RisesPublished ==
    ASSUME NEW x \in Nat, NEW h \in Seq(Nat), NEW k \in Seq(Nat), NEW n \in Nat,
           Rises(<<x>> \o h \o k, n)
    PROVE  Rises(<<x>> \o h \o Append(k, n + 1), n + 1)
<1> DEFINE a == <<x>> \o h \o k
           c == Append(k, n + 1)
           b == <<x>> \o h \o c
<1>1. c \in Seq(Nat) /\ Len(c) = Len(k) + 1 /\ c[Len(k) + 1] = n + 1
      /\ Len(k) \in Nat /\ \A i \in 1 .. Len(k) : c[i] = k[i]
  OBVIOUS
<1>2. /\ Len(a) = 1 + Len(h) + Len(k) /\ a[1] = x /\ Len(h) \in Nat
      /\ \A i \in 1 .. Len(h) : a[i + 1] = h[i]
      /\ \A i \in 1 .. Len(k) : a[i + 1 + Len(h)] = k[i]
  BY AheadShape
<1>3. /\ Len(b) = 1 + Len(h) + Len(c) /\ b[1] = x
      /\ \A i \in 1 .. Len(h) : b[i + 1] = h[i]
      /\ \A i \in 1 .. Len(c) : b[i + 1 + Len(h)] = c[i]
  <2>1. b = <<x>> \o h \o c
    OBVIOUS
  <2>2. c \in Seq(Nat)
    BY <1>1
  <2> HIDE DEF b, c
  <2> QED BY <2>1, <2>2, AheadShape
<1>4. Rises(a, n)
  OBVIOUS
<1> HIDE DEF a, b, c
<1>5. Len(b) = Len(a) + 1 /\ Len(a) \in Nat /\ Len(a) >= 1
  BY <1>1, <1>2, <1>3
<1>6. \A j \in 1 .. Len(a) : b[j] = a[j]
  <2> TAKE j \in 1 .. Len(a)
  <2>1. CASE j = 1
    BY <1>2, <1>3, <2>1
  <2>2. CASE j # 1 /\ j <= 1 + Len(h)
    <3>1. j - 1 \in 1 .. Len(h) /\ (j - 1) + 1 = j
      BY <1>2, <1>5, <2>2
    <3>2. b[(j - 1) + 1] = h[j - 1] /\ a[(j - 1) + 1] = h[j - 1]
      BY <1>2, <1>3, <3>1
    <3> QED BY <3>1, <3>2
  <2>3. CASE j > 1 + Len(h)
    <3>1. /\ j - 1 - Len(h) \in 1 .. Len(k) /\ j - 1 - Len(h) \in 1 .. Len(c)
          /\ (j - 1 - Len(h)) + 1 + Len(h) = j
      BY <1>1, <1>2, <2>3
    <3>2. /\ b[(j - 1 - Len(h)) + 1 + Len(h)] = c[j - 1 - Len(h)]
          /\ a[(j - 1 - Len(h)) + 1 + Len(h)] = k[j - 1 - Len(h)]
      BY <1>2, <1>3, <3>1
    <3> QED BY <1>1, <3>1, <3>2
  <2> QED BY <1>2, <2>1, <2>2, <2>3
<1>7. b[Len(b)] = n + 1
  <2>1. Len(c) \in 1 .. Len(c) /\ Len(c) + 1 + Len(h) = Len(b)
    BY <1>1, <1>2, <1>3
  <2>2. b[Len(c) + 1 + Len(h)] = c[Len(c)]
    BY <1>3, <2>1
  <2> QED BY <1>1, <2>1, <2>2
<1>8. \A i \in 1 .. Len(b) - 1 : b[i] < b[i + 1]
  <2> TAKE i \in 1 .. Len(b) - 1
  <2>1. CASE i < Len(a)
    <3>1. i \in 1 .. Len(a) - 1 /\ i \in 1 .. Len(a) /\ i + 1 \in 1 .. Len(a)
      BY <1>5, <2>1
    <3> QED BY <1>4, <1>6, <3>1 DEF Rises
  <2>2. CASE i = Len(a)
    <3>1. i \in 1 .. Len(a) /\ i + 1 = Len(b)
      BY <1>5, <2>2
    <3>2. b[i] = n /\ b[i + 1] = n + 1
      BY <1>4, <1>6, <1>7, <2>2, <3>1 DEF Rises
    <3> QED BY <3>2
  <2> QED BY <1>5, <2>1, <2>2
<1>9. Rises(b, n + 1)
  BY <1>7, <1>8 DEF Rises
<1> QED BY <1>9 DEF b, c

(* One that was on its way is in the queue.                                  *)
LEMMA RisesHanded ==
    ASSUME NEW x \in Nat, NEW h \in Seq(Nat), NEW k \in Seq(Nat), k # <<>>
    PROVE  <<x>> \o Append(h, Head(k)) \o Tail(k) = <<x>> \o h \o k
<1> DEFINE g == Append(h, Head(k))
           t == Tail(k)
           a == <<x>> \o h \o k
           b == <<x>> \o g \o t
<1>1. /\ Head(k) \in Nat /\ t \in Seq(Nat) /\ Len(t) = Len(k) - 1 /\ Len(k) \in Nat \ {0}
      /\ Head(k) = k[1] /\ \A i \in 1 .. Len(t) : t[i] = k[i + 1]
  BY HeadTailProperties, EmptySeq
<1>2. g \in Seq(Nat) /\ Len(g) = Len(h) + 1 /\ g[Len(h) + 1] = k[1] /\ Len(h) \in Nat
      /\ \A i \in 1 .. Len(h) : g[i] = h[i]
  BY <1>1
<1>3. /\ a \in Seq(Nat) /\ Len(a) = 1 + Len(h) + Len(k) /\ a[1] = x
      /\ \A i \in 1 .. Len(h) : a[i + 1] = h[i]
      /\ \A i \in 1 .. Len(k) : a[i + 1 + Len(h)] = k[i]
  BY AheadShape
<1>4. /\ b \in Seq(Nat) /\ Len(b) = 1 + Len(g) + Len(t) /\ b[1] = x
      /\ \A i \in 1 .. Len(g) : b[i + 1] = g[i]
      /\ \A i \in 1 .. Len(t) : b[i + 1 + Len(g)] = t[i]
  BY <1>1, <1>2, AheadShape
<1> HIDE DEF a, b, g, t
<1>5. Len(b) = Len(a) /\ Len(a) \in Nat
  BY <1>1, <1>2, <1>3, <1>4
<1>6. \A j \in 1 .. Len(b) : b[j] = a[j]
  <2> TAKE j \in 1 .. Len(b)
  <2>1. CASE j = 1
    BY <1>3, <1>4, <2>1
  <2>2. CASE j # 1 /\ j <= 1 + Len(h)
    <3>1. j - 1 \in 1 .. Len(h) /\ (j - 1) + 1 = j /\ j - 1 \in 1 .. Len(g)
      BY <1>2, <1>5, <2>2
    <3>2. b[(j - 1) + 1] = g[j - 1] /\ a[(j - 1) + 1] = h[j - 1]
      BY <1>3, <1>4, <3>1
    <3> QED BY <1>2, <3>1, <3>2
  <2>3. CASE j = 2 + Len(h)
    <3>1. Len(g) \in 1 .. Len(g) /\ Len(g) + 1 = j /\ 1 \in 1 .. Len(k) /\ 1 + 1 + Len(h) = j
      BY <1>1, <1>2, <2>3
    <3>2. b[Len(g) + 1] = g[Len(g)] /\ a[1 + 1 + Len(h)] = k[1]
      BY <1>3, <1>4, <3>1
    <3> QED BY <1>2, <3>1, <3>2
  <2>4. CASE j > 2 + Len(h)
    <3>1. /\ j - 2 - Len(h) \in 1 .. Len(t) /\ (j - 2 - Len(h)) + 1 + Len(g) = j
          /\ j - 1 - Len(h) \in 1 .. Len(k) /\ (j - 1 - Len(h)) + 1 + Len(h) = j
          /\ (j - 2 - Len(h)) + 1 = j - 1 - Len(h)
      <4>1. /\ Len(t) = Len(k) - 1 /\ Len(k) \in Nat \ {0} /\ Len(g) = Len(h) + 1
            /\ Len(h) \in Nat /\ Len(b) = 1 + Len(g) + Len(t)
        BY <1>1, <1>2, <1>4
      <4> QED BY <2>4, <4>1
    <3>2. b[(j - 2 - Len(h)) + 1 + Len(g)] = t[j - 2 - Len(h)]
          /\ a[(j - 1 - Len(h)) + 1 + Len(h)] = k[j - 1 - Len(h)]
          /\ t[j - 2 - Len(h)] = k[(j - 2 - Len(h)) + 1]
      BY <1>1, <1>3, <1>4, <3>1
    <3> QED BY <3>1, <3>2
  <2> QED BY <1>2, <2>1, <2>2, <2>3, <2>4
<1>7. b = a
  BY <1>3, <1>4, <1>5, <1>6, SeqEqual
<1> QED BY <1>7 DEF a, b, g, t

(* The oldest makes room.                                                    *)
LEMMA RisesDropped ==
    ASSUME NEW x \in Nat, NEW h \in Seq(Nat), NEW k \in Seq(Nat), NEW n, h # <<>>, k # <<>>,
           Rises(<<x>> \o h \o k, n)
    PROVE  Rises(<<x>> \o Tail(h) \o k, n)
<1> DEFINE t == Tail(h)
           a == <<x>> \o h \o k
           b == <<x>> \o t \o k
<1>1. /\ t \in Seq(Nat) /\ Len(t) = Len(h) - 1 /\ Len(h) \in Nat \ {0}
      /\ \A i \in 1 .. Len(t) : t[i] = h[i + 1]
      /\ Len(k) \in Nat \ {0}
  BY HeadTailProperties, EmptySeq
<1>2. /\ a \in Seq(Nat) /\ Len(a) = 1 + Len(h) + Len(k) /\ a[1] = x
      /\ \A i \in 1 .. Len(h) : a[i + 1] = h[i]
      /\ \A i \in 1 .. Len(k) : a[i + 1 + Len(h)] = k[i]
  BY AheadShape
<1>4. Rises(a, n)
  OBVIOUS
<1>3. /\ Len(b) = 1 + Len(t) + Len(k) /\ b[1] = x
      /\ \A i \in 1 .. Len(t) : b[i + 1] = t[i]
      /\ \A i \in 1 .. Len(k) : b[i + 1 + Len(t)] = k[i]
  BY <1>1, AheadShape
<1> HIDE DEF a, b, t
<1>5. Len(b) = Len(a) - 1 /\ Len(b) \in Nat /\ Len(b) >= 2 /\ Len(a) \in Nat
  BY <1>1, <1>2, <1>3
<1>6. \A j \in 2 .. Len(b) : b[j] = a[j + 1]
  <2> TAKE j \in 2 .. Len(b)
  <2>1. CASE j <= Len(h)
    <3>1. j - 1 \in 1 .. Len(t) /\ (j - 1) + 1 = j /\ j \in 1 .. Len(h)
      BY <1>1, <1>5, <2>1
    <3>2. b[(j - 1) + 1] = t[j - 1] /\ t[j - 1] = h[(j - 1) + 1] /\ a[j + 1] = h[j]
      BY <1>1, <1>2, <1>3, <3>1
    <3> QED BY <3>1, <3>2
  <2>2. CASE j > Len(h)
    <3>1. j - Len(h) \in 1 .. Len(k) /\ (j - Len(h)) + 1 + Len(t) = j
          /\ (j - Len(h)) + 1 + Len(h) = j + 1
      BY <1>1, <1>2, <1>3, <2>2
    <3>2. b[(j - Len(h)) + 1 + Len(t)] = k[j - Len(h)]
          /\ a[(j - Len(h)) + 1 + Len(h)] = k[j - Len(h)]
      BY <1>2, <1>3, <3>1
    <3> QED BY <3>1, <3>2
  <2> QED BY <1>1, <2>1, <2>2
<1>7. \A i \in 1 .. Len(a) : a[i] \in Nat
  BY <1>2, ElementOfSeq
<1>8. \A i \in 1 .. Len(b) - 1 : b[i] < b[i + 1]
  <2> TAKE i \in 1 .. Len(b) - 1
  <2>1. CASE i = 1
    <3>1. /\ 1 \in 1 .. Len(a) - 1 /\ 2 \in 1 .. Len(a) - 1 /\ 2 \in 2 .. Len(b)
          /\ 1 \in 1 .. Len(a) /\ 2 \in 1 .. Len(a) /\ 3 \in 1 .. Len(a)
      BY <1>5
    <3>2. a[1] < a[1 + 1] /\ a[2] < a[2 + 1]
      BY <1>4, <3>1 DEF Rises
    <3>3. b[1] = a[1] /\ b[2] = a[2 + 1]
      BY <1>2, <1>3, <1>6, <3>1
    <3>4. a[1] \in Nat /\ a[2] \in Nat /\ a[3] \in Nat
      BY <1>7, <3>1
    <3> QED BY <2>1, <3>2, <3>3, <3>4
  <2>2. CASE i # 1
    <3>1. i \in 2 .. Len(b) /\ i + 1 \in 2 .. Len(b) /\ i + 1 \in 1 .. Len(a) - 1
      BY <1>5, <2>2
    <3>2. b[i] = a[i + 1] /\ b[i + 1] = a[(i + 1) + 1]
      BY <1>6, <3>1
    <3>3. a[i + 1] < a[(i + 1) + 1]
      BY <1>4, <3>1 DEF Rises
    <3> QED BY <3>2, <3>3
  <2> QED BY <2>1, <2>2
<1>9. b[Len(b)] = n
  <2>1. Len(b) \in 2 .. Len(b) /\ Len(b) + 1 = Len(a)
    BY <1>5
  <2> QED BY <1>4, <1>6, <2>1 DEF Rises
<1>10. Rises(b, n)
  BY <1>8, <1>9 DEF Rises
<1> QED BY <1>10 DEF b, t

FeedRises == Looping /\ ~redis => Rises(Ahead, bus.published)

(* Every step keeps the events in their order and up to the newest.        *)
LEMMA FreshStep ==
    ASSUME ConnTypeOK, QueueInv, BusTypeOK, FreshInv, FeedRises, [Next]_vars
    PROVE  FreshInv' /\ FeedRises'
<1> DEFINE x == bus.last
           h == bus.held
           k == bus.coming
           n == bus.published
<1>0. x \in Nat /\ n \in Nat /\ h \in Seq(Nat) /\ k \in Seq(Nat)
  <2>1. 1 .. MaxEvents \subseteq Nat /\ 0 .. MaxEvents \subseteq Nat
    BY LimitsAssumption
  <2> QED BY <2>1, SeqMonotonic DEF BusTypeOK
<1>1. /\ bus.published \in 0 .. MaxEvents /\ MaxEvents \in Nat /\ QueueLimit \in Nat \ {0}
      /\ bus = [published |-> n, last |-> x, coming |-> k, held |-> h]
  BY LimitsAssumption DEF BusTypeOK
<1>2. ASSUME UNCHANGED <<redis, bus>>,
             pc'[Followed] = "loop" => pc[Followed] = "loop",
             pc'[Followed] \in Early => pc[Followed] \in Early
      PROVE  FreshInv' /\ FeedRises'
  BY <1>2 DEF FreshInv, FeedRises, Ahead, Looping, Early
<1>3. ASSUME redis' = redis, pc[Followed] = "welcome", pc'[Followed] = "loop",
             bus' = [bus EXCEPT !.last = bus.published]
      PROVE  FreshInv' /\ FeedRises'
  <2>1. h = <<>> /\ k = <<>>
    BY <1>3 DEF FreshInv
  <2>2. bus'.held = <<>> /\ bus'.coming = <<>> /\ bus'.last = n /\ bus'.published = n
    BY <1>1, <1>3, <2>1
  <2>3. <<n>> \o <<>> \o <<>> = <<n>>
    BY <1>0, EmptySeq, ConcatEmptySeq
  <2>4. Rises(<<n>>, n)
    BY <1>0 DEF Rises
  <2> QED BY <2>2, <2>3, <2>4 DEF FreshInv, FeedRises, Ahead
<1>4. ASSUME UNCHANGED <<redis, pc>>, Serves, Looping PROVE FreshInv' /\ FeedRises'
  <2>1. h # <<>> /\ bus'.last = Head(h) /\ bus'.held = Tail(h) /\ bus'.coming = k /\ bus'.published = n
    BY <1>1, <1>4 DEF Serves
  <2>2. ~redis => Rises(<<Head(h)>> \o Tail(h) \o k, n)
    BY <1>0, <1>4, <2>1, RisesServed DEF FeedRises, Ahead
  <2> QED BY <1>4, <2>1, <2>2 DEF FreshInv, FeedRises, Ahead, Looping
<1>5. ASSUME UNCHANGED <<redis, pc>>, PublishEvent PROVE FreshInv' /\ FeedRises'
  <2>1. CASE Looping
    <3>1. bus'.last = x /\ bus'.held = h /\ bus'.coming = Append(k, n + 1) /\ bus'.published = n + 1
      BY <1>1, <1>5, <2>1 DEF PublishEvent
    <3>2. ~redis => Rises(<<x>> \o h \o Append(k, n + 1), n + 1)
      BY <1>0, <2>1, RisesPublished DEF FeedRises, Ahead
    <3> QED BY <1>5, <2>1, <3>1, <3>2 DEF FreshInv, FeedRises, Ahead, Looping
  <2>2. CASE ~Looping
    <3>1. bus'.held = h /\ bus'.coming = k
      BY <1>1, <1>5, <2>2 DEF PublishEvent
    <3> QED BY <1>5, <2>2, <3>1 DEF FreshInv, FeedRises, Looping
  <2> QED BY <2>1, <2>2
<1>6. ASSUME UNCHANGED <<redis, pc>>, Enqueue PROVE FreshInv' /\ FeedRises'
  <2> DEFINE room == IF Len(h) < QueueLimit THEN h ELSE Tail(h)
  <2>1. /\ k # <<>> /\ bus'.last = x /\ bus'.held = Append(room, Head(k))
        /\ bus'.coming = Tail(k) /\ bus'.published = n
    BY <1>1, <1>6 DEF Enqueue
  <2>2. ASSUME Looping, ~redis
        PROVE  Rises(<<x>> \o Append(room, Head(k)) \o Tail(k), n)
    <3>1. Rises(<<x>> \o h \o k, n)
      BY <2>2 DEF FeedRises, Ahead
    <3>2. room \in Seq(Nat) /\ Rises(<<x>> \o room \o k, n)
      <4>1. CASE Len(h) < QueueLimit
        BY <1>0, <3>1, <4>1
      <4>2. CASE ~ (Len(h) < QueueLimit)
        <5>1. h # <<>>
          BY <1>0, <1>1, <4>2, EmptySeq
        <5> QED BY <1>0, <2>1, <3>1, <4>2, <5>1, RisesDropped, HeadTailProperties
      <4> QED BY <4>1, <4>2
    <3> HIDE DEF room
    <3>3. <<x>> \o Append(room, Head(k)) \o Tail(k) = <<x>> \o room \o k
      BY <1>0, <2>1, <3>2, RisesHanded
    <3> QED BY <3>2, <3>3
  <2> QED BY <1>6, <2>1, <2>2 DEF FreshInv, FeedRises, Ahead, Looping
<1> QED BY <1>2, <1>3, <1>4, <1>5, <1>6, BusKinds

-----------------------------------------------------------------------------
(* Every step keeps the reason why a heartbeat has aged.                   *)
LEMMA BeatStep ==
    ASSUME BeatTypeOK, BeatInv, [Next]_vars PROVE BeatTypeOK' /\ BeatInv'
<1>0. /\ beat.age \in 0 .. AgeLimit /\ beat.pinged \in BOOLEAN /\ beat.inbox \in Seq(Sayings)
      /\ beat.taken \in SUBSET {"events", "messages"} /\ AgeLimit \in Nat \ {0}
  BY LimitsAssumption DEF BeatTypeOK
<1>1. CASE beat' = beat
  BY <1>1 DEF BeatTypeOK, BeatInv
<1>2. \A n \in 0 .. 1 : OlderBy(n) \in 0 .. AgeLimit
  BY <1>0 DEF OlderBy
<1>3. ASSUME NEW n \in 0 .. 1,
             beat' = [beat EXCEPT !.age = OlderBy(n), !.taken = @ \cup {"events"}]
      PROVE  BeatTypeOK' /\ BeatInv'
  BY <1>0, <1>2, <1>3 DEF BeatTypeOK, BeatInv
<1>4. CASE ReadPong
  <2>1. beat' = [beat EXCEPT !.age = 0, !.inbox = Tail(beat.inbox), !.taken = {}]
    BY <1>4 DEF ReadPong
  <2>2. Tail(beat.inbox) \in Seq(Sayings) /\ 0 \in 0 .. AgeLimit
    BY <1>0, <1>4 DEF ReadPong, Reads
  <2>3. BeatTypeOK'
    BY <1>0, <2>1, <2>2 DEF BeatTypeOK
  <2>4. beat'.age = 0
    BY <2>1 DEF BeatTypeOK
  <2> QED BY <2>3, <2>4 DEF BeatInv
<1>5. CASE Ping
  <2>1. beat' = [beat EXCEPT !.age = OlderBy(1), !.pinged = TRUE]
    BY <1>5 DEF Ping
  <2>2. OlderBy(1) \in 0 .. AgeLimit
    BY <1>2
  <2> QED BY <1>0, <2>1, <2>2 DEF BeatTypeOK, BeatInv
<1>6. ASSUME NEW said \in Sayings, NEW asked \in BOOLEAN, said = "pong" \/ asked = beat.pinged,
             beat' = [beat EXCEPT !.pinged = asked, !.inbox = Append(beat.inbox, said)]
      PROVE  BeatTypeOK' /\ BeatInv'
  <2>1. /\ Append(beat.inbox, said) \in Seq(Sayings)
        /\ Len(Append(beat.inbox, said)) = Len(beat.inbox) + 1
        /\ Append(beat.inbox, said)[Len(beat.inbox) + 1] = said
        /\ \A i \in 1 .. Len(beat.inbox) : Append(beat.inbox, said)[i] = beat.inbox[i]
        /\ Len(beat.inbox) \in Nat
    BY <1>0
  <2>2. BeatTypeOK'
    BY <1>0, <1>6, <2>1 DEF BeatTypeOK
  <2>3. /\ beat'.inbox = Append(beat.inbox, said) /\ beat'.pinged = asked
        /\ beat'.age = beat.age /\ beat'.taken = beat.taken
    BY <1>6 DEF BeatTypeOK
  <2>4. CASE said = "pong"
    <3>1. Len(beat.inbox) + 1 \in 1 .. Len(beat'.inbox)
      BY <2>1, <2>3
    <3>2. beat'.inbox[Len(beat.inbox) + 1] = "pong"
      BY <2>1, <2>3, <2>4
    <3> QED BY <2>2, <3>1, <3>2 DEF BeatInv
  <2>5. CASE asked = beat.pinged
    <3>1. ASSUME NEW i \in 1 .. Len(beat.inbox), beat.inbox[i] = "pong"
          PROVE  i \in 1 .. Len(beat'.inbox) /\ beat'.inbox[i] = "pong"
      BY <2>1, <2>3, <3>1
    <3> QED BY <2>2, <2>3, <2>5, <3>1 DEF BeatInv
  <2> QED BY <1>6, <2>4, <2>5
<1>7. ASSUME NEW c \in Clients,
             \/ Accept(c) \/ Reject(c) \/ Admit(c) \/ EnterAtLast(c) \/ TurnedAway(c)
             \/ Welcome(c) \/ WelcomeFails(c) \/ OtherLeaves(c) \/ LeaveAtLast(c)
             \/ Disconnect(c) \/ ListenerEnds(c) \/ Broadcast(c)
             \/ \E d \in Clients : SendOne(c, d)
      PROVE  beat' = beat
  BY <1>7 DEF Accept, Reject, Admit, EnterAtLast, TurnedAway, Welcome, WelcomeFails, OtherLeaves,
              LeaveAtLast, Disconnect, ListenerEnds, Broadcast, SendOne
<1>8. ASSUME PublishEvent \/ Enqueue \/ UNCHANGED vars
      PROVE  beat' = beat
  BY <1>8 DEF PublishEvent, Enqueue, vars
<1>9. CASE beat' = NoBeat
  <2>1. <<>> \in Seq(Sayings) /\ 0 \in 0 .. AgeLimit
    BY <1>0
  <2> QED BY <1>9, <2>1 DEF NoBeat, BeatTypeOK, BeatInv
<1>10. CASE ServeEvent
  BY <1>3, <1>9, <1>10 DEF ServeEvent, FollowedLeaves
<1>11. CASE ReadOther
  <2>1. CASE FollowedLeaves
    BY <1>9, <2>1 DEF FollowedLeaves
  <2>2. CASE beat' = [beat EXCEPT !.age = OlderBy(1), !.inbox = Tail(beat.inbox),
                                  !.taken = beat.taken \cup {"messages"}]
    <3>1. Tail(beat.inbox) \in Seq(Sayings) /\ OlderBy(1) \in 0 .. AgeLimit
      BY <1>0, <1>2, <1>11 DEF ReadOther, Reads
    <3>2. BeatTypeOK'
      BY <1>0, <2>2, <3>1 DEF BeatTypeOK
    <3>3. "messages" \in beat'.taken
      BY <2>2 DEF BeatTypeOK
    <3> QED BY <3>2, <3>3 DEF BeatInv
  <2> QED BY <1>11, <2>1, <2>2 DEF ReadOther
<1>12. CASE SeeDisconnect \/ CloseSilent
  BY <1>9, <1>12 DEF SeeDisconnect, CloseSilent, FollowedLeaves
<1>13. CASE Pong
  <2>1. beat' = [beat EXCEPT !.pinged = FALSE, !.inbox = Append(beat.inbox, "pong")]
    BY <1>13 DEF Pong
  <2> QED BY <1>6, <2>1 DEF Sayings
<1>14. CASE Say
  <2>1. beat' = [beat EXCEPT !.pinged = beat.pinged, !.inbox = Append(beat.inbox, "other")]
    BY <1>14 DEF Say, BeatTypeOK
  <2> QED BY <1>0, <1>6, <2>1 DEF Sayings
<1> QED BY <1>1, <1>4, <1>5, <1>7, <1>8, <1>10, <1>11, <1>12, <1>13, <1>14 DEF Next

(* Whoever is closed for silence was asked, or events or messages of its   *)
(* own took the turns.                                                     *)
LEMMA SilenceStep ==
    ASSUME BeatTypeOK, BeatInv, AgeLimit > 1, CloseSilent
    PROVE  beat.pinged \/ beat.taken # {}
<1>0. beat.age \in 0 .. AgeLimit /\ AgeLimit \in Nat
  BY LimitsAssumption DEF BeatTypeOK
<1>1. OlderBy(1) = AgeLimit /\ beat.inbox = <<>>
  BY DEF CloseSilent
<1>2. beat.age # 0
  BY <1>0, <1>1 DEF OlderBy
<1>3. ~ \E i \in 1 .. Len(beat.inbox) : beat.inbox[i] = "pong"
  BY <1>1
<1> QED BY <1>2, <1>3 DEF BeatInv
-----------------------------------------------------------------------------
(* The whole.                                                                *)
(* The type invariant, part by part.                                       *)
LEMMA FeedTypeParts ==
    TypeOK <=> ConnTypeOK /\ ListTypeOK /\ ReachTypeOK /\ BusTypeOK /\ BeatTypeOK
BY DEF TypeOK, ConnTypeOK, ListTypeOK, ReachTypeOK, BusTypeOK, BeatTypeOK

(* Every step keeps the types of lists and broadcasts ...                  *)
LEMMA ReachTypes ==
    ASSUME ConnTypeOK, QueueInv, ListTypeOK, ReachTypeOK, [Next]_vars
    PROVE  ReachTypeOK'
<1>1. {conns', cams'} \subseteq SUBSET Clients
  BY ReachKinds DEF ReachTypeOK
<1>2. broken' \subseteq Clients /\ todo' \in [Clients -> SUBSET Clients]
  <2>1. ASSUME NEW c \in Clients, Disconnect(c) \/ ListenerEnds(c) \/ Broadcast(c)
        PROVE  broken' \subseteq Clients /\ todo' \in [Clients -> SUBSET Clients]
    BY <2>1 DEF Disconnect, ListenerEnds, Broadcast, ReachTypeOK, ConnTypeOK
  <2>2. ASSUME NEW t \in Clients, NEW c \in Clients, SendOne(t, c)
        PROVE  broken' \subseteq Clients /\ todo' \in [Clients -> SUBSET Clients]
    BY <2>2 DEF SendOne, ReachTypeOK
  <2>3. ASSUME NEW c \in Clients,
               \/ Accept(c) \/ Reject(c) \/ Admit(c) \/ EnterAtLast(c) \/ TurnedAway(c)
               \/ Welcome(c) \/ WelcomeFails(c) \/ OtherLeaves(c) \/ LeaveAtLast(c)
        PROVE  UNCHANGED <<broken, todo>>
    BY <2>3 DEF Accept, Reject, Admit, EnterAtLast, TurnedAway, Welcome, WelcomeFails,
                OtherLeaves, Leave, LeaveAtLast
  <2>4. ASSUME \/ ServeEvent \/ ReadPong \/ ReadOther \/ SeeDisconnect \/ CloseSilent \/ Ping \/ Pong
               \/ Say \/ PublishEvent \/ Enqueue \/ UNCHANGED vars
        PROVE  UNCHANGED <<broken, todo>>
    BY <2>4 DEF ServeEvent, ReadPong, ReadOther, SeeDisconnect, CloseSilent, FollowedLeaves, Leave,
                Ping, Pong, Say, PublishEvent, Enqueue, vars
  <2>5. UNCHANGED <<broken, todo>> => broken' \subseteq Clients /\ todo' \in [Clients -> SUBSET Clients]
    BY DEF ReachTypeOK
  <2> QED BY <2>1, <2>2, <2>3, <2>4, <2>5 DEF Next
<1> QED BY <1>1, <1>2 DEF ReachTypeOK

(* ... and those of the connections.                                       *)
LEMMA ConnTypesStep ==
    ASSUME ConnTypeOK, QueueInv, ReachTypeOK', [Next]_vars
    PROVE  ConnTypeOK'
<1>1. ASSUME NEW c \in Clients, Handles(c) \/ Leave(c) PROVE ConnTypeOK'
  BY <1>1, HandlerSteps DEF ConnTypeOK, ReachTypeOK
<1>2. CASE UNCHANGED <<redis, pc, lock, queue, count, alices, waited>>
  BY <1>2 DEF ConnTypeOK, ReachTypeOK
<1> QED BY <1>1, <1>2, FeedKinds

(* The inductive invariant of the feed.                                      *)
FeedInv ==
    /\ ConnTypeOK /\ ListTypeOK /\ ReachTypeOK /\ BusTypeOK /\ BeatTypeOK
    /\ QueueInv /\ EnteredInv /\ LimitsHold /\ TasksInv /\ OneListener
    /\ Reached /\ FreshInv /\ FeedRises /\ BeatInv

(* It holds at the start ...                                               *)
LEMMA FeedInit == Init => FeedInv
<1> SUFFICES ASSUME Init PROVE FeedInv
  OBVIOUS
<1>0. /\ \A c \in Clients : pc[c] \in {"new", "ended"}
      /\ pc \in [Clients -> Places]
  BY DEF Init, Places
<1>1. Holding = {} /\ Served = {}
  BY <1>0 DEF Holding, Served, Registered, Waiting
<1>2. IsFiniteSet({}) /\ Cardinality({}) = 0
  BY FS_EmptySet
<1>3. Holding \cap Alice = {} /\ (Holding \cap Alice) \ waited = {} /\ waited \cap Alice = {}
  BY <1>1 DEF Init
<1>4. ConnTypeOK /\ ListTypeOK /\ ReachTypeOK
  BY <1>0 DEF Init, ConnTypeOK, ListTypeOK, ReachTypeOK
<1>5. BusTypeOK /\ BeatTypeOK /\ BeatInv /\ FreshInv
  BY LimitsAssumption DEF Init, NoBeat, BusTypeOK, BeatTypeOK, BeatInv, FreshInv
<1>6. QueueInv /\ TasksInv /\ Reached /\ FeedRises
  BY <1>0, ClientsAssumption
      DEF Init, QueueInv, TasksInv, Reached, FeedRises, Looping, Registered, Waiting
<1>7. EnteredInv
  <2>1. \A c \in Clients : pc[c] # "entering"
    BY <1>0
  <2>2. Cardinality((Holding \cap Alice) \ waited) <= MaxPerUser
    BY <1>2, <1>3, LimitsAssumption
  <2> QED BY <2>1, <2>2 DEF EnteredInv
<1>8. LimitsHold
  <2>1. count = 0 /\ alices = 0 /\ MaxGlobal \in Nat /\ MaxPerUser \in Nat
    BY LimitsAssumption DEF Init
  <2>2. Cardinality(Holding) = 0 /\ Cardinality(Holding \cap Alice) = 0
    BY <1>1, <1>2, <1>3
  <2>3. Cardinality(waited \cap Alice) = 0
    BY <1>2, <1>3
  <2> QED BY <2>1, <2>2, <2>3 DEF LimitsHold
<1>9. OneListener
  BY <1>1 DEF Init, OneListener
<1> QED BY <1>4, <1>5, <1>6, <1>7, <1>8, <1>9 DEF FeedInv

(* ... and every step keeps it.                                            *)
LEMMA FeedStep ==
    ASSUME FeedInv, [Next]_vars PROVE FeedInv'
<1> USE DEF FeedInv
<1>1. QueueInv' /\ BusTypeOK' /\ BeatTypeOK' /\ BeatInv'
  BY QueueStep, BusTypes, BeatStep
<1>2. FreshInv' /\ FeedRises'
  BY FreshStep
<1>3. ReachTypeOK'
  BY ReachTypes
<1>4. ConnTypeOK'
  BY <1>3, ConnTypesStep
<1>5. ListTypeOK' /\ TasksInv' /\ OneListener'
  BY <1>4, ListenStep
<1>6. Reached'
  BY <1>4, ReachStep
<1>7. /\ EnteredInv' /\ count' = Cardinality(Holding') /\ count' <= MaxGlobal
      /\ alices' = Cardinality(Holding' \cap Alice)
  BY <1>4, LimitsStep
<1>8. LimitsHold'
  <2>1. Holding' \in SUBSET Clients /\ waited' \in SUBSET Clients
    BY <1>4 DEF Holding, ConnTypeOK
  <2>2. alices' <= MaxPerUser + Cardinality(waited' \cap Alice)
    BY <1>7, <2>1, AlicesBound DEF EnteredInv
  <2> QED BY <1>7, <2>2 DEF LimitsHold
<1> QED BY <1>1, <1>2, <1>3, <1>4, <1>5, <1>6, <1>7, <1>8

(* The inductive invariant holds in every reachable state.                 *)
THEOREM FeedIsSound == Spec => []FeedInv
<1>1. FeedInv /\ [Next]_vars => FeedInv'
  BY FeedStep
<1> QED BY FeedInit, <1>1, PTL DEF Spec

(* Type correctness of the live feed.                                        *)
THEOREM FeedTypes == Spec => []TypeOK
<1>1. FeedInv => TypeOK
  BY FeedTypeParts DEF FeedInv
<1> QED BY <1>1, FeedIsSound, PTL

(* LimitsHold for any number of clients and all limits: the counts are those*)
(* of the clients registered and leaked, and only those who waited for the *)
(* lock take a user beyond his limit.                                      *)
THEOREM ConnectionsKeepLimits == Spec => []LimitsHold
<1>1. FeedInv => LimitsHold
  BY DEF FeedInv
<1> QED BY <1>1, FeedIsSound, PTL

(* OneListener for any number of clients: connects, releases and late ends of*)
(* listeners leave one that is not cancelled exactly while it is needed.   *)
THEOREM ListenersAreShared == Spec => []OneListener
<1>1. FeedInv => OneListener
  BY DEF FeedInv
<1> QED BY <1>1, FeedIsSound, PTL

(* ConnectedAreReached for any number of clients, events and any queue limit:*)
(* no broadcast over old lists takes a client that stands off them, and the*)
(* bus hands events on in order, up to the newest.                         *)
THEOREM BroadcastsReachAll == Spec => []ConnectedAreReached
<1>1. FeedInv => ConnectedAreReached
  BY DEF FeedInv, ConnectedAreReached, Reached, FeedIsFresh, FeedRises, Rises
<1> QED BY <1>1, FeedIsSound, PTL

(* ClosesOnlySilent for any timeout of more than one heartbeat interval (the*)
(* defaults are 90 and 30 seconds): with a shorter one a client is closed  *)
(* before it was asked.                                                    *)
THEOREM SilentWereAsked == AgeLimit > 1 /\ Spec => ClosesOnlySilent
<1> SUFFICES ASSUME AgeLimit > 1 PROVE Spec => ClosesOnlySilent
  OBVIOUS
<1>1. FeedInv => [CloseSilent => beat.pinged \/ beat.taken # {}]_vars
  BY SilenceStep DEF FeedInv
<1> QED BY <1>1, FeedIsSound, PTL DEF Spec, ClosesOnlySilent
=============================================================================
