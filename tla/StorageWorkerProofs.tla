------------------------ MODULE StorageWorkerProofs ------------------------
(***************************************************************************)
(* What TLAPS proves of StorageWorker for every set of events and every    *)
(* limit: type correctness; by HandInv, that no event is lost silently,    *)
(* that no subscriber hears of a row that is not stored, and that no       *)
(* aggregate runs ahead of its rows; by PlaceInv, that each event is in    *)
(* one place, that the counters add up, and that the worker implements the *)
(* ledger.                                                                 *)
(***************************************************************************)
EXTENDS StorageWorker, SequenceTheorems, FiniteSetTheorems, TLAPS

----------------------------------------------------------------------------
(* Lemmas on the sequences the model is built from.                        *)

(* Appending adds one element to what a sequence holds.                     *)
LEMMA RangeAppend ==
    ASSUME NEW S, NEW s \in Seq(S), NEW x \in S
    PROVE  Range(Append(s, x)) = Range(s) \cup {x}
<1>1. /\ Append(s, x) \in Seq(S)
      /\ Len(Append(s, x)) = Len(s) + 1
      /\ \A i \in 1..Len(s) : Append(s, x)[i] = s[i]
      /\ Append(s, x)[Len(s) + 1] = x
  OBVIOUS
<1>2. /\ DOMAIN s = 1..Len(s)
      /\ DOMAIN Append(s, x) = 1..Len(s) + 1
  BY <1>1
<1> QED BY <1>1, <1>2 DEF Range

(* Taking the head leaves the rest.                                         *)
LEMMA RangeTail ==
    ASSUME NEW S, NEW s \in Seq(S), s # <<>>
    PROVE  /\ Head(s) \in S
           /\ Tail(s) \in Seq(S)
           /\ Len(Tail(s)) = Len(s) - 1
           /\ Range(s) = Range(Tail(s)) \cup {Head(s)}
<1>1. /\ Tail(s) \in Seq(S) /\ Head(s) \in S
      /\ Len(Tail(s)) = Len(s) - 1
      /\ \A i \in 1..Len(Tail(s)) : Tail(s)[i] = s[i + 1]
      /\ Len(s) \in Nat \ {0}
      /\ Head(s) = s[1]
  BY HeadTailProperties, EmptySeq
<1>2. /\ DOMAIN s = 1..Len(s)
      /\ DOMAIN Tail(s) = 1..Len(s) - 1
  BY <1>1
<1>3. Range(s) \subseteq Range(Tail(s)) \cup {Head(s)}
  <2> SUFFICES ASSUME NEW i \in 1..Len(s), i # 1
               PROVE  s[i] \in Range(Tail(s))
    BY <1>1, <1>2 DEF Range
  <2>1. i - 1 \in 1..Len(s) - 1 /\ Tail(s)[i - 1] = s[i]
    BY <1>1
  <2> QED BY <2>1, <1>2 DEF Range
<1>4. Range(Tail(s)) \cup {Head(s)} \subseteq Range(s)
  BY <1>1, <1>2 DEF Range
<1> QED BY <1>1, <1>3, <1>4

(* Concatenation holds what both parts hold.                                *)
LEMMA RangeConcat ==
    ASSUME NEW S, NEW s \in Seq(S), NEW t \in Seq(S)
    PROVE  Range(s \o t) = Range(s) \cup Range(t)
<1>1. /\ s \o t \in Seq(S)
      /\ Len(s \o t) = Len(s) + Len(t)
      /\ \A i \in 1..Len(s) + Len(t) :
            (s \o t)[i] = IF i <= Len(s) THEN s[i] ELSE t[i - Len(s)]
      /\ Len(s) \in Nat /\ Len(t) \in Nat
  BY ConcatProperties
<1>2. /\ DOMAIN s = 1..Len(s) /\ DOMAIN t = 1..Len(t)
      /\ DOMAIN (s \o t) = 1..Len(s) + Len(t)
  BY <1>1
<1>3. Range(s \o t) \subseteq Range(s) \cup Range(t)
  <2> SUFFICES ASSUME NEW i \in 1..Len(s) + Len(t)
               PROVE  (s \o t)[i] \in Range(s) \cup Range(t)
    BY <1>2 DEF Range
  <2>1. CASE i <= Len(s)
    BY <2>1, <1>1, <1>2 DEF Range
  <2>2. CASE ~(i <= Len(s))
    <3>1. i - Len(s) \in 1..Len(t) /\ (s \o t)[i] = t[i - Len(s)]
      BY <2>2, <1>1
    <3> QED BY <3>1, <1>2 DEF Range
  <2> QED BY <2>1, <2>2
<1>4. Range(s) \subseteq Range(s \o t)
  BY <1>1, <1>2 DEF Range
<1>5. Range(t) \subseteq Range(s \o t)
  <2> SUFFICES ASSUME NEW i \in 1..Len(t)
               PROVE  t[i] \in Range(s \o t)
    BY <1>2 DEF Range
  <2>1. /\ i + Len(s) \in 1..Len(s) + Len(t)
        /\ (s \o t)[i + Len(s)] = t[i]
    BY <1>1
  <2> QED BY <2>1, <1>2 DEF Range
<1> QED BY <1>3, <1>4, <1>5

(* What a sequence over S holds is in S.                                    *)
LEMMA RangeInSet ==
    ASSUME NEW S, NEW s \in Seq(S)
    PROVE  Range(s) \subseteq S
BY LenProperties DEF Range

(* _append_dead_letter keeps the list within its limit, and while there is  *)
(* room it keeps everything.                                                *)
LEMMA LetteredBounded ==
    ASSUME NEW s \in Seq(Events), deadLetter \in Seq(Events)
    PROVE  /\ Lettered(s) \in Seq(Events)
           /\ Len(Lettered(s)) <= DeadMax
           /\ Len(Lettered(s)) < DeadMax =>
                 /\ Lettered(s) = deadLetter \o s
                 /\ Len(deadLetter) < DeadMax
<1> DEFINE all == deadLetter \o s
<1>1. all \in Seq(Events) /\ Len(all) \in Nat /\ Len(all) = Len(deadLetter) + Len(s)
      /\ Len(deadLetter) \in Nat /\ Len(s) \in Nat
  BY ConcatProperties
<1>2. CASE Len(all) <= DeadMax
  <2>1. Lettered(s) = all
    BY <1>2 DEF Lettered
  <2> HIDE DEF all
  <2> QED BY <1>1, <1>2, <2>1, BoundsAssumption DEF all
<1>3. CASE ~(Len(all) <= DeadMax)
  <2>1. Lettered(s) = SubSeq(all, 1, DeadMax)
    BY <1>3 DEF Lettered
  <2> HIDE DEF all
  <2>2. \A i \in 1..DeadMax : all[i] \in Events
    BY <1>1, <1>3, BoundsAssumption
  <2>3. SubSeq(all, 1, DeadMax) \in Seq(Events) /\ Len(SubSeq(all, 1, DeadMax)) = DeadMax
    BY <2>2, SubSeqProperties, BoundsAssumption
  <2> QED BY <2>1, <2>3, BoundsAssumption
<1> QED BY <1>2, <1>3

(* The list of _process stays within its limit too, and the new entry is in *)
(* it whatever was there.                                                   *)
LEMMA LetteredEvictingBounded ==
    ASSUME NEW e \in Events, deadLetter \in Seq(Events), Len(deadLetter) <= DeadMax
    PROVE  /\ LetteredEvicting(e) \in Seq(Events)
           /\ Len(LetteredEvicting(e)) <= DeadMax
           /\ Len(LetteredEvicting(e)) < DeadMax =>
                 /\ LetteredEvicting(e) = Append(deadLetter, e)
                 /\ Len(deadLetter) < DeadMax
<1>1. CASE Len(deadLetter) < DeadMax
  BY <1>1, BoundsAssumption DEF LetteredEvicting
<1>2. CASE ~(Len(deadLetter) < DeadMax)
  <2>1. deadLetter # <<>> /\ Len(deadLetter) = DeadMax
    BY <1>2, BoundsAssumption
  <2>2. Tail(deadLetter) \in Seq(Events) /\ Len(Tail(deadLetter)) = DeadMax - 1
    BY <2>1, HeadTailProperties
  <2>3. LetteredEvicting(e) = Append(Tail(deadLetter), e)
    BY <1>2 DEF LetteredEvicting
  <2> QED BY <2>2, <2>3, BoundsAssumption
<1> QED BY <1>1, <1>2

----------------------------------------------------------------------------
(* Types.                                                                  *)

(* A failed batch leaves the worker's state well-typed.                     *)
LEMMA FailBatchTypes ==
    ASSUME TypeOK, FailBatch
    PROVE  /\ batch' \in Seq(Events) /\ session' = {} /\ rollups' = {}
           /\ wpc' \in {"stopped", "get"}
           /\ deadLetter' \in Seq(Events) /\ Len(deadLetter') <= DeadMax
           /\ errors' \in Nat
           /\ queue' = queue
<1>1. batch \in Seq(Events) /\ deadLetter \in Seq(Events) /\ Len(deadLetter) <= DeadMax
  BY DEF TypeOK
<1>2. deadLetter' \in Seq(Events) /\ Len(deadLetter') <= DeadMax
  BY <1>1, LetteredBounded DEF FailBatch
<1>3. errors' \in Nat
  BY <1>1, LenProperties DEF FailBatch, TypeOK
<1> QED BY <1>2, <1>3 DEF FailBatch, AfterBatch

(* Appending keeps a sequence a sequence.                                   *)
LEMMA AppendTypes ==
    ASSUME NEW S, NEW s \in Seq(S), NEW x \in S
    PROVE  /\ Append(s, x) \in Seq(S)
           /\ Len(Append(s, x)) = Len(s) + 1
  OBVIOUS

(* A put that finds room leaves a queue within its limit.                   *)
LEMMA PutTypes ==
    ASSUME TypeOK, HasRoom, NEW x \in Events \cup {Sentinel}
    PROVE  /\ Append(queue, x) \in Seq(Events \cup {Sentinel})
           /\ Len(Append(queue, x)) <= QMax
<1>1. queue \in Seq(Events \cup {Sentinel}) /\ Len(queue) \in Nat
  BY LenProperties DEF TypeOK
<1>2. /\ Append(queue, x) \in Seq(Events \cup {Sentinel})
      /\ Len(Append(queue, x)) = Len(queue) + 1
  BY <1>1, AppendTypes
<1> QED BY <1>1, <1>2, BoundsAssumption DEF HasRoom

(* A refusal leaves the list within its limit.                              *)
LEMMA RefuseTypes ==
    ASSUME TypeOK, NEW e \in Events, Refuse(e)
    PROVE  /\ deadLetter' \in Seq(Events)
           /\ Len(deadLetter') <= DeadMax
           /\ dropped' \in Nat
<1>1. <<e>> \in Seq(Events) /\ deadLetter \in Seq(Events)
  BY DEF TypeOK
<1>2. deadLetter' = Lettered(<<e>>) /\ dropped' = dropped + 1
  BY DEF Refuse
<1>3. dropped' \in Nat
  BY <1>2 DEF TypeOK
<1> QED BY <1>1, <1>2, <1>3, LetteredBounded

(* Every step of every thread keeps the types.                              *)
LEMMA TypeStep == TypeOK /\ [Next]_vars => TypeOK'
<1> SUFFICES ASSUME TypeOK, [Next]_vars PROVE TypeOK'
  OBVIOUS
<1> USE EventsAssumption, BoundsAssumption
<1>0. /\ Crossings \subseteq Events /\ LaneChanges \subseteq Events
      /\ Len(queue) \in Nat /\ Len(batch) \in Nat
  BY LenProperties DEF TypeOK, Events
<1>1. ASSUME NEW e \in Crossings, ReadDepth(e) PROVE TypeOK'
  <2>1. CASE Len(queue) >= QCrit
    <3>1. Refuse(e) /\ e \in Events
      BY <1>1, <2>1, <1>0 DEF ReadDepth
    <3>2. /\ deadLetter' \in Seq(Events) /\ Len(deadLetter') <= DeadMax
          /\ dropped' \in Nat
      BY <3>1, RefuseTypes
    <3> QED BY <1>1, <2>1, <3>2
          DEF ReadDepth, TypeOK, workerVars, dbVars
  <2>2. CASE ~(Len(queue) >= QCrit)
    BY <1>1, <2>2 DEF ReadDepth, TypeOK, workerVars, dbVars
  <2> QED BY <2>1, <2>2
<1>2. ASSUME PutCrossing PROVE TypeOK'
  <2>0. pending \in Crossings /\ pending \in Events
    BY <1>2, <1>0 DEF PutCrossing, TypeOK
  <2>1. CASE HasRoom
    <3>1. queue' \in Seq(Events \cup {Sentinel}) /\ Len(queue') <= QMax
      BY <1>2, <2>0, <2>1, PutTypes DEF PutCrossing
    <3> QED BY <1>2, <2>1, <3>1 DEF PutCrossing, TypeOK, workerVars, dbVars
  <2>2. CASE ~HasRoom
    <3>1. Refuse(pending) /\ pending \in Events
      BY <1>2, <2>2, <1>0, <2>0 DEF PutCrossing
    <3>2. /\ deadLetter' \in Seq(Events) /\ Len(deadLetter') <= DeadMax
          /\ dropped' \in Nat
      BY <3>1, RefuseTypes
    <3> QED BY <1>2, <2>2, <3>2 DEF PutCrossing, TypeOK, workerVars, dbVars
  <2> QED BY <2>1, <2>2
<1>3. ASSUME NEW e \in LaneChanges, PutLaneChange(e) PROVE TypeOK'
  <2>1. CASE HasRoom
    <3>1. queue' \in Seq(Events \cup {Sentinel}) /\ Len(queue') <= QMax
      BY <1>3, <1>0, <2>1, PutTypes DEF PutLaneChange
    <3> QED BY <1>3, <2>1, <3>1 DEF PutLaneChange, TypeOK, workerVars, dbVars
  <2>2. CASE ~HasRoom
    <3>1. Refuse(e) /\ e \in Events
      BY <1>3, <2>2, <1>0 DEF PutLaneChange
    <3>2. /\ deadLetter' \in Seq(Events) /\ Len(deadLetter') <= DeadMax
          /\ dropped' \in Nat
      BY <3>1, RefuseTypes
    <3> QED BY <1>3, <2>2, <3>2 DEF PutLaneChange, TypeOK, workerVars, dbVars
  <2> QED BY <2>1, <2>2
<1>4. ASSUME Stop PROVE TypeOK'
  <2>1. queue' \in Seq(Events \cup {Sentinel}) /\ Len(queue') <= QMax
    BY <1>4, PutTypes DEF Stop, TypeOK
  <2> QED BY <1>4, <2>1
        DEF Stop, TypeOK, producerVars, workerVars, dbVars, outcomeVars
<1>5. ASSUME Take \/ CollectItem \/ DrainItem PROVE TypeOK'
  <2>1. queue # <<>> /\ queue' = Tail(queue)
    BY <1>5 DEF Take, CollectItem, DrainItem
  <2>2. /\ queue' \in Seq(Events \cup {Sentinel}) /\ Len(queue') <= QMax
        /\ Head(queue) \in Events \cup {Sentinel}
    BY <2>1, <1>0, RangeTail DEF TypeOK
  <2>3. CASE Take
    <3>1. batch' \in Seq(Events)
      <4>1. CASE Head(queue) = Sentinel
        BY <2>3, <4>1 DEF Take, TypeOK
      <4>2. CASE Head(queue) # Sentinel
        <5>1. Head(queue) \in Events /\ batch' = <<Head(queue)>>
          BY <2>3, <2>2, <4>2 DEF Take
        <5> QED BY <5>1
      <4> QED BY <4>1, <4>2
    <3>2. wpc' \in {"drain", "ensure"} /\ draining' \in BOOLEAN
      BY <2>3 DEF Take, TypeOK
    <3> QED BY <2>3, <2>2, <3>1, <3>2
          DEF Take, TypeOK, producerVars, dbVars, outcomeVars
  <2>4. CASE CollectItem
    <3>1. CASE Head(queue) = Sentinel
      BY <2>4, <2>2, <3>1 DEF CollectItem, TypeOK, producerVars, dbVars, outcomeVars
    <3>2. CASE Head(queue) # Sentinel
      <4>1. Append(batch, Head(queue)) \in Seq(Events)
        BY <2>2, <3>2, AppendTypes DEF TypeOK
      <4>2. batch' \in Seq(Events) /\ wpc' = wpc
        BY <2>4, <3>2, <4>1 DEF CollectItem
      <4> QED BY <2>4, <2>2, <4>2
            DEF CollectItem, TypeOK, producerVars, dbVars, outcomeVars
    <3> QED BY <3>1, <3>2
  <2>5. CASE DrainItem
    <3>1. batch' \in Seq(Events)
      BY <2>5, <2>2, AppendTypes DEF DrainItem, TypeOK
    <3> QED BY <2>5, <2>2, <3>1 DEF DrainItem, TypeOK, producerVars, dbVars, outcomeVars
  <2> QED BY <1>5, <2>3, <2>4, <2>5
<1>6. ASSUME EnsureAdapter \/ CollectEnds \/ SkipDatabase \/ DrainEnds PROVE TypeOK'
  BY <1>6 DEF EnsureAdapter, CollectEnds, SkipDatabase, DrainEnds,
              TypeOK, producerVars, dbVars, outcomeVars
<1>7. ASSUME AdapterFails PROVE TypeOK'
  <2>1. CASE draining
    BY <1>7, <2>1 DEF AdapterFails, TypeOK, producerVars, dbVars
  <2>2. CASE ~draining
    <3>1. deadLetter' \in Seq(Events) /\ Len(deadLetter') <= DeadMax /\ errors' \in Nat
      BY <1>7, <2>2, LetteredBounded DEF AdapterFails, TypeOK
    <3> QED BY <1>7, <2>2, <3>1 DEF AdapterFails, TypeOK, producerVars, dbVars
  <2> QED BY <2>1, <2>2
<1>8. ASSUME Resignal PROVE TypeOK'
  <2>1. queue' \in Seq(Events \cup {Sentinel}) /\ Len(queue') <= QMax
    BY <1>8, PutTypes DEF Resignal, TypeOK
  <2> QED BY <1>8, <2>1 DEF Resignal, TypeOK, producerVars, dbVars, outcomeVars
<1>9. ASSUME Insert PROVE TypeOK'
  <2>1. session' \in SUBSET Events /\ rollups' \in SUBSET Crossings
    BY <1>9, RangeInSet DEF Insert, TypeOK
  <2> QED BY <1>9, <2>1 DEF Insert, TypeOK, producerVars, outcomeVars
<1>10. ASSUME RejectSingle PROVE TypeOK'
  <2>1. deadLetter' \in Seq(Events) /\ Len(deadLetter') <= DeadMax
    BY <1>10, <1>0, LetteredEvictingBounded DEF RejectSingle, TypeOK
  <2>2. processed' \in Nat
    BY <1>10, <1>0 DEF RejectSingle, FinishBatch, TypeOK
  <2> QED BY <1>10, <2>1, <2>2
        DEF RejectSingle, FinishBatch, AfterBatch, TypeOK, producerVars, dbVars
<1>11. ASSUME InsertFails \/ CommitFails PROVE TypeOK'
  <2>1. FailBatch
    BY <1>11 DEF InsertFails, CommitFails
  <2> QED BY <1>11, <2>1, FailBatchTypes
        DEF InsertFails, CommitFails, TypeOK, producerVars
<1>12. ASSUME Commit PROVE TypeOK'
  <2>1. durable' \in Seq(Events)
    BY <1>12, ConcatProperties DEF Commit, TypeOK
  <2> QED BY <1>12, <2>1 DEF Commit, TypeOK, producerVars, outcomeVars
<1>13. ASSUME CommitLocked PROVE TypeOK'
  BY <1>13 DEF CommitLocked, TypeOK, producerVars, workerVars, outcomeVars
<1>14. ASSUME Publish PROVE TypeOK'
  <2>1. published' \in SUBSET Events
    BY <1>14, RangeInSet DEF Publish, TypeOK
  <2>2. processed' \in Nat
    BY <1>14, <1>0 DEF Publish, FinishBatch, TypeOK
  <2> QED BY <1>14, <2>1, <2>2
        DEF Publish, FinishBatch, AfterBatch, TypeOK, producerVars, dbVars
<1>15. ASSUME PublishRaises PROVE TypeOK'
  <2>1. PICK k \in 1..Len(batch) :
           \E sent \in SUBSET Range(SubSeq(batch, 1, k - 1)) :
              published' = published \cup sent
    BY <1>15 DEF PublishRaises
  <2>2. \A i \in 1..k - 1 : batch[i] \in Events
    BY <1>0, <2>1 DEF TypeOK
  <2>3. SubSeq(batch, 1, k - 1) \in Seq(Events)
    BY <1>0, <2>1, <2>2, SubSeqProperties
  <2>4. published' \in SUBSET Events
    BY <2>1, <2>3, RangeInSet DEF TypeOK
  <2>5. FailBatch
    BY <1>15 DEF PublishRaises
  <2> QED BY <1>15, <2>4, <2>5, FailBatchTypes
        DEF PublishRaises, TypeOK, producerVars
<1>16. CASE UNCHANGED vars
  BY <1>16 DEF vars, TypeOK, producerVars, workerVars, dbVars, outcomeVars
<1> QED
  BY <1>1, <1>2, <1>3, <1>4, <1>5, <1>6, <1>7, <1>8, <1>9, <1>10, <1>11,
     <1>12, <1>13, <1>14, <1>15, <1>16
  DEF Next, Producer, Worker

(* Type correctness: the queue and the dead-letter list never outgrow their *)
(* limits, whatever the producer, the worker and stop() do.                 *)
THEOREM TypeCorrect == Spec => []TypeOK
<1>1. Init => TypeOK
  <2>1. /\ \A S : <<>> \in Seq(S) /\ Len(<<>>) = 0
        /\ 0 <= QMax /\ 0 <= DeadMax
    BY EmptySeq, BoundsAssumption
  <2> SUFFICES ASSUME Init PROVE TypeOK
    OBVIOUS
  <2>2. /\ queue \in Seq(Events \cup {Sentinel}) /\ Len(queue) <= QMax
        /\ batch \in Seq(Events) /\ durable \in Seq(Events)
        /\ deadLetter \in Seq(Events) /\ Len(deadLetter) <= DeadMax
    BY <2>1 DEF Init
  <2> QED BY <2>2 DEF Init, TypeOK
<1> QED BY <1>1, TypeStep, PTL DEF Spec

----------------------------------------------------------------------------
(* The inductive invariant HandInv of StorageWorker.  The properties do not *)
(* carry themselves from one step to the next: that a row to be published   *)
(* is durable follows from what Insert put in the session two steps before, *)
(* and from what a commit retry may have expunged since.                    *)

(* Every step keeps that relation.                                          *)
LEMMA HandStep == TypeOK /\ HandInv /\ [Next]_vars => HandInv'
<1> SUFFICES ASSUME TypeOK, HandInv, [Next]_vars PROVE HandInv'
  OBVIOUS
<1> USE DEF HandInv, EmptyHanded, AdapterSettled, SessionHoldsBatch, PublishingStored
<1>1. ASSUME Producer \/ Stop PROVE HandInv'
  BY <1>1 DEF Producer, ReadDepth, PutCrossing, PutLaneChange, Stop,
              producerVars, workerVars, dbVars, outcomeVars
<1>2. ASSUME Take \/ EnsureAdapter \/ AdapterFails \/ CollectItem \/ CollectEnds
             \/ Resignal \/ DrainItem \/ DrainEnds
      PROVE  HandInv'
  <2> USE <1>2 DEF Take, EnsureAdapter, AdapterFails, CollectItem, CollectEnds,
                   Resignal, DrainItem, DrainEnds
  <2>1. wpc \in {"get", "ensure", "collect", "resignal", "drain"}
    OBVIOUS
  <2>2. session' = {} /\ rollups' = {} /\ wpc' \notin {"commit", "publish"}
    BY <2>1 DEF dbVars
  <2>3. wpc' = "get" => batch' = <<>>
    OBVIOUS
  <2>4. wpc' \in {"collect", "resignal", "insert"} => adapter' # "absent"
    OBVIOUS
  <2> QED BY <2>2, <2>3, <2>4
<1>3. ASSUME Insert PROVE HandInv'
  <2>1. session' = Range(batch') /\ rollups' \subseteq session'
    BY <1>3 DEF Insert
  <2> QED BY <1>3, <2>1 DEF Insert
<1>4. ASSUME SkipDatabase PROVE HandInv'
  BY <1>4 DEF SkipDatabase, dbVars
<1>5. ASSUME RejectSingle PROVE HandInv'
  BY <1>5 DEF RejectSingle, FinishBatch, AfterBatch, dbVars
<1>6. ASSUME InsertFails \/ CommitFails \/ PublishRaises PROVE HandInv'
  <2>1. FailBatch
    BY <1>6 DEF InsertFails, CommitFails, PublishRaises
  <2>2. /\ batch' = <<>> /\ session' = {} /\ rollups' = {}
        /\ wpc' \in {"get", "stopped"}
    BY <2>1 DEF FailBatch, AfterBatch
  <2> QED BY <2>2
<1>7. ASSUME Commit PROVE HandInv'
  <2>1. /\ batch' = batch /\ expunged' = expunged /\ adapter' = adapter
        /\ wpc = "commit" /\ wpc' = "publish" /\ session' = {} /\ rollups' = {}
        /\ durable' = IF session = {} THEN durable ELSE durable \o batch
    BY <1>7 DEF Commit
  <2>2. Range(batch) \subseteq Range(durable') \cup expunged
    <3>1. CASE session = {}
      BY <2>1, <3>1
    <3>2. CASE session # {}
      BY <2>1, <3>2, RangeConcat DEF TypeOK
    <3> QED BY <3>1, <3>2
  <2> QED BY <2>1, <2>2
<1>8. ASSUME CommitLocked PROVE HandInv'
  BY <1>8 DEF CommitLocked, workerVars
<1>9. ASSUME Publish PROVE HandInv'
  BY <1>9 DEF Publish, FinishBatch, AfterBatch, dbVars
<1>10. CASE UNCHANGED vars
  BY <1>10 DEF vars, workerVars, dbVars
<1> QED
  BY <1>1, <1>2, <1>3, <1>4, <1>5, <1>6, <1>7, <1>8, <1>9, <1>10 DEF Next, Worker

(* The relation holds throughout.                                           *)
THEOREM BatchInHand == Spec => []HandInv
<1>1. Init => HandInv
  BY DEF Init, HandInv, EmptyHanded, AdapterSettled, SessionHoldsBatch, PublishingStored
<1> QED BY <1>1, HandStep, TypeCorrect, PTL DEF Spec

----------------------------------------------------------------------------
(* Aggregates and subscribers.                                             *)

(* The store only grows.                                                    *)
LEMMA DurableGrows ==
    ASSUME TypeOK, [Next]_vars
    PROVE  /\ Range(durable) \subseteq Range(durable')
           /\ expunged \subseteq expunged'
<1>1. CASE Commit
  <2>1. CASE session = {}
    BY <1>1, <2>1 DEF Commit
  <2>2. CASE session # {}
    <3>1. durable' = durable \o batch /\ expunged' = expunged
      BY <1>1, <2>2 DEF Commit
    <3> QED BY <3>1, RangeConcat DEF TypeOK
  <2> QED BY <2>1, <2>2
<1>2. CASE CommitLocked
  BY <1>2 DEF CommitLocked
<1>3. CASE ~Commit /\ ~CommitLocked
  <2>1. durable' = durable /\ expunged' = expunged
    BY <1>3 DEF Next, Producer, Worker, ReadDepth, PutCrossing, PutLaneChange, Stop,
         Take, EnsureAdapter, AdapterFails, CollectItem, CollectEnds, Resignal,
         Insert, SkipDatabase, RejectSingle, InsertFails, CommitFails, Publish,
         PublishRaises, DrainItem, DrainEnds, vars, dbVars
  <2> QED BY <2>1
<1> QED BY <1>1, <1>2, <1>3

(* Only a commit counts crossings in the aggregates.                        *)
LEMMA RolledOnlyByCommit ==
    ASSUME [Next]_vars, ~Commit
    PROVE  rolled' = rolled
BY DEF Next, Producer, Worker, ReadDepth, PutCrossing, PutLaneChange, Stop,
       Take, EnsureAdapter, AdapterFails, CollectItem, CollectEnds, Resignal,
       Insert, SkipDatabase, RejectSingle, InsertFails, CommitLocked, CommitFails,
       Publish, PublishRaises, DrainItem, DrainEnds, vars, dbVars

(* RollupsMatchRows for every set of events and all limits: a committed     *)
(* bucket never counts a crossing whose row is not committed, through every *)
(* failure and retry of _process_batch.                                     *)
THEOREM AggregatesFollowRows == Spec => []RollupsMatchRows
<1>1. Init => RollupsMatchRows
  BY DEF Init, RollupsMatchRows
<1>2. TypeOK /\ HandInv /\ RollupsMatchRows /\ [Next]_vars => RollupsMatchRows'
  <2> SUFFICES ASSUME TypeOK, HandInv, RollupsMatchRows, [Next]_vars
               PROVE  RollupsMatchRows'
    OBVIOUS
  <2>1. CASE Commit
    <3>1. CASE session = {}
      BY <2>1, <3>1 DEF Commit, HandInv, SessionHoldsBatch, RollupsMatchRows
    <3>2. CASE session # {}
      <4>1. durable' = durable \o batch /\ rolled' = rolled \cup rollups
        BY <2>1, <3>2 DEF Commit
      <4>2. Range(durable') = Range(durable) \cup Range(batch)
        BY <4>1, RangeConcat DEF TypeOK
      <4>3. rollups \subseteq Range(batch)
        BY <2>1, <3>2 DEF Commit, HandInv, SessionHoldsBatch
      <4> QED BY <4>1, <4>2, <4>3 DEF RollupsMatchRows
    <3> QED BY <3>1, <3>2
  <2>2. CASE ~Commit
    BY <2>2, RolledOnlyByCommit, DurableGrows DEF RollupsMatchRows
  <2> QED BY <2>1, <2>2
<1> QED BY <1>1, <1>2, TypeCorrect, BatchInHand, PTL DEF Spec

(* A prefix holds no more than the whole.                                   *)
LEMMA RangePrefix ==
    ASSUME NEW S, NEW s \in Seq(S), NEW k \in 1..Len(s)
    PROVE  Range(SubSeq(s, 1, k - 1)) \subseteq Range(s)
<1>1. /\ Len(s) \in Nat /\ DOMAIN s = 1..Len(s)
      /\ \A i \in 1..k - 1 : s[i] \in S
  BY LenProperties
<1>2. /\ SubSeq(s, 1, k - 1) \in Seq(S)
      /\ Len(SubSeq(s, 1, k - 1)) = IF 1 <= k - 1 THEN (k - 1) - 1 + 1 ELSE 0
      /\ \A i \in 1..(k - 1) - 1 + 1 : SubSeq(s, 1, k - 1)[i] = s[1 + i - 1]
  BY <1>1, SubSeqProperties
<1>3. /\ DOMAIN SubSeq(s, 1, k - 1) = 1..k - 1
      /\ \A i \in 1..k - 1 : SubSeq(s, 1, k - 1)[i] = s[i]
  BY <1>1, <1>2, LenProperties
<1> QED BY <1>1, <1>3 DEF Range

(* PublishedAfterStored for every set of events and all limits: whatever a  *)
(* subscriber of traffic:events has seen is committed, unless commit_with_  *)
(* retry expunged it, also when a publish raises half-way.                  *)
THEOREM SubscribersSeeStoredRows == Spec => []PublishedAfterStored
<1>1. Init => PublishedAfterStored
  BY DEF Init, PublishedAfterStored
<1>2. TypeOK /\ HandInv /\ PublishedAfterStored /\ [Next]_vars => PublishedAfterStored'
  <2> SUFFICES ASSUME TypeOK, HandInv, PublishedAfterStored, [Next]_vars
               PROVE  PublishedAfterStored'
    OBVIOUS
  <2>1. (adapter' # "files") => (adapter # "files")
    BY DEF Next, Producer, Worker, ReadDepth, PutCrossing, PutLaneChange, Stop,
         Take, EnsureAdapter, AdapterFails, CollectItem, CollectEnds, Resignal,
         Insert, SkipDatabase, RejectSingle, InsertFails, Commit, CommitLocked,
         CommitFails, Publish, PublishRaises, DrainItem, DrainEnds, vars, workerVars
  <2>2. CASE Publish \/ PublishRaises
    <3>1. wpc = "publish" /\ durable' = durable /\ expunged' = expunged
      BY <2>2 DEF Publish, PublishRaises, dbVars
    <3>2. published' \subseteq published \cup Range(batch)
      <4>1. CASE Publish
        BY <4>1 DEF Publish
      <4>2. CASE PublishRaises
        <5>1. PICK k \in 1..Len(batch) :
                 \E sent \in SUBSET Range(SubSeq(batch, 1, k - 1)) :
                    published' = published \cup sent
          BY <4>2 DEF PublishRaises
        <5>2. Range(SubSeq(batch, 1, k - 1)) \subseteq Range(batch)
          BY RangePrefix DEF TypeOK
        <5> QED BY <5>1, <5>2
      <4> QED BY <2>2, <4>1, <4>2
    <3> QED BY <2>1, <3>1, <3>2 DEF HandInv, PublishingStored, PublishedAfterStored
  <2>3. CASE ~(Publish \/ PublishRaises)
    <3>1. published' = published
      BY <2>3 DEF Next, Producer, Worker, ReadDepth, PutCrossing, PutLaneChange, Stop,
           Take, EnsureAdapter, AdapterFails, CollectItem, CollectEnds, Resignal,
           Insert, SkipDatabase, RejectSingle, InsertFails, Commit, CommitLocked,
           CommitFails, DrainItem, DrainEnds, vars, outcomeVars
    <3> QED BY <2>1, <3>1, DurableGrows DEF PublishedAfterStored
  <2> QED BY <2>2, <2>3
<1> QED BY <1>1, <1>2, TypeCorrect, BatchInHand, PTL DEF Spec

----------------------------------------------------------------------------
(* No silent loss.                                                         *)

(* Where an accepted event may be while the worker lives.                   *)
Kept == Queued \cup Range(batch) \cup {pending} \cup Range(durable) \cup Range(deadLetter)

Excused ==
    ~(wpc # "stopped" /\ Len(deadLetter) < DeadMax /\ adapter # "files" /\ expunged = {})

(* A refused or failed event is in the dead-letter list as long as that is  *)
(* not full, and nothing that was there has gone.                           *)
LEMMA LetteredKeeps ==
    ASSUME TypeOK, NEW s \in Seq(Events), deadLetter' = Lettered(s),
           Len(deadLetter') < DeadMax
    PROVE  /\ Len(deadLetter) < DeadMax
           /\ Range(deadLetter') = Range(deadLetter) \cup Range(s)
<1>1. deadLetter \in Seq(Events)
  BY DEF TypeOK
<1>2. deadLetter' = deadLetter \o s /\ Len(deadLetter) < DeadMax
  BY <1>1, LetteredBounded
<1> QED BY <1>1, <1>2, RangeConcat

(* The same for Refuse.                                                     *)
LEMMA RefuseKeeps ==
    ASSUME TypeOK, NEW e \in Events, Refuse(e), Len(deadLetter') < DeadMax
    PROVE  /\ Len(deadLetter) < DeadMax
           /\ Range(deadLetter') = Range(deadLetter) \cup {e}
<1>1. <<e>> \in Seq(Events) /\ Range(<<e>>) = {e}
  BY DEF Range
<1> QED BY <1>1, LetteredKeeps DEF Refuse

(* The same for a batch that fails before the drain.                        *)
LEMMA FailBatchKeeps ==
    ASSUME TypeOK, FailBatch, wpc' # "stopped", Len(deadLetter') < DeadMax
    PROVE  /\ Len(deadLetter) < DeadMax
           /\ Range(deadLetter') = Range(deadLetter) \cup Range(batch)
<1>1. ~draining /\ deadLetter' = Lettered(batch) /\ batch \in Seq(Events)
  BY DEF FailBatch, AfterBatch, TypeOK
<1> QED BY <1>1, LetteredKeeps

(* A put adds what was put to the queued events.                            *)
LEMMA PutQueues ==
    ASSUME TypeOK, NEW x \in Events \cup {Sentinel}, queue' = Append(queue, x)
    PROVE  Range(queue') = Range(queue) \cup {x}
BY RangeAppend DEF TypeOK

(* An event the worker gets moves from the queue to its batch.              *)
LEMMA GetMoves ==
    ASSUME TypeOK, queue # <<>>
    PROVE  /\ Head(queue) \in Events \cup {Sentinel}
           /\ Range(queue) = Range(Tail(queue)) \cup {Head(queue)}
BY RangeTail DEF TypeOK

(* One step of any thread loses nothing.                                    *)
LEMMA LossStep ==
    TypeOK /\ HandInv /\ NoSilentLoss /\ [Next]_vars => NoSilentLoss'
<1> SUFFICES ASSUME TypeOK, HandInv, NoSilentLoss, [Next]_vars, ~Excused'
             PROVE  Accepted' \subseteq Kept'
  BY DEF NoSilentLoss, Excused, Kept
<1> DEFINE Loss == Accepted \subseteq Kept
<1>0. ~Excused => Loss
  BY DEF NoSilentLoss, Excused, Kept
<1> HIDE DEF Loss
<1>z. Crossings \subseteq Events /\ LaneChanges \subseteq Events /\ Sentinel \notin Events
  BY EventsAssumption DEF Events
<1>1. ASSUME NEW e \in Crossings, ReadDepth(e) PROVE Accepted' \subseteq Kept'
  <2>1. /\ Accepted' \subseteq Accepted \cup {e} /\ pending = NoEvent
        /\ UNCHANGED <<wpc, adapter, expunged, queue, batch, durable>>
    BY <1>1, <1>z DEF ReadDepth, Accepted, workerVars, dbVars
  <2>2. NoEvent \notin Accepted
    BY EventsAssumption DEF Accepted
  <2>3. CASE Len(queue) >= QCrit
    <3>1. Refuse(e) /\ pending' = pending
      BY <1>1, <2>3 DEF ReadDepth
    <3>2. /\ Len(deadLetter) < DeadMax
          /\ Range(deadLetter') = Range(deadLetter) \cup {e}
      BY <3>1, <1>z, RefuseKeeps DEF Excused
    <3>3. Loss
      BY <1>0, <2>1, <3>2 DEF Excused
    <3> QED BY <2>1, <3>1, <3>2, <3>3 DEF Loss, Kept, Queued
  <2>4. CASE ~(Len(queue) >= QCrit)
    <3>1. pending' = e /\ deadLetter' = deadLetter
      BY <1>1, <2>4 DEF ReadDepth
    <3>2. Loss
      BY <1>0, <2>1, <3>1 DEF Excused
    <3> QED BY <2>1, <2>2, <3>1, <3>2 DEF Loss, Kept, Queued
  <2> QED BY <2>3, <2>4
<1>2. ASSUME PutCrossing PROVE Accepted' \subseteq Kept'
  <2>1. /\ Accepted' = Accepted /\ pending \in Crossings /\ pending \in Events
        /\ UNCHANGED <<wpc, adapter, expunged, batch, durable>>
    BY <1>2, <1>z DEF PutCrossing, Accepted, workerVars, dbVars, TypeOK
  <2>2. CASE HasRoom
    <3>1. queue' = Append(queue, pending) /\ deadLetter' = deadLetter
      BY <1>2, <2>2 DEF PutCrossing
    <3>2. Range(queue') = Range(queue) \cup {pending}
      BY <2>1, <3>1, PutQueues
    <3>3. Loss
      BY <1>0, <2>1, <3>1 DEF Excused
    <3> QED BY <1>z, <2>1, <3>1, <3>2, <3>3 DEF Loss, Kept, Queued
  <2>3. CASE ~HasRoom
    <3>1. Refuse(pending) /\ queue' = queue
      BY <1>2, <2>3 DEF PutCrossing
    <3>2. /\ Len(deadLetter) < DeadMax
          /\ Range(deadLetter') = Range(deadLetter) \cup {pending}
      BY <2>1, <3>1, RefuseKeeps DEF Excused
    <3>3. Loss
      BY <1>0, <2>1, <3>2 DEF Excused
    <3> QED BY <2>1, <3>1, <3>2, <3>3 DEF Loss, Kept, Queued
  <2> QED BY <2>2, <2>3
<1>3. ASSUME NEW e \in LaneChanges, PutLaneChange(e) PROVE Accepted' \subseteq Kept'
  <2>1. /\ Accepted' \subseteq Accepted \cup {e}
        /\ UNCHANGED <<pending, wpc, adapter, expunged, batch, durable>>
    BY <1>3, <1>z DEF PutLaneChange, Accepted, workerVars, dbVars
  <2>2. CASE HasRoom
    <3>1. queue' = Append(queue, e) /\ deadLetter' = deadLetter
      BY <1>3, <2>2 DEF PutLaneChange
    <3>2. Range(queue') = Range(queue) \cup {e}
      BY <1>z, <3>1, PutQueues
    <3>3. Loss
      BY <1>0, <2>1, <3>1 DEF Excused
    <3> QED BY <1>z, <2>1, <3>1, <3>2, <3>3 DEF Loss, Kept, Queued
  <2>3. CASE ~HasRoom
    <3>1. Refuse(e) /\ queue' = queue
      BY <1>3, <2>3 DEF PutLaneChange
    <3>2. /\ Len(deadLetter) < DeadMax
          /\ Range(deadLetter') = Range(deadLetter) \cup {e}
      BY <1>z, <3>1, RefuseKeeps DEF Excused
    <3>3. Loss
      BY <1>0, <2>1, <3>2 DEF Excused
    <3> QED BY <2>1, <3>1, <3>2, <3>3 DEF Loss, Kept, Queued
  <2> QED BY <2>2, <2>3
<1>4. ASSUME Stop \/ Resignal PROVE Accepted' \subseteq Kept'
  <2>1. /\ Accepted' = Accepted /\ (wpc' # "stopped" => wpc # "stopped")
        /\ UNCHANGED <<pending, adapter, expunged, batch, durable, deadLetter>>
        /\ queue' = queue \/ queue' = Append(queue, Sentinel)
    BY <1>4 DEF Stop, Resignal, Accepted, producerVars, workerVars, dbVars, outcomeVars
  <2>2. Queued' = Queued
    BY <2>1, PutQueues DEF Queued
  <2> QED BY <1>0, <2>1, <2>2 DEF Loss, Kept, Excused
<1>5. ASSUME Take \/ CollectItem \/ DrainItem PROVE Accepted' \subseteq Kept'
  <2>1. /\ Accepted' = Accepted /\ wpc # "stopped"
        /\ UNCHANGED <<pending, adapter, expunged, durable, deadLetter>>
        /\ queue # <<>> /\ queue' = Tail(queue)
    BY <1>5 DEF Take, CollectItem, DrainItem, Accepted, producerVars, dbVars, outcomeVars
  <2>2. /\ Head(queue) \in Events \cup {Sentinel}
        /\ Range(queue) = Range(queue') \cup {Head(queue)}
    BY <2>1, GetMoves
  <2>3. CASE Head(queue) = Sentinel
    <3>1. batch' = batch
      BY <1>5, <2>3 DEF Take, CollectItem, DrainItem
    <3> QED BY <1>0, <2>1, <2>2, <2>3, <3>1 DEF Loss, Kept, Queued, Excused
  <2>4. CASE Head(queue) # Sentinel
    <3>1. Range(batch') = Range(batch) \cup {Head(queue)}
      <4>1. CASE Take
        <5>1. batch = <<>> /\ batch' = <<Head(queue)>>
          BY <2>4, <4>1 DEF Take, HandInv, EmptyHanded
        <5> QED BY <5>1 DEF Range
      <4>2. CASE CollectItem \/ DrainItem
        <5>1. batch' = Append(batch, Head(queue))
          BY <2>4, <4>2 DEF CollectItem, DrainItem
        <5>2. batch \in Seq(Events) /\ Head(queue) \in Events
          BY <2>2, <2>4 DEF TypeOK
        <5> QED BY <5>1, <5>2, RangeAppend
      <4> QED BY <1>5, <4>1, <4>2
    <3>2. Loss
      BY <1>0, <2>1 DEF Excused
    <3>3. Queued \subseteq Queued' \cup {Head(queue)}
      BY <2>2 DEF Queued
    <3> QED BY <2>1, <3>1, <3>2, <3>3 DEF Loss, Kept
  <2> QED BY <2>3, <2>4
<1>6. ASSUME EnsureAdapter \/ CollectEnds \/ Insert \/ DrainEnds \/ SkipDatabase
      PROVE  Accepted' \subseteq Kept'
  <2>1. /\ wpc # "stopped" /\ (adapter' # "files" => adapter # "files")
        /\ Accepted' = Accepted
        /\ UNCHANGED <<pending, queue, batch, durable, deadLetter, expunged>>
    BY <1>6 DEF EnsureAdapter, CollectEnds, Insert, DrainEnds, SkipDatabase,
                Accepted, producerVars, dbVars, outcomeVars
  <2> QED BY <1>0, <2>1 DEF Loss, Kept, Queued, Excused
<1>7. ASSUME AdapterFails PROVE Accepted' \subseteq Kept'
  <2>1. ~draining
    BY <1>7 DEF AdapterFails, Excused
  <2>2. /\ Accepted' = Accepted /\ wpc # "stopped"
        /\ UNCHANGED <<pending, queue, durable, adapter, expunged>>
        /\ deadLetter' = Lettered(batch)
    BY <1>7, <2>1 DEF AdapterFails, Accepted, producerVars, dbVars
  <2>3. /\ Len(deadLetter) < DeadMax
        /\ Range(deadLetter') = Range(deadLetter) \cup Range(batch)
    BY <2>2, LetteredKeeps DEF Excused, TypeOK
  <2> QED BY <1>0, <2>2, <2>3 DEF Loss, Kept, Queued, Excused
<1>8. ASSUME RejectSingle PROVE Accepted' \subseteq Kept'
  <2>1. /\ Accepted' = Accepted /\ wpc # "stopped" /\ Len(batch) = 1
        /\ UNCHANGED <<pending, queue, durable, adapter, expunged>>
        /\ deadLetter' = LetteredEvicting(batch[1]) /\ batch[1] \in Events
    BY <1>8, <1>z DEF RejectSingle, Accepted, producerVars, dbVars
  <2>2. /\ Len(deadLetter) < DeadMax /\ deadLetter \in Seq(Events)
        /\ deadLetter' = Append(deadLetter, batch[1])
    BY <2>1, LetteredEvictingBounded DEF Excused, TypeOK
  <2>3. Range(deadLetter') = Range(deadLetter) \cup {batch[1]}
    BY <2>1, <2>2, RangeAppend
  <2>4. Range(batch) = {batch[1]}
    BY <2>1, LenProperties DEF Range, TypeOK
  <2> QED BY <1>0, <2>1, <2>2, <2>3, <2>4 DEF Loss, Kept, Queued, Excused
<1>9. ASSUME InsertFails \/ CommitFails \/ PublishRaises PROVE Accepted' \subseteq Kept'
  <2>1. /\ Accepted' = Accepted /\ wpc # "stopped" /\ FailBatch
        /\ UNCHANGED <<pending, durable, adapter, expunged>> /\ queue' = queue
    BY <1>9 DEF InsertFails, CommitFails, PublishRaises, FailBatch, Accepted,
                producerVars, dbVars
  <2>2. /\ Len(deadLetter) < DeadMax
        /\ Range(deadLetter') = Range(deadLetter) \cup Range(batch)
    BY <2>1, FailBatchKeeps DEF Excused
  <2> QED BY <1>0, <2>1, <2>2 DEF Loss, Kept, Queued, Excused
<1>10. ASSUME Commit PROVE Accepted' \subseteq Kept'
  <2>1. /\ Accepted' = Accepted /\ wpc # "stopped"
        /\ UNCHANGED <<pending, queue, batch, adapter, expunged, deadLetter>>
    BY <1>10 DEF Commit, Accepted, producerVars, outcomeVars
  <2>2. Range(durable) \subseteq Range(durable')
    BY DurableGrows
  <2> QED BY <1>0, <2>1, <2>2 DEF Loss, Kept, Queued, Excused
<1>11. ASSUME CommitLocked PROVE Accepted' \subseteq Kept'
  BY <1>11 DEF CommitLocked, Excused
<1>12. ASSUME Publish PROVE Accepted' \subseteq Kept'
  <2>1. /\ Accepted' = Accepted /\ wpc = "publish"
        /\ UNCHANGED <<pending, queue, durable, adapter, expunged, deadLetter>>
    BY <1>12 DEF Publish, Accepted, producerVars, dbVars
  <2>2. Range(batch) \subseteq Range(durable)
    BY <2>1 DEF HandInv, PublishingStored, Excused
  <2> QED BY <1>0, <2>1, <2>2 DEF Loss, Kept, Queued, Excused
<1>13. CASE UNCHANGED vars
  BY <1>0, <1>13 DEF vars, producerVars, workerVars, dbVars, outcomeVars,
                     Loss, Kept, Queued, Excused, Accepted
<1> QED
  BY <1>1, <1>2, <1>3, <1>4, <1>5, <1>6, <1>7, <1>8, <1>9, <1>10, <1>11, <1>12, <1>13
  DEF Next, Producer, Worker

(* NoSilentLoss for every set of events and all limits: until the worker    *)
(* stops, an accepted event is in hand, durable or dead-lettered, and only  *)
(* the three exceptions the property names let one go.                      *)
THEOREM BackpressureLosesNothing == Spec => []NoSilentLoss
<1>1. Init => NoSilentLoss
  BY DEF Init, NoSilentLoss, Accepted
<1> QED BY <1>1, LossStep, TypeCorrect, BatchInHand, PTL DEF Spec

----------------------------------------------------------------------------
(* Sequences without duplicates.                                           *)

(* Appending something new to a sequence without duplicates.                *)
LEMMA InjectiveAppend ==
    ASSUME NEW S, NEW s \in Seq(S), NEW x \in S, IsInjective(s), x \notin Range(s)
    PROVE  IsInjective(Append(s, x))
<1>1. /\ DOMAIN s = 1..Len(s) /\ Len(s) \in Nat
      /\ DOMAIN Append(s, x) = 1..Len(s) + 1
      /\ \A i \in 1..Len(s) : Append(s, x)[i] = s[i] /\ s[i] # x
      /\ Append(s, x)[Len(s) + 1] = x
  BY AppendProperties, LenProperties DEF Range
<1> SUFFICES ASSUME NEW i \in 1..Len(s) + 1, NEW j \in 1..Len(s) + 1,
                    Append(s, x)[i] = Append(s, x)[j]
             PROVE  i = j
  BY <1>1 DEF IsInjective
<1>2. (i \in 1..Len(s) \/ i = Len(s) + 1) /\ (j \in 1..Len(s) \/ j = Len(s) + 1)
  BY <1>1
<1>3. CASE i \in 1..Len(s) /\ j \in 1..Len(s)
  BY <1>1, <1>3 DEF IsInjective
<1> QED BY <1>1, <1>2, <1>3

(* The rest of a sequence without duplicates has none, nor its head.        *)
LEMMA InjectiveTail ==
    ASSUME NEW S, NEW s \in Seq(S), s # <<>>, IsInjective(s)
    PROVE  IsInjective(Tail(s)) /\ Head(s) \notin Range(Tail(s))
<1>1. /\ DOMAIN s = 1..Len(s) /\ Len(s) \in Nat \ {0}
      /\ DOMAIN Tail(s) = 1..Len(s) - 1
      /\ \A i \in 1..Len(s) - 1 : Tail(s)[i] = s[i + 1]
      /\ Head(s) = s[1]
  BY HeadTailProperties, LenProperties, EmptySeq
<1>2. IsInjective(Tail(s))
  <2> SUFFICES ASSUME NEW i \in 1..Len(s) - 1, NEW j \in 1..Len(s) - 1,
                      Tail(s)[i] = Tail(s)[j]
               PROVE  i = j
    BY <1>1 DEF IsInjective
  <2>1. i + 1 \in 1..Len(s) /\ j + 1 \in 1..Len(s) /\ s[i + 1] = s[j + 1]
    BY <1>1
  <2>2. i + 1 = j + 1
    BY <1>1, <2>1 DEF IsInjective
  <2> QED BY <2>2
<1>3. Head(s) \notin Range(Tail(s))
  <2> SUFFICES ASSUME NEW i \in 1..Len(s) - 1, Tail(s)[i] = s[1] PROVE FALSE
    BY <1>1 DEF Range
  <2>1. i + 1 \in 1..Len(s) /\ 1 \in 1..Len(s) /\ s[i + 1] = s[1]
    BY <1>1
  <2>2. i + 1 = 1
    BY <1>1, <2>1 DEF IsInjective
  <2> QED BY <2>2
<1> QED BY <1>2, <1>3

(* Two sequences without duplicates that share nothing.                     *)
LEMMA InjectiveConcat ==
    ASSUME NEW S, NEW s \in Seq(S), NEW t \in Seq(S),
           IsInjective(s), IsInjective(t), Range(s) \cap Range(t) = {}
    PROVE  IsInjective(s \o t)
<1>1. /\ DOMAIN s = 1..Len(s) /\ DOMAIN t = 1..Len(t)
      /\ Len(s) \in Nat /\ Len(t) \in Nat
      /\ DOMAIN (s \o t) = 1..Len(s) + Len(t)
      /\ \A i \in 1..Len(s) + Len(t) :
            (s \o t)[i] = IF i <= Len(s) THEN s[i] ELSE t[i - Len(s)]
  BY ConcatProperties, LenProperties
<1>2. \A i \in 1..Len(s), j \in 1..Len(t) : s[i] # t[j]
  BY <1>1 DEF Range
<1> SUFFICES ASSUME NEW i \in 1..Len(s) + Len(t), NEW j \in 1..Len(s) + Len(t),
                    (s \o t)[i] = (s \o t)[j]
             PROVE  i = j
  BY <1>1 DEF IsInjective
<1>3. CASE i <= Len(s) /\ j <= Len(s)
  <2>1. i \in 1..Len(s) /\ j \in 1..Len(s) /\ s[i] = s[j]
    BY <1>1, <1>3
  <2> QED BY <1>1, <2>1 DEF IsInjective
<1>4. CASE ~(i <= Len(s)) /\ ~(j <= Len(s))
  <2>1. i - Len(s) \in 1..Len(t) /\ j - Len(s) \in 1..Len(t)
    BY <1>1, <1>4
  <2>2. t[i - Len(s)] = t[j - Len(s)]
    BY <1>1, <1>4
  <2>3. i - Len(s) = j - Len(s)
    BY <1>1, <2>1, <2>2 DEF IsInjective
  <2> QED BY <1>1, <2>3
<1>5. CASE i <= Len(s) /\ ~(j <= Len(s))
  <2>1. i \in 1..Len(s) /\ j - Len(s) \in 1..Len(t) /\ s[i] = t[j - Len(s)]
    BY <1>1, <1>5
  <2> QED BY <1>2, <2>1
<1>6. CASE ~(i <= Len(s)) /\ j <= Len(s)
  <2>1. j \in 1..Len(s) /\ i - Len(s) \in 1..Len(t) /\ s[j] = t[i - Len(s)]
    BY <1>1, <1>6
  <2> QED BY <1>2, <2>1
<1> QED BY <1>3, <1>4, <1>5, <1>6

(* A sequence without duplicates has as many elements as its length.        *)
LEMMA InjectiveCardinality ==
    ASSUME NEW S, NEW s \in Seq(S), IsInjective(s)
    PROVE  IsFiniteSet(Range(s)) /\ Cardinality(Range(s)) = Len(s)
<1>1. DOMAIN s = 1..Len(s) /\ Len(s) \in Nat
  BY LenProperties
<1>2. IsFiniteSet(1..Len(s)) /\ Cardinality(1..Len(s)) = Len(s)
  BY <1>1, FS_Interval
<1>3. s \in [1..Len(s) -> Range(s)]
  <2>1. \A i \in 1..Len(s) : s[i] \in Range(s)
    BY <1>1 DEF Range
  <2> QED BY <1>1, <2>1
<1>4. s \in Injection(1..Len(s), Range(s))
  BY <1>1, <1>3 DEF Injection, IsInjective
<1>5. s \in Surjection(1..Len(s), Range(s))
  BY <1>1, <1>3 DEF Surjection, Range
<1> QED BY <1>2, <1>4, <1>5, FS_Surjection

----------------------------------------------------------------------------
(* Where events and the sentinel are.                                      *)

(* A put leaves one element more, at the back.                              *)
LEMMA PutPlaces ==
    ASSUME TypeOK, NEW x \in Events \cup {Sentinel}, queue' = Append(queue, x),
           IsInjective(queue), x \notin Range(queue)
    PROVE  IsInjective(queue') /\ Range(queue') = Range(queue) \cup {x}
BY InjectiveAppend, RangeAppend DEF TypeOK

(* A get takes the head out, and it is not there a second time.             *)
LEMMA GetPlaces ==
    ASSUME TypeOK, queue # <<>>, queue' = Tail(queue), IsInjective(queue)
    PROVE  /\ IsInjective(queue')
           /\ Head(queue) \notin Range(queue')
           /\ Head(queue) \in Events \cup {Sentinel}
           /\ Range(queue) = Range(queue') \cup {Head(queue)}
BY InjectiveTail, RangeTail DEF TypeOK

(* The steps that empty the worker's hand or leave every place as it is.    *)
LEMMA HandEmptied ==
    ASSUME PlaceInv, batch' = <<>>, UNCHANGED <<unsent, pending, queue, durable, draining, owner>>,
           wpc' \in {"get", "stopped"}
    PROVE  PlaceInv'
<1>1. Range(batch') = {} /\ IsInjective(batch')
  BY DEF Range, IsInjective
<1> QED BY <1>1 DEF PlaceInv, NoDuplicates, Apart, OneSentinel, Queued

(* Every step of every thread keeps each event in one place.                *)
LEMMA PlaceStep == TypeOK /\ HandInv /\ PlaceInv /\ [Next]_vars => PlaceInv'
<1> SUFFICES ASSUME TypeOK, HandInv, PlaceInv, [Next]_vars PROVE PlaceInv'
  OBVIOUS
<1> USE DEF PlaceInv, NoDuplicates, Apart, OneSentinel
<1>0. /\ Crossings \subseteq Events /\ LaneChanges \subseteq Events
      /\ Sentinel \notin Events /\ NoEvent \notin Events
      /\ Range(batch) \subseteq Events /\ Range(durable) \subseteq Events
      /\ Range(queue) \subseteq Events \cup {Sentinel}
  BY EventsAssumption, RangeInSet DEF TypeOK, Events
<1>1. ASSUME NEW e \in Crossings, ReadDepth(e) PROVE PlaceInv'
  <2>1. /\ e \in unsent /\ unsent' = unsent \ {e} /\ pending' \in {pending, e}
        /\ UNCHANGED <<queue, batch, durable, wpc, draining, owner>>
    BY <1>1 DEF ReadDepth, workerVars, dbVars
  <2>2. e \notin Queued /\ e \notin Range(batch) /\ e \notin Range(durable)
    BY <2>1
  <2> QED BY <2>1, <2>2 DEF Queued
<1>2. ASSUME PutCrossing PROVE PlaceInv'
  <2>1. /\ pending # NoEvent /\ pending' = NoEvent /\ pending \in Events
        /\ UNCHANGED <<unsent, batch, durable, wpc, draining, owner>>
        /\ queue' = queue \/ queue' = Append(queue, pending)
    BY <1>0, <1>2 DEF PutCrossing, workerVars, dbVars, TypeOK
  <2>2. NoEvent \notin Range(batch) /\ NoEvent \notin Range(durable) /\ NoEvent \notin unsent
    BY <1>0 DEF TypeOK
  <2>3. CASE queue' = queue
    BY <1>0, <2>1, <2>2, <2>3, EventsAssumption DEF Queued
  <2>4. CASE queue' = Append(queue, pending)
    <3>1. pending \notin Range(queue)
      BY <1>0, <2>1 DEF Queued
    <3>2. IsInjective(queue') /\ Range(queue') = Range(queue) \cup {pending}
      BY <2>1, <2>4, <3>1, PutPlaces
    <3> QED BY <1>0, <2>1, <2>2, <3>2 DEF Queued
  <2> QED BY <2>1, <2>3, <2>4
<1>3. ASSUME NEW e \in LaneChanges, PutLaneChange(e) PROVE PlaceInv'
  <2>1. /\ e \in unsent /\ e \in Events /\ unsent' = unsent \ {e}
        /\ UNCHANGED <<pending, batch, durable, wpc, draining, owner>>
        /\ queue' = queue \/ queue' = Append(queue, e)
    BY <1>0, <1>3 DEF PutLaneChange, workerVars, dbVars
  <2>2. CASE queue' = queue
    BY <2>1, <2>2 DEF Queued
  <2>3. CASE queue' = Append(queue, e)
    <3>1. e \notin Range(queue)
      BY <1>0, <2>1 DEF Queued
    <3>2. IsInjective(queue') /\ Range(queue') = Range(queue) \cup {e}
      BY <2>1, <2>3, <3>1, PutPlaces
    <3> QED BY <1>0, <2>1, <3>2 DEF Queued
  <2> QED BY <2>1, <2>2, <2>3
<1>4. ASSUME Stop \/ Resignal PROVE PlaceInv'
  <2>1. /\ Sentinel \notin Range(queue) /\ owner' = "joining"
        /\ wpc' = IF wpc = "resignal" THEN "insert" ELSE wpc
        /\ wpc = "resignal" => ~draining
        /\ UNCHANGED <<unsent, pending, batch, durable>>
        /\ queue' = queue \/ queue' = Append(queue, Sentinel)
    BY <1>4 DEF Stop, Resignal, producerVars, workerVars, dbVars, outcomeVars, TypeOK
  <2>2. draining' = draining /\ ~draining
    BY <1>4 DEF Stop, Resignal, workerVars
  <2>3. wpc' = "publish" <=> wpc = "publish"
    BY <2>1
  <2>4. IsInjective(queue') /\ Queued' = Queued
    BY <2>1, PutPlaces DEF Queued
  <2>5. wpc' # "resignal"
    BY <1>4, <2>1, <2>2 DEF Stop, Resignal, workerVars
  <2> QED BY <2>1, <2>2, <2>3, <2>4, <2>5
<1>5. ASSUME Take \/ CollectItem \/ DrainItem PROVE PlaceInv'
  <2>1. /\ queue # <<>> /\ queue' = Tail(queue) /\ wpc \in {"get", "collect", "drain"}
        /\ UNCHANGED <<unsent, pending, durable, owner>>
    BY <1>5 DEF Take, CollectItem, DrainItem, producerVars, dbVars
  <2>2. /\ IsInjective(queue') /\ Head(queue) \notin Range(queue')
        /\ Head(queue) \in Events \cup {Sentinel}
        /\ Range(queue) = Range(queue') \cup {Head(queue)}
    BY <2>1, GetPlaces
  <2>3. CASE Head(queue) = Sentinel
    <3>1. /\ batch' = batch /\ Queued' = Queued /\ Sentinel \notin Range(queue')
          /\ owner = "joining" /\ ~draining /\ wpc # "drain"
          /\ \/ wpc' = "drain" /\ draining'
             \/ wpc' = "resignal" /\ draining' = draining
      BY <1>5, <2>1, <2>2, <2>3 DEF Take, CollectItem, DrainItem, Queued
    <3> QED BY <2>1, <2>2, <3>1
  <2>4. CASE Head(queue) # Sentinel
    <3>1. /\ Head(queue) \in Queued /\ Queued' = Queued \ {Head(queue)}
          /\ Sentinel \in Range(queue') => Sentinel \in Range(queue)
      BY <2>2, <2>4 DEF Queued
    <3>2. IsInjective(batch') /\ Range(batch') = Range(batch) \cup {Head(queue)}
      <4>1. CASE Take
        <5>1. batch = <<>> /\ batch' = <<Head(queue)>>
          BY <2>4, <4>1 DEF Take, HandInv, EmptyHanded
        <5> QED BY <5>1 DEF Range, IsInjective
      <4>2. CASE CollectItem \/ DrainItem
        <5>1. batch' = Append(batch, Head(queue)) /\ batch \in Seq(Events)
          BY <2>4, <4>2 DEF CollectItem, DrainItem, TypeOK
        <5>2. Head(queue) \in Events /\ Head(queue) \notin Range(batch)
          BY <2>2, <2>4, <3>1
        <5> QED BY <5>1, <5>2, InjectiveAppend, RangeAppend
      <4> QED BY <1>5, <4>1, <4>2
    <3>3. draining' = draining /\ wpc' \in {"ensure", "collect", "drain"}
          /\ (wpc' = "collect" => wpc = "collect") /\ (wpc' = "drain" => wpc = "drain")
      BY <1>5, <2>1, <2>4 DEF Take, CollectItem, DrainItem
    <3> QED BY <2>1, <2>2, <3>1, <3>2, <3>3
  <2> QED BY <2>3, <2>4
<1>6. ASSUME EnsureAdapter \/ CollectEnds \/ Insert \/ DrainEnds \/ SkipDatabase \/ CommitLocked
      PROVE  PlaceInv'
  <2>1. /\ UNCHANGED <<unsent, pending, queue, batch, durable, draining, owner>>
        /\ wpc' \notin {"resignal", "drain"} /\ (wpc' = "collect" => ~draining)
        /\ wpc # "publish"
    BY <1>6 DEF EnsureAdapter, CollectEnds, Insert, DrainEnds, SkipDatabase, CommitLocked,
                producerVars, dbVars, workerVars
  <2>2. NoDuplicates' /\ Apart'
    BY <2>1 DEF Queued
  <2>3. OneSentinel'
    BY <2>1
  <2> QED BY <2>2, <2>3
<1>7. ASSUME AdapterFails PROVE PlaceInv'
  <2>1. /\ UNCHANGED <<unsent, pending, queue, durable, draining, owner>>
        /\ wpc' \in {"get", "stopped"} /\ wpc = "ensure"
        /\ batch' = batch \/ batch' = <<>>
    BY <1>7 DEF AdapterFails, producerVars, dbVars
  <2>2. CASE batch' = batch
    BY <2>1, <2>2 DEF Queued
  <2>3. CASE batch' = <<>>
    BY <2>1, <2>3, HandEmptied
  <2> QED BY <2>1, <2>2, <2>3
<1>8. ASSUME RejectSingle \/ InsertFails \/ CommitFails \/ Publish \/ PublishRaises
      PROVE  PlaceInv'
  <2>1. /\ UNCHANGED <<unsent, pending, queue, durable, draining, owner>>
        /\ wpc' \in {"get", "stopped"} /\ batch' = <<>>
    BY <1>8 DEF RejectSingle, InsertFails, CommitFails, Publish, PublishRaises, FinishBatch,
                FailBatch, AfterBatch, producerVars, dbVars
  <2> QED BY <2>1, HandEmptied
<1>9. ASSUME Commit PROVE PlaceInv'
  <2>1. /\ UNCHANGED <<unsent, pending, queue, batch, draining, owner>>
        /\ wpc = "commit" /\ wpc' = "publish"
        /\ durable' = durable \/ durable' = durable \o batch
    BY <1>9 DEF Commit, producerVars
  <2>2. IsInjective(durable') /\ Range(durable') \subseteq Range(durable) \cup Range(batch)
    <3>1. /\ durable \in Seq(Events) /\ batch \in Seq(Events)
          /\ Range(durable) \cap Range(batch) = {}
          /\ IsInjective(durable) /\ IsInjective(batch)
      BY <2>1 DEF TypeOK
    <3>2. IsInjective(durable \o batch) /\ Range(durable \o batch) = Range(durable) \cup Range(batch)
      BY <3>1, InjectiveConcat, RangeConcat
    <3> QED BY <2>1, <3>1, <3>2
  <2>3. NoDuplicates' /\ OneSentinel'
    BY <2>1, <2>2
  <2>4. Queued' = Queued
    BY <2>1 DEF Queued
  <2>5. Apart'
    BY <2>1, <2>2, <2>4
  <2> QED BY <2>3, <2>5
<1>10. CASE UNCHANGED vars
  BY <1>10 DEF vars, producerVars, workerVars, dbVars, outcomeVars, Queued
<1> QED
  BY <1>1, <1>2, <1>3, <1>4, <1>5, <1>6, <1>7, <1>8, <1>9, <1>10 DEF Next, Producer, Worker

(* The places of events and sentinel, throughout.                           *)
THEOREM EachInOnePlace == Spec => []PlaceInv
<1>1. Init => PlaceInv
  <2>1. Range(<<>>) = {} /\ IsInjective(<<>>)
    BY DEF Range, IsInjective
  <2> QED BY <2>1, EventsAssumption
        DEF Init, PlaceInv, NoDuplicates, Apart, OneSentinel, Queued
<1> QED BY <1>1, PlaceStep, TypeCorrect, BatchInHand, PTL DEF Spec

(* A single item reaches the adapter check of the loop: only the drain takes *)
(* a list there.                                                            *)
LEMMA TakenStep ==
    OneSentinel /\ OneTaken /\ [Next]_vars => OneTaken'
<1> SUFFICES ASSUME OneSentinel, OneTaken, [Next]_vars, wpc' = "ensure", ~draining'
             PROVE  Len(batch') = 1
  BY DEF OneTaken
<1>1. CASE Take
  <2>1. batch' = <<Head(queue)>>
    BY <1>1 DEF Take
  <2> QED BY <2>1
<1>2. CASE DrainEnds \/ DrainItem
  BY <1>2 DEF DrainEnds, DrainItem, OneSentinel
<1>3. CASE ~(Take \/ DrainEnds \/ DrainItem)
  <2>1. wpc = "ensure" /\ draining' = draining /\ batch' = batch
    BY <1>3 DEF Next, Producer, Worker, ReadDepth, PutCrossing, PutLaneChange, Stop,
         EnsureAdapter, AdapterFails, CollectItem, CollectEnds, Resignal,
         Insert, SkipDatabase, RejectSingle, InsertFails, Commit, CommitLocked,
         CommitFails, Publish, PublishRaises, FailBatch, FinishBatch, AfterBatch,
         vars, workerVars
  <2> QED BY <2>1 DEF OneTaken
<1> QED BY <1>1, <1>2, <1>3

(* OneTaken throughout.                                                     *)
THEOREM TakenAlone == Spec => []OneTaken
<1>1. Init => OneTaken
  BY DEF Init, OneTaken
<1>2. PlaceInv => OneSentinel
  BY DEF PlaceInv
<1> QED BY <1>1, <1>2, TakenStep, EachInOnePlace, PTL DEF Spec

(* StoredOnce for every set of events and all limits: no failure after a    *)
(* commit, no retry and no drain makes _process_batch store a row twice.    *)
THEOREM EachStoredOnce == Spec => []StoredOnce
<1>1. PlaceInv => StoredOnce
  BY DEF PlaceInv, NoDuplicates, Apart, StoredOnce
<1> QED BY <1>1, EachInOnePlace, PTL

----------------------------------------------------------------------------
(* The counters.                                                           *)

Offered == Cardinality(Accepted)
Waiting == Cardinality(Queued)
Held    == Len(batch)
InHand  == IF pending = NoEvent THEN 0 ELSE 1

Balanced ==
    /\ IsFiniteSet(Accepted)
    /\ Offered = dropped + processed + errors + Held + Waiting + InHand

(* A queue holds what its length says, but for the sentinel.                *)
LEMMA QueuedCount ==
    ASSUME NEW q \in Seq(Events \cup {Sentinel}), IsInjective(q)
    PROVE  /\ Len(q) \in Nat
           /\ Cardinality(Range(q) \ {Sentinel}) \in Nat
           /\ Cardinality(Range(q) \ {Sentinel}) =
                 IF Sentinel \in Range(q) THEN Len(q) - 1 ELSE Len(q)
<1>1. IsFiniteSet(Range(q)) /\ Cardinality(Range(q)) = Len(q) /\ Len(q) \in Nat
  BY InjectiveCardinality, LenProperties
<1>2. /\ IsFiniteSet(Range(q) \ {Sentinel})
      /\ Cardinality(Range(q) \ {Sentinel}) =
            IF Sentinel \in Range(q) THEN Len(q) - 1 ELSE Len(q)
  BY <1>1, FS_RemoveElement
<1>3. Cardinality(Range(q) \ {Sentinel}) \in Nat
  BY <1>2, FS_CardinalityType
<1> QED BY <1>1, <1>2, <1>3

(* One more event accepted is one more to account for.                      *)
LEMMA AcceptCounts ==
    ASSUME IsFiniteSet(Accepted), NEW e \in unsent, unsent' = unsent \ {e}, e \in Events
    PROVE  IsFiniteSet(Accepted') /\ Offered' = Offered + 1
<1>1. Accepted' = Accepted \cup {e} /\ e \notin Accepted
  BY DEF Accepted
<1> QED BY <1>1, FS_AddElement DEF Offered

(* A put makes one more in the queue; so does the sentinel, which is not    *)
(* counted.                                                                 *)
LEMMA PutCounts ==
    ASSUME TypeOK, PlaceInv, NEW x \in Events \cup {Sentinel},
           queue' = Append(queue, x), x \notin Range(queue)
    PROVE  Waiting' = IF x = Sentinel THEN Waiting ELSE Waiting + 1
<1>0. queue \in Seq(Events \cup {Sentinel}) /\ IsInjective(queue)
  BY DEF TypeOK, PlaceInv, NoDuplicates
<1>1. /\ Len(queue') = Len(queue) + 1 /\ Range(queue') = Range(queue) \cup {x}
      /\ queue' \in Seq(Events \cup {Sentinel})
  BY <1>0, AppendProperties, RangeAppend
<1>2. IsInjective(queue')
  BY <1>0, InjectiveAppend
<1>3. /\ Len(queue) \in Nat
      /\ Waiting = IF Sentinel \in Range(queue) THEN Len(queue) - 1 ELSE Len(queue)
  BY <1>0, QueuedCount DEF Queued, Waiting
<1>4. Waiting' = IF Sentinel \in Range(queue') THEN Len(queue') - 1 ELSE Len(queue')
  BY <1>1, <1>2, QueuedCount DEF Queued, Waiting
<1>5. CASE x = Sentinel
  BY <1>1, <1>3, <1>4, <1>5
<1>6. CASE x # Sentinel
  <2>1. Sentinel \in Range(queue') <=> Sentinel \in Range(queue)
    BY <1>1, <1>6
  <2> QED BY <1>1, <1>3, <1>4, <1>6, <2>1
<1> QED BY <1>5, <1>6

(* A get makes one less, unless it is the sentinel that comes.              *)
LEMMA GetCounts ==
    ASSUME TypeOK, PlaceInv, queue # <<>>, queue' = Tail(queue)
    PROVE  Waiting' = IF Head(queue) = Sentinel THEN Waiting ELSE Waiting - 1
<1>0. queue \in Seq(Events \cup {Sentinel}) /\ IsInjective(queue)
  BY DEF TypeOK, PlaceInv, NoDuplicates
<1>1. /\ Len(queue') = Len(queue) - 1 /\ queue' \in Seq(Events \cup {Sentinel})
  BY <1>0, HeadTailProperties
<1>2. /\ IsInjective(queue') /\ Head(queue) \notin Range(queue')
      /\ Range(queue) = Range(queue') \cup {Head(queue)}
  BY <1>0, GetPlaces
<1>3. /\ Len(queue) \in Nat
      /\ Waiting = IF Sentinel \in Range(queue) THEN Len(queue) - 1 ELSE Len(queue)
  BY <1>0, QueuedCount DEF Queued, Waiting
<1>4. Waiting' = IF Sentinel \in Range(queue') THEN Len(queue') - 1 ELSE Len(queue')
  BY <1>1, <1>2, QueuedCount DEF Queued, Waiting
<1>5. CASE Head(queue) = Sentinel
  <2>1. Sentinel \in Range(queue) /\ Sentinel \notin Range(queue')
    BY <1>2, <1>5
  <2> QED BY <1>1, <1>3, <1>4, <1>5, <2>1
<1>6. CASE Head(queue) # Sentinel
  <2>1. Sentinel \in Range(queue') <=> Sentinel \in Range(queue)
    BY <1>2, <1>6
  <2>2. CASE Sentinel \in Range(queue)
    BY <1>1, <1>3, <1>4, <1>6, <2>1, <2>2
  <2>3. CASE Sentinel \notin Range(queue)
    <3>1. Waiting = Len(queue) /\ Waiting' = Len(queue')
      BY <1>1, <1>3, <1>4, <2>1, <2>3
    <3> QED BY <1>1, <1>6, <3>1
  <2> QED BY <2>2, <2>3
<1> QED BY <1>5, <1>6

(* One step of any thread keeps the sum.                                    *)
LEMMA CountStep ==
    TypeOK /\ HandInv /\ PlaceInv /\ OneTaken /\ Balanced /\ [Next]_vars => Balanced'
<1> SUFFICES ASSUME TypeOK, HandInv, PlaceInv, OneTaken, Balanced, [Next]_vars
             PROVE  Balanced'
  OBVIOUS
<1>0. /\ Crossings \subseteq Events /\ LaneChanges \subseteq Events
      /\ Sentinel \notin Events /\ NoEvent \notin Events
      /\ queue \in Seq(Events \cup {Sentinel}) /\ batch \in Seq(Events)
  BY EventsAssumption DEF TypeOK, Events
<1>s. /\ dropped \in Nat /\ processed \in Nat /\ errors \in Nat
      /\ Held \in Nat /\ Waiting \in Nat /\ InHand \in Nat
      /\ IsFiniteSet(Accepted)
      /\ Offered = dropped + processed + errors + Held + Waiting + InHand
  <2>1. Waiting \in Nat /\ Held \in Nat
    BY <1>0, QueuedCount, LenProperties DEF PlaceInv, NoDuplicates, Queued, Waiting, Held
  <2> QED BY <2>1 DEF TypeOK, Balanced, InHand
<1>1. ASSUME NEW e \in Crossings, ReadDepth(e)
      PROVE  Balanced'
  <2>1. /\ e \in unsent /\ unsent' = unsent \ {e} /\ pending = NoEvent /\ e # NoEvent
        /\ UNCHANGED <<queue, batch, processed, errors>>
    BY <1>0, <1>1 DEF ReadDepth, workerVars
  <2>2. IsFiniteSet(Accepted') /\ Offered' = Offered + 1
    BY <1>0, <1>s, <2>1, AcceptCounts
  <2>3. Waiting' = Waiting /\ Held' = Held
    BY <2>1 DEF Queued, Waiting, Held
  <2>4. CASE Len(queue) >= QCrit
    <3>1. dropped' = dropped + 1 /\ InHand' = InHand
      BY <1>1, <2>4 DEF ReadDepth, Refuse, InHand
    <3> QED BY <1>s, <2>1, <2>2, <2>3, <3>1 DEF Balanced
  <2>5. CASE ~(Len(queue) >= QCrit)
    <3>1. dropped' = dropped /\ InHand' = InHand + 1
      BY <1>1, <2>1, <2>5 DEF ReadDepth, InHand
    <3> QED BY <1>s, <2>1, <2>2, <2>3, <3>1 DEF Balanced
  <2> QED BY <2>4, <2>5
<1>2. ASSUME PutCrossing
      PROVE  Balanced'
  <2>1. /\ pending \in Events /\ pending # NoEvent /\ pending' = NoEvent
        /\ UNCHANGED <<unsent, batch, processed, errors>>
        /\ \/ queue' = Append(queue, pending) /\ dropped' = dropped
           \/ queue' = queue /\ dropped' = dropped + 1
    BY <1>0, <1>2 DEF PutCrossing, workerVars, TypeOK, Refuse
  <2>2. pending \notin Range(queue) /\ pending # Sentinel
    BY <1>0, <2>1 DEF PlaceInv, Apart, Queued
  <2>3. /\ Accepted' = Accepted /\ Offered' = Offered /\ Held' = Held
        /\ InHand' = InHand - 1
    BY <2>1 DEF Accepted, Offered, Held, InHand
  <2>4. CASE queue' = queue /\ dropped' = dropped + 1
    <3>1. Waiting' = Waiting
      BY <2>4 DEF Queued, Waiting
    <3> QED BY <1>s, <2>1, <2>3, <2>4, <3>1 DEF Balanced
  <2>5. CASE queue' = Append(queue, pending) /\ dropped' = dropped
    <3>1. Waiting' = Waiting + 1
      BY <2>1, <2>2, <2>5, PutCounts
    <3> QED BY <1>s, <2>1, <2>3, <2>5, <3>1 DEF Balanced
  <2> QED BY <2>1, <2>4, <2>5
<1>3. ASSUME NEW e \in LaneChanges, PutLaneChange(e)
      PROVE  Balanced'
  <2>1. /\ e \in unsent /\ unsent' = unsent \ {e} /\ e \in Events
        /\ UNCHANGED <<pending, batch, processed, errors>>
        /\ \/ queue' = Append(queue, e) /\ dropped' = dropped
           \/ queue' = queue /\ dropped' = dropped + 1
    BY <1>0, <1>3 DEF PutLaneChange, workerVars, Refuse
  <2>2. e \notin Range(queue) /\ e # Sentinel
    BY <1>0, <2>1 DEF PlaceInv, Apart, Queued
  <2>3. IsFiniteSet(Accepted') /\ Offered' = Offered + 1
    BY <1>s, <2>1, AcceptCounts
  <2>4. Held' = Held /\ InHand' = InHand
    BY <2>1 DEF Held, InHand
  <2>5. CASE queue' = queue /\ dropped' = dropped + 1
    <3>1. Waiting' = Waiting
      BY <2>5 DEF Queued, Waiting
    <3> QED BY <1>s, <2>1, <2>3, <2>4, <2>5, <3>1 DEF Balanced
  <2>6. CASE queue' = Append(queue, e) /\ dropped' = dropped
    <3>1. Waiting' = Waiting + 1
      BY <2>1, <2>2, <2>6, PutCounts
    <3> QED BY <1>s, <2>1, <2>3, <2>4, <2>6, <3>1 DEF Balanced
  <2> QED BY <2>1, <2>5, <2>6
<1>4. ASSUME Stop \/ Resignal
      PROVE  Balanced'
  <2>1. /\ UNCHANGED <<unsent, pending, batch, dropped, processed, errors>>
        /\ queue' = queue \/ queue' = Append(queue, Sentinel)
        /\ Sentinel \notin Range(queue)
    BY <1>4 DEF Stop, Resignal, producerVars, workerVars, outcomeVars, PlaceInv, OneSentinel
  <2>2. /\ Accepted' = Accepted /\ Offered' = Offered
        /\ Held' = Held /\ InHand' = InHand
    BY <2>1 DEF Accepted, Offered, Held, InHand
  <2>3. Waiting' = Waiting
    <3>1. CASE queue' = queue
      BY <3>1 DEF Queued, Waiting
    <3>2. CASE queue' = Append(queue, Sentinel)
      BY <1>0, <2>1, <3>2, PutCounts
    <3> QED BY <2>1, <3>1, <3>2
  <2> QED BY <1>s, <2>1, <2>2, <2>3 DEF Balanced
<1>5. ASSUME Take \/ CollectItem \/ DrainItem
      PROVE  Balanced'
  <2>1. /\ queue # <<>> /\ queue' = Tail(queue)
        /\ UNCHANGED <<unsent, pending, dropped, processed, errors>>
    BY <1>5 DEF Take, CollectItem, DrainItem, producerVars, outcomeVars
  <2>2. Accepted' = Accepted /\ Offered' = Offered /\ InHand' = InHand
    BY <2>1 DEF Accepted, Offered, InHand
  <2>3. CASE Head(queue) = Sentinel
    <3>1. Waiting' = Waiting
      BY <2>1, <2>3, GetCounts
    <3>2. Held' = Held
      BY <1>5, <2>3 DEF Take, CollectItem, DrainItem, Held
    <3> QED BY <1>s, <2>1, <2>2, <3>1, <3>2 DEF Balanced
  <2>4. CASE Head(queue) # Sentinel
    <3>1. Waiting' = Waiting - 1
      BY <2>1, <2>4, GetCounts
    <3>2. Held' = Held + 1
      <4>1. CASE Take
        <5>1. batch = <<>> /\ batch' = <<Head(queue)>>
          BY <2>4, <4>1 DEF Take, HandInv, EmptyHanded
        <5> QED BY <5>1 DEF Held
      <4>2. CASE CollectItem \/ DrainItem
        <5>1. batch' = Append(batch, Head(queue))
          BY <2>4, <4>2 DEF CollectItem, DrainItem
        <5>2. Head(queue) \in Events
          BY <2>1, <2>4, GetPlaces DEF PlaceInv, NoDuplicates
        <5> QED BY <1>0, <5>1, <5>2, AppendProperties DEF Held
      <4> QED BY <1>5, <4>1, <4>2
    <3> QED BY <1>s, <2>1, <2>2, <3>1, <3>2 DEF Balanced
  <2> QED BY <2>3, <2>4
<1>6. ASSUME AdapterFails \/ RejectSingle \/ InsertFails \/ CommitFails \/ Publish \/ PublishRaises
      PROVE  Balanced'
  <2>1. UNCHANGED <<unsent, pending, queue, dropped>>
    BY <1>6 DEF AdapterFails, RejectSingle, InsertFails, CommitFails, Publish, PublishRaises,
                FailBatch, producerVars
  <2>2. /\ Accepted' = Accepted /\ Offered' = Offered
        /\ Waiting' = Waiting /\ InHand' = InHand
    BY <2>1 DEF Accepted, Offered, Queued, Waiting, InHand
  <2>3. \/ processed' = processed + Held /\ errors' = errors /\ Held' = 0
        \/ processed' = processed /\ errors' = errors + Held /\ Held' = 0
        \/ processed' = processed /\ errors' = errors /\ Held' = Held
    <3>1. CASE ~AdapterFails
      <4>1. /\ batch' = <<>>
            /\ \/ processed' = processed + Len(batch) /\ errors' = errors
               \/ processed' = processed /\ errors' = errors + Len(batch)
        BY <1>6, <3>1 DEF RejectSingle, InsertFails, CommitFails, Publish, PublishRaises,
                          FailBatch, FinishBatch
      <4> QED BY <4>1 DEF Held
    <3>2. CASE AdapterFails
      <4>1. CASE draining
        BY <3>2, <4>1 DEF AdapterFails, Held
      <4>2. CASE ~draining
        <5>1. /\ batch' = <<>> /\ errors' = errors + 1 /\ processed' = processed
              /\ Len(batch) = 1
          BY <3>2, <4>2 DEF AdapterFails, OneTaken
        <5> QED BY <5>1 DEF Held
      <4> QED BY <4>1, <4>2
    <3> QED BY <3>1, <3>2
  <2>4. CASE processed' = processed + Held /\ errors' = errors /\ Held' = 0
    BY <1>s, <2>1, <2>2, <2>4 DEF Balanced
  <2>5. CASE processed' = processed /\ errors' = errors + Held /\ Held' = 0
    BY <1>s, <2>1, <2>2, <2>5 DEF Balanced
  <2>6. CASE processed' = processed /\ errors' = errors /\ Held' = Held
    BY <1>s, <2>1, <2>2, <2>6 DEF Balanced
  <2> QED BY <2>3, <2>4, <2>5, <2>6
<1>7. ASSUME EnsureAdapter \/ CollectEnds \/ Insert \/ DrainEnds \/ SkipDatabase
             \/ Commit \/ CommitLocked \/ UNCHANGED vars
      PROVE  Balanced'
  <2>1. UNCHANGED <<unsent, pending, queue, batch, dropped, processed, errors>>
    BY <1>7 DEF EnsureAdapter, CollectEnds, Insert, DrainEnds, SkipDatabase, Commit,
                CommitLocked, vars, producerVars, workerVars, outcomeVars
  <2>2. /\ Accepted' = Accepted /\ Offered' = Offered /\ Held' = Held
        /\ Waiting' = Waiting /\ InHand' = InHand
    BY <2>1 DEF Accepted, Offered, Held, Queued, Waiting, InHand
  <2> QED BY <1>s, <2>1, <2>2 DEF Balanced
<1> QED
  BY <1>1, <1>2, <1>3, <1>4, <1>5, <1>6, <1>7 DEF Next, Producer, Worker

(* CountersAddUp for every set of events and all limits: whichever way a    *)
(* batch ends, dropped_events, total_processed and total_errors account for *)
(* every event offered and no longer on its way.                            *)
THEOREM NothingCountedTwice == Spec => []CountersAddUp
<1>1. Init => Balanced
  <2> SUFFICES ASSUME Init PROVE Balanced
    OBVIOUS
  <2>1. Accepted = {} /\ Queued = {} /\ Len(batch) = 0
    BY DEF Init, Accepted, Queued, Range
  <2>2. Offered = 0 /\ Waiting = 0 /\ Held = 0 /\ InHand = 0 /\ IsFiniteSet(Accepted)
    BY <2>1, FS_EmptySet DEF Init, Offered, Waiting, Held, InHand
  <2> QED BY <2>2 DEF Init, Balanced
<1>2. Balanced => CountersAddUp
  BY DEF Balanced, CountersAddUp, Offered, Waiting, Held, InHand
<1>3. Spec => []Balanced
  BY <1>1, CountStep, TypeCorrect, BatchInHand, EachInOnePlace, TakenAlone, PTL DEF Spec
<1> QED BY <1>2, <1>3, PTL

----------------------------------------------------------------------------
(* What stop() can rely on.                                                *)

(* What a get takes out of the queue for the depth: the sentinel, which did *)
(* not count, or one event.                                                 *)
LEMMA GetDepth ==
    ASSUME TypeOK, queue # <<>>, queue' = Tail(queue), IsInjective(queue)
    PROVE  /\ Len(queue') = Len(queue) - 1
           /\ Sentinel \in Range(queue') <=> Sentinel \in Range(queue) /\ Head(queue) # Sentinel
<1>1. Len(queue') = Len(queue) - 1
  BY RangeTail DEF TypeOK
<1> QED BY <1>1, GetPlaces

(* A put that happens lengthens the queue by one.                           *)
LEMMA PutDepth ==
    ASSUME TypeOK, NEW x \in Events \cup {Sentinel}, queue' = Append(queue, x)
    PROVE  Len(queue') = Len(queue) + 1 /\ Range(queue') = Range(queue) \cup {x}
BY RangeAppend DEF TypeOK

(* Every step keeps the crossings within the critical depth.                *)
LEMMA DepthStep ==
    TypeOK /\ PlaceInv /\ CrossingsWithinDepth /\ [Next]_vars => CrossingsWithinDepth'
<1> SUFFICES ASSUME TypeOK, PlaceInv, CrossingsWithinDepth, [Next]_vars,
                    LaneChanges \subseteq unsent'
             PROVE  Len(queue') + (IF pending' = NoEvent THEN 0 ELSE 1)
                        <= QCrit + (IF Sentinel \in Range(queue') THEN 1 ELSE 0)
  BY DEF CrossingsWithinDepth
<1> DEFINE Goal == Len(queue') + (IF pending' = NoEvent THEN 0 ELSE 1)
                       <= QCrit + (IF Sentinel \in Range(queue') THEN 1 ELSE 0)
<1>0. /\ Len(queue) \in Nat /\ QCrit \in Nat \ {0} /\ IsInjective(queue)
      /\ Crossings \subseteq Events /\ LaneChanges \subseteq Events
      /\ Sentinel \notin Events /\ NoEvent \notin Events
  BY EventsAssumption, BoundsAssumption DEF TypeOK, Events, PlaceInv, NoDuplicates
<1>c. ASSUME LaneChanges \subseteq unsent
      PROVE  Len(queue) + (IF pending = NoEvent THEN 0 ELSE 1)
                 <= QCrit + (IF Sentinel \in Range(queue) THEN 1 ELSE 0)
  BY <1>c DEF CrossingsWithinDepth
<1>1. ASSUME NEW e \in Crossings, ReadDepth(e) PROVE Goal
  <2>1. /\ LaneChanges \subseteq unsent /\ queue' = queue /\ pending = NoEvent
        /\ IF Len(queue) >= QCrit THEN pending' = pending ELSE pending' = e
    BY <1>1 DEF ReadDepth
  <2>2. CASE Len(queue) >= QCrit
    BY <1>c, <2>1, <2>2
  <2>3. CASE ~(Len(queue) >= QCrit)
    <3>1. Len(queue) + 1 <= QCrit
      BY <1>0, <2>3
    <3> QED BY <1>0, <2>1, <3>1
  <2> QED BY <2>2, <2>3
<1>2. ASSUME PutCrossing PROVE Goal
  <2>1. /\ LaneChanges \subseteq unsent /\ pending # NoEvent /\ pending' = NoEvent
        /\ pending \in Events
        /\ queue' = queue \/ queue' = Append(queue, pending)
    BY <1>0, <1>2 DEF PutCrossing, TypeOK
  <2>2. CASE queue' = queue
    BY <1>0, <1>c, <2>1, <2>2
  <2>3. CASE queue' = Append(queue, pending)
    <3>1. Len(queue') = Len(queue) + 1 /\ Range(queue') = Range(queue) \cup {pending}
      BY <2>1, <2>3, PutDepth
    <3>2. Sentinel \in Range(queue') <=> Sentinel \in Range(queue)
      BY <1>0, <2>1, <3>1
    <3> QED BY <1>0, <1>c, <2>1, <3>1, <3>2
  <2> QED BY <2>1, <2>2, <2>3
<1>3. ASSUME NEW e \in LaneChanges, PutLaneChange(e) PROVE Goal
  BY <1>3 DEF PutLaneChange
<1>4. ASSUME Stop \/ Resignal PROVE Goal
  <2>1. /\ LaneChanges \subseteq unsent /\ pending' = pending
        /\ Sentinel \notin Range(queue)
        /\ queue' = queue \/ queue' = Append(queue, Sentinel)
    BY <1>4 DEF Stop, Resignal, producerVars, PlaceInv, OneSentinel
  <2>2. CASE queue' = queue
    BY <1>c, <2>1, <2>2
  <2>3. CASE queue' = Append(queue, Sentinel)
    <3>1. Len(queue') = Len(queue) + 1 /\ Sentinel \in Range(queue')
      BY <2>3, PutDepth
    <3> QED BY <1>0, <1>c, <2>1, <3>1
  <2> QED BY <2>1, <2>2, <2>3
<1>5. ASSUME Take \/ CollectItem \/ DrainItem PROVE Goal
  <2>1. /\ LaneChanges \subseteq unsent /\ pending' = pending
        /\ queue # <<>> /\ queue' = Tail(queue)
    BY <1>5 DEF Take, CollectItem, DrainItem, producerVars
  <2>2. /\ Len(queue') = Len(queue) - 1
        /\ Sentinel \in Range(queue') <=> Sentinel \in Range(queue) /\ Head(queue) # Sentinel
    BY <1>0, <2>1, GetDepth
  <2> QED BY <1>0, <1>c, <2>1, <2>2
<1>6. CASE (Worker /\ ~(Resignal \/ Take \/ CollectItem \/ DrainItem)) \/ UNCHANGED vars
  <2>1. UNCHANGED <<unsent, pending, queue>>
    BY <1>6 DEF Worker, EnsureAdapter, AdapterFails, CollectEnds, Insert, SkipDatabase,
         RejectSingle, InsertFails, Commit, CommitLocked, CommitFails, Publish,
         PublishRaises, FailBatch, DrainEnds, producerVars, vars
  <2> QED BY <1>c, <2>1
<1> QED BY <1>1, <1>2, <1>3, <1>4, <1>5, <1>6 DEF Next, Producer

(* CrossingsWithinDepth throughout.                                         *)
THEOREM DepthHoldsCrossings == Spec => []CrossingsWithinDepth
<1>1. Init => CrossingsWithinDepth
  <2> SUFFICES ASSUME Init PROVE CrossingsWithinDepth
    OBVIOUS
  <2>1. Len(queue) = 0 /\ pending = NoEvent /\ ~(Sentinel \in Range(queue))
    BY DEF Init, Range
  <2> QED BY <2>1, BoundsAssumption DEF CrossingsWithinDepth
<1> QED BY <1>1, DepthStep, TypeCorrect, EachInOnePlace, PTL DEF Spec

(* A queue of crossings without the sentinel has room for it.               *)
LEMMA SentinelFits ==
    ASSUME TypeOK, CrossingsWithinDepth, QCrit < QMax, LaneChanges \subseteq unsent,
           Sentinel \notin Range(queue)
    PROVE  HasRoom
<1>1. Len(queue) \in Nat /\ QCrit \in Nat /\ QMax \in Nat
  BY BoundsAssumption DEF TypeOK
<1> QED BY <1>1 DEF CrossingsWithinDepth, HasRoom

(* Every step of every thread leaves the stop signal where the worker will  *)
(* meet it.                                                                 *)
LEMMA StopStep ==
    TypeOK /\ PlaceInv /\ CrossingsWithinDepth /\ StopReachesWorker /\ [Next]_vars
        => StopReachesWorker'
<1> SUFFICES ASSUME TypeOK, PlaceInv, CrossingsWithinDepth, StopReachesWorker, [Next]_vars,
                    QCrit < QMax, LaneChanges \subseteq unsent', owner' = "joining"
             PROVE  draining' \/ wpc' = "resignal" \/ Sentinel \in Range(queue')
  BY DEF StopReachesWorker
<1> DEFINE Goal == draining' \/ wpc' = "resignal" \/ Sentinel \in Range(queue')
<1>c. ASSUME LaneChanges \subseteq unsent, owner = "joining"
      PROVE  draining \/ wpc = "resignal" \/ Sentinel \in Range(queue)
  BY <1>c DEF StopReachesWorker
<1>1. ASSUME Stop \/ Resignal PROVE Goal
  <2>1. LaneChanges \subseteq unsent /\ Sentinel \notin Range(queue)
    BY <1>1 DEF Stop, Resignal, producerVars, PlaceInv, OneSentinel
  <2>2. queue' = Append(queue, Sentinel)
    BY <1>1, <2>1, SentinelFits DEF Stop, Resignal
  <2> QED BY <2>2, PutDepth
<1>2. ASSUME Take \/ CollectItem \/ DrainItem PROVE Goal
  <2>1. /\ LaneChanges \subseteq unsent /\ owner = "joining"
        /\ queue # <<>> /\ queue' = Tail(queue) /\ wpc \in {"get", "collect", "drain"}
    BY <1>2 DEF Take, CollectItem, DrainItem, producerVars
  <2>2. Range(queue) = Range(queue') \cup {Head(queue)}
    BY <2>1, GetPlaces DEF PlaceInv, NoDuplicates
  <2>3. CASE Head(queue) = Sentinel
    BY <1>2, <2>3 DEF Take, CollectItem, DrainItem, PlaceInv, OneSentinel
  <2>4. CASE Head(queue) # Sentinel
    BY <1>2, <1>c, <2>1, <2>2, <2>4 DEF Take, CollectItem, DrainItem
  <2> QED BY <2>3, <2>4
<1>3. ASSUME PutCrossing PROVE Goal
  <2>1. /\ LaneChanges \subseteq unsent /\ owner = "joining" /\ UNCHANGED <<wpc, draining>>
        /\ pending \in Events
        /\ queue' = queue \/ queue' = Append(queue, pending)
    BY <1>3 DEF PutCrossing, workerVars, TypeOK, Events
  <2>2. Range(queue) \subseteq Range(queue')
    BY <2>1, PutDepth
  <2> QED BY <1>c, <2>1, <2>2
<1>4. ASSUME NEW e \in LaneChanges, PutLaneChange(e) PROVE Goal
  BY <1>4 DEF PutLaneChange
<1>5. ASSUME NEW e \in Crossings, ReadDepth(e) PROVE Goal
  <2>1. LaneChanges \subseteq unsent /\ UNCHANGED <<queue, wpc, draining, owner>>
    BY <1>5 DEF ReadDepth, workerVars
  <2> QED BY <1>c, <2>1
<1>6. CASE (Worker /\ ~(Resignal \/ Take \/ CollectItem \/ DrainItem)) \/ UNCHANGED vars
  <2>1. UNCHANGED <<unsent, queue, draining, owner>> /\ (wpc = "resignal" => wpc' = "resignal")
    BY <1>6 DEF Worker, EnsureAdapter, AdapterFails, CollectEnds, Insert, SkipDatabase,
         RejectSingle, InsertFails, Commit, CommitLocked, CommitFails, Publish,
         PublishRaises, FailBatch, DrainEnds, producerVars, workerVars, vars
  <2> QED BY <1>c, <2>1
<1> QED BY <1>1, <1>2, <1>3, <1>4, <1>5, <1>6 DEF Next, Producer

(* StopReachesWorker for all limits: the safety half of                     *)
(* StopEndsCrossingWorker.                                                  *)
THEOREM StopIsDelivered == Spec => []StopReachesWorker
<1>1. Init => StopReachesWorker
  BY DEF Init, StopReachesWorker
<1> QED BY <1>1, StopStep, DepthHoldsCrossings, TypeCorrect, EachInOnePlace, PTL DEF Spec

----------------------------------------------------------------------------
(* The queue as the ledger sees it.                                        *)

(* What a queue without duplicates holds when the sentinel is left out: one *)
(* index k less.                                                            *)
LEMMA Sentinels ==
    ASSUME NEW q \in Seq(Events \cup {Sentinel}), IsInjective(q), Sentinel \in Range(q)
    PROVE  \E k \in 1..Len(q) :
              /\ q[k] = Sentinel
              /\ \A i \in 1..Len(q) : q[i] = Sentinel => i = k
              /\ WithoutSentinel(q) =
                    [i \in 1..Len(q) - 1 |-> IF i < k THEN q[i] ELSE q[i + 1]]
<1> DEFINE k == CHOOSE k \in DOMAIN q : q[k] = Sentinel
<1>1. DOMAIN q = 1..Len(q)
  BY LenProperties
<1>2. \E i \in DOMAIN q : q[i] = Sentinel
  BY DEF Range
<1>3. k \in DOMAIN q /\ q[k] = Sentinel
  BY <1>2
<1>4. WithoutSentinel(q) = [i \in 1..Len(q) - 1 |-> IF i < k THEN q[i] ELSE q[i + 1]]
  BY DEF WithoutSentinel
<1> HIDE DEF k
<1>5. \A i \in 1..Len(q) : q[i] = Sentinel => i = k
  BY <1>1, <1>3 DEF IsInjective
<1> QED BY <1>1, <1>3, <1>4, <1>5

(* It holds the events of the queue and nothing else.                       *)
LEMMA WithoutType ==
    ASSUME NEW q \in Seq(Events \cup {Sentinel}), IsInjective(q)
    PROVE  /\ WithoutSentinel(q) \in Seq(Events)
           /\ Range(WithoutSentinel(q)) \subseteq Range(q) \ {Sentinel}
<1>1. DOMAIN q = 1..Len(q) /\ Len(q) \in Nat /\ \A i \in 1..Len(q) : q[i] \in Events \cup {Sentinel}
  BY LenProperties
<1>2. CASE Sentinel \notin Range(q)
  <2>1. WithoutSentinel(q) = q
    BY <1>2 DEF WithoutSentinel
  <2>2. \A i \in 1..Len(q) : q[i] \in Events
    BY <1>1, <1>2 DEF Range
  <2>3. q \in Seq(Events)
    BY <1>1, <2>2, SeqDef
  <2> QED BY <1>2, <2>1, <2>3
<1>3. CASE Sentinel \in Range(q)
  <2>1. PICK k \in 1..Len(q) :
              /\ q[k] = Sentinel
              /\ \A i \in 1..Len(q) : q[i] = Sentinel => i = k
              /\ WithoutSentinel(q) =
                    [i \in 1..Len(q) - 1 |-> IF i < k THEN q[i] ELSE q[i + 1]]
    BY <1>3, Sentinels
  <2>2. Len(q) - 1 \in Nat
    BY <1>1
  <2>3. ASSUME NEW i \in 1..Len(q) - 1
        PROVE  /\ WithoutSentinel(q)[i] \in Events
               /\ WithoutSentinel(q)[i] \in Range(q) \ {Sentinel}
    <3>1. CASE i < k
      <4>1. i \in 1..Len(q) /\ WithoutSentinel(q)[i] = q[i] /\ q[i] # Sentinel
        BY <1>1, <2>1, <3>1
      <4> QED BY <1>1, <4>1 DEF Range
    <3>2. CASE ~(i < k)
      <4>1. i + 1 \in 1..Len(q) /\ WithoutSentinel(q)[i] = q[i + 1] /\ i + 1 # k
        BY <1>1, <2>1, <3>2
      <4>2. q[i + 1] # Sentinel
        BY <2>1, <4>1
      <4> QED BY <1>1, <4>1, <4>2 DEF Range
    <3> QED BY <3>1, <3>2
  <2>4. WithoutSentinel(q) \in [1..Len(q) - 1 -> Events]
    BY <2>1, <2>3
  <2>5. WithoutSentinel(q) \in Seq(Events)
    BY <2>2, <2>4, SeqDef
  <2>6. DOMAIN WithoutSentinel(q) = 1..Len(q) - 1
    BY <2>1
  <2> QED BY <2>3, <2>5, <2>6 DEF Range
<1> QED BY <1>2, <1>3

(* An event put at the back of the queue is at the back of it.              *)
LEMMA WithoutAppend ==
    ASSUME NEW q \in Seq(Events \cup {Sentinel}), IsInjective(q),
           NEW x \in Events, x \notin Range(q)
    PROVE  WithoutSentinel(Append(q, x)) = Append(WithoutSentinel(q), x)
<1> DEFINE r == Append(q, x)
<1>1. /\ DOMAIN q = 1..Len(q) /\ Len(q) \in Nat
      /\ r \in Seq(Events \cup {Sentinel}) /\ Len(r) = Len(q) + 1
      /\ \A i \in 1..Len(q) : r[i] = q[i]
      /\ r[Len(q) + 1] = x
  BY LenProperties, AppendProperties
<1>2. IsInjective(r) /\ Range(r) = Range(q) \cup {x} /\ x # Sentinel
  BY InjectiveAppend, RangeAppend, EventsAssumption
<1> HIDE DEF r
<1>3. CASE Sentinel \notin Range(q)
  BY <1>2, <1>3 DEF WithoutSentinel, r
<1>4. CASE Sentinel \in Range(q)
  <2>1. PICK k \in 1..Len(q) :
              /\ q[k] = Sentinel
              /\ WithoutSentinel(q) =
                    [i \in 1..Len(q) - 1 |-> IF i < k THEN q[i] ELSE q[i + 1]]
    BY <1>4, Sentinels
  <2>2. PICK m \in 1..Len(r) :
              /\ \A i \in 1..Len(r) : r[i] = Sentinel => i = m
              /\ WithoutSentinel(r) =
                    [i \in 1..Len(r) - 1 |-> IF i < m THEN r[i] ELSE r[i + 1]]
    BY <1>1, <1>2, <1>4, Sentinels
  <2>3. m = k
    BY <1>1, <2>1, <2>2
  <2>4. WithoutSentinel(q) \in Seq(Events) /\ WithoutSentinel(r) \in Seq(Events)
    BY <1>1, <1>2, WithoutType
  <2>5. Len(WithoutSentinel(q)) = Len(q) - 1 /\ Len(WithoutSentinel(r)) = Len(q)
    BY <1>1, <2>1, <2>2, <2>4, LenProperties
  <2> DEFINE w == Append(WithoutSentinel(q), x)
  <2>6. /\ w \in Seq(Events) /\ Len(w) = Len(q)
        /\ \A i \in 1..Len(q) - 1 : w[i] = WithoutSentinel(q)[i]
        /\ w[Len(q)] = x
    <3> DEFINE v == WithoutSentinel(q)
    <3>1. v \in Seq(Events) /\ Len(v) = Len(q) - 1
      BY <2>4, <2>5
    <3> HIDE DEF v
    <3>2. /\ Append(v, x) \in Seq(Events) /\ Len(Append(v, x)) = Len(v) + 1
          /\ \A i \in 1..Len(v) : Append(v, x)[i] = v[i]
          /\ Append(v, x)[Len(v) + 1] = x
      BY <3>1, AppendProperties
    <3>3. Len(v) + 1 = Len(q)
      BY <1>1, <3>1
    <3> QED BY <3>1, <3>2, <3>3 DEF v
  <2> HIDE DEF w
  <2>7. ASSUME NEW i \in 1..Len(q) PROVE WithoutSentinel(r)[i] = w[i]
    <3>0. WithoutSentinel(r)[i] = IF i < k THEN r[i] ELSE r[i + 1]
      BY <1>1, <2>2, <2>3
    <3>1. CASE i = Len(q)
      BY <1>1, <2>1, <2>6, <3>0, <3>1
    <3>2. CASE i # Len(q)
      <4>0. Len(q) \in Nat
        BY <1>1
      <4>1. i \in 1..Len(q) - 1 /\ i + 1 \in 1..Len(q)
        BY <3>2, <4>0
      <4>2. w[i] = IF i < k THEN q[i] ELSE q[i + 1]
        BY <2>1, <2>6, <4>1
      <4> QED BY <1>1, <3>0, <4>1, <4>2
    <3> QED BY <3>1, <3>2
  <2>8. WithoutSentinel(r) = w
    BY <2>4, <2>5, <2>6, <2>7, SeqEqual
  <2> QED BY <2>8 DEF w, r
<1> QED BY <1>3, <1>4

(* The sentinel put at the back is not seen.                                *)
LEMMA WithoutSentinelPut ==
    ASSUME NEW q \in Seq(Events \cup {Sentinel}), IsInjective(q), Sentinel \notin Range(q)
    PROVE  WithoutSentinel(Append(q, Sentinel)) = WithoutSentinel(q)
<1> DEFINE r == Append(q, Sentinel)
<1>1. /\ DOMAIN q = 1..Len(q) /\ Len(q) \in Nat
      /\ r \in Seq(Events \cup {Sentinel}) /\ Len(r) = Len(q) + 1
      /\ \A i \in 1..Len(q) : r[i] = q[i]
      /\ r[Len(q) + 1] = Sentinel
  BY LenProperties, AppendProperties
<1>2. IsInjective(r) /\ Sentinel \in Range(r)
  BY InjectiveAppend, RangeAppend
<1> HIDE DEF r
<1>3. PICK m \in 1..Len(r) :
              /\ \A i \in 1..Len(r) : r[i] = Sentinel => i = m
              /\ WithoutSentinel(r) =
                    [i \in 1..Len(r) - 1 |-> IF i < m THEN r[i] ELSE r[i + 1]]
  BY <1>1, <1>2, Sentinels
<1>4. m = Len(q) + 1
  BY <1>1, <1>3
<1>5. WithoutSentinel(r) = [i \in 1..Len(q) |-> q[i]]
  BY <1>1, <1>3, <1>4
<1>6. q = [i \in 1..Len(q) |-> q[i]]
  BY <1>1
<1>7. WithoutSentinel(q) = q
  BY DEF WithoutSentinel
<1> QED BY <1>5, <1>6, <1>7 DEF r

(* The head of the queue is the head of what waits.                         *)
LEMMA WithoutHead ==
    ASSUME NEW q \in Seq(Events \cup {Sentinel}), IsInjective(q), q # <<>>, Head(q) # Sentinel
    PROVE  /\ WithoutSentinel(q) # <<>>
           /\ Head(WithoutSentinel(q)) = Head(q)
           /\ WithoutSentinel(Tail(q)) = Tail(WithoutSentinel(q))
<1> DEFINE r == Tail(q)
<1>1. /\ DOMAIN q = 1..Len(q) /\ Len(q) \in Nat \ {0}
      /\ r \in Seq(Events \cup {Sentinel}) /\ Len(r) = Len(q) - 1
      /\ \A i \in 1..Len(q) - 1 : r[i] = q[i + 1]
      /\ q[1] = Head(q)
  BY LenProperties, HeadTailProperties, EmptySeq
<1>2. IsInjective(r) /\ Range(q) = Range(r) \cup {Head(q)}
  BY InjectiveTail, RangeTail
<1> HIDE DEF r
<1>3. CASE Sentinel \notin Range(q)
  BY <1>2, <1>3 DEF WithoutSentinel, r
<1>4. CASE Sentinel \in Range(q)
  <2>1. PICK k \in 1..Len(q) :
              /\ q[k] = Sentinel
              /\ WithoutSentinel(q) =
                    [i \in 1..Len(q) - 1 |-> IF i < k THEN q[i] ELSE q[i + 1]]
    BY <1>4, Sentinels
  <2>2. PICK m \in 1..Len(r) :
              /\ \A i \in 1..Len(r) : r[i] = Sentinel => i = m
              /\ WithoutSentinel(r) =
                    [i \in 1..Len(r) - 1 |-> IF i < m THEN r[i] ELSE r[i + 1]]
    BY <1>1, <1>2, <1>4, Sentinels
  <2>3. k # 1 /\ k - 1 \in 1..Len(r) /\ r[k - 1] = Sentinel
    BY <1>1, <2>1
  <2>4. m = k - 1
    BY <2>2, <2>3
  <2> DEFINE w == WithoutSentinel(q)  v == WithoutSentinel(r)
  <2>5. w \in Seq(Events) /\ v \in Seq(Events)
    BY <1>1, <1>2, WithoutType
  <2>6. Len(w) = Len(q) - 1 /\ Len(v) = Len(q) - 2 /\ Len(q) - 1 \in Nat \ {0}
    <3>1. DOMAIN w = 1..Len(q) - 1 /\ DOMAIN v = 1..Len(r) - 1
      BY <2>1, <2>2
    <3>2. Len(q) - 1 \in Nat \ {0} /\ Len(r) - 1 \in Nat
      BY <1>1, <2>1, <2>3
    <3>3. Len(r) - 1 = Len(q) - 2
      BY <1>1
    <3>4. /\ DOMAIN w = 1..Len(w) /\ Len(w) \in Nat
          /\ DOMAIN v = 1..Len(v) /\ Len(v) \in Nat
      BY <2>5, LenProperties
    <3>5. Len(w) = Len(q) - 1
      BY <3>1, <3>2, <3>4
    <3>6. Len(v) = Len(r) - 1
      BY <3>1, <3>2, <3>4
    <3> QED BY <3>2, <3>3, <3>5, <3>6
  <2>7. w[1] = q[1]
    BY <1>1, <2>1, <2>3, <2>6
  <2>8. \A i \in 1..Len(q) - 1 : w[i] = IF i < k THEN q[i] ELSE q[i + 1]
    BY <2>1
  <2>9. \A i \in 1..Len(q) - 2 : v[i] = IF i < k - 1 THEN r[i] ELSE r[i + 1]
    BY <1>1, <2>2, <2>4
  <2> HIDE DEF w, v
  <2>10. w # <<>> /\ Head(w) = w[1]
    BY <2>5, <2>6
  <2>11. /\ Tail(w) \in Seq(Events) /\ Len(Tail(w)) = Len(q) - 2
         /\ \A i \in 1..Len(q) - 2 : Tail(w)[i] = w[i + 1]
    <3>1. /\ Tail(w) \in Seq(Events) /\ Len(Tail(w)) = Len(w) - 1
          /\ \A i \in 1..Len(Tail(w)) : Tail(w)[i] = w[i + 1]
      BY <2>5, <2>10, HeadTailProperties
    <3>2. Len(w) - 1 = Len(q) - 2
      BY <1>1, <2>6
    <3> QED BY <3>1, <3>2
  <2>12. ASSUME NEW i \in 1..Len(q) - 2 PROVE v[i] = Tail(w)[i]
    <3>1. /\ i \in 1..Len(q) - 1 /\ i + 1 \in 1..Len(q) - 1
          /\ r[i] = q[i + 1] /\ r[i + 1] = q[i + 2]
      BY <1>1
    <3>2. Tail(w)[i] = IF i + 1 < k THEN q[i + 1] ELSE q[i + 2]
      <4>1. w[i + 1] = IF i + 1 < k THEN q[i + 1] ELSE q[i + 1 + 1]
        BY <2>8, <3>1
      <4>2. i + 1 + 1 = i + 2
        OBVIOUS
      <4> QED BY <2>11, <4>1, <4>2
    <3>3. v[i] = IF i < k - 1 THEN q[i + 1] ELSE q[i + 2]
      BY <2>9, <3>1
    <3>4. i + 1 < k <=> i < k - 1
      OBVIOUS
    <3>5. CASE i < k - 1
      BY <3>2, <3>3, <3>4, <3>5
    <3>6. CASE ~(i < k - 1)
      BY <3>2, <3>3, <3>4, <3>6
    <3> QED BY <3>5, <3>6
  <2>13. v = Tail(w)
    BY <2>5, <2>6, <2>11, <2>12, SeqEqual
  <2> QED BY <1>1, <2>7, <2>10, <2>13 DEF w, v, r
<1> QED BY <1>3, <1>4

(* The sentinel taken from the front changes nothing of what waits.         *)
LEMMA WithoutSentinelTaken ==
    ASSUME NEW q \in Seq(Events \cup {Sentinel}), IsInjective(q), q # <<>>, Head(q) = Sentinel
    PROVE  WithoutSentinel(Tail(q)) = WithoutSentinel(q)
<1> DEFINE r == Tail(q)
<1>1. /\ DOMAIN q = 1..Len(q) /\ Len(q) \in Nat \ {0}
      /\ r \in Seq(Events \cup {Sentinel}) /\ Len(r) = Len(q) - 1 /\ DOMAIN r = 1..Len(r)
      /\ \A i \in 1..Len(q) - 1 : r[i] = q[i + 1]
      /\ q[1] = Sentinel
  BY LenProperties, HeadTailProperties, EmptySeq
<1>2. Sentinel \notin Range(r) /\ Sentinel \in Range(q)
  BY InjectiveTail, RangeTail
<1> HIDE DEF r
<1>3. PICK k \in 1..Len(q) :
              /\ \A i \in 1..Len(q) : q[i] = Sentinel => i = k
              /\ WithoutSentinel(q) =
                    [i \in 1..Len(q) - 1 |-> IF i < k THEN q[i] ELSE q[i + 1]]
  BY <1>2, Sentinels
<1>4. k = 1
  BY <1>1, <1>3
<1>5. WithoutSentinel(q) = [i \in 1..Len(q) - 1 |-> r[i]]
  BY <1>1, <1>3, <1>4
<1>6. r = [i \in 1..Len(q) - 1 |-> r[i]]
  BY <1>1
<1>7. WithoutSentinel(r) = r
  BY <1>2 DEF WithoutSentinel
<1> QED BY <1>5, <1>6, <1>7 DEF r

----------------------------------------------------------------------------
(* The worker implements the ledger.                                       *)

(* What the ledger sees: the events in the worker's hand that are not       *)
(* stored yet, then those of the queue.                                     *)
Unstored == IF wpc = "publish" THEN <<>> ELSE batch
Line == Unstored \o WithoutSentinel(queue)

(* The steps of the ledger, of two sequences of its events.                 *)
LEMMA LedgerTypes ==
    ASSUME TypeOK, PlaceInv
    PROVE  /\ Unstored \in Seq(Events) /\ WithoutSentinel(queue) \in Seq(Events)
           /\ Line \in Seq(Events)
           /\ Range(Line) \subseteq Range(batch) \cup Queued
<1>1. /\ Unstored \in Seq(Events) /\ WithoutSentinel(queue) \in Seq(Events)
      /\ Range(Unstored) \subseteq Range(batch)
      /\ Range(WithoutSentinel(queue)) \subseteq Queued
  <2>1. <<>> \in Seq(Events) /\ Range(<<>>) = {}
    BY DEF Range
  <2> QED BY <2>1, WithoutType DEF Unstored, TypeOK, PlaceInv, NoDuplicates, Queued
<1> QED BY <1>1, RangeConcat, ConcatProperties DEF Line

(* A head moved from the queue to the worker's hand stays where it is in    *)
(* the line.                                                                *)
LEMMA MoveHead ==
    ASSUME NEW S, NEW s \in Seq(S), NEW t \in Seq(S), t # <<>>
    PROVE  Append(s, Head(t)) \o Tail(t) = s \o t
<1>1. /\ Head(t) \in S /\ Tail(t) \in Seq(S) /\ Len(Tail(t)) = Len(t) - 1
      /\ \A i \in 1..Len(Tail(t)) : Tail(t)[i] = t[i + 1]
      /\ Head(t) = t[1] /\ Len(t) \in Nat \ {0} /\ Len(s) \in Nat
  BY HeadTailProperties, LenProperties, EmptySeq
<1> DEFINE a == Append(s, Head(t))  u == Tail(t)
<1>2. /\ a \in Seq(S) /\ Len(a) = Len(s) + 1
      /\ \A i \in 1..Len(s) : a[i] = s[i]
      /\ a[Len(s) + 1] = t[1]
  BY <1>1, AppendProperties
<1>3. u \in Seq(S) /\ Len(u) = Len(t) - 1 /\ \A i \in 1..Len(t) - 1 : u[i] = t[i + 1]
  BY <1>1
<1> HIDE DEF a, u
<1>4. /\ a \o u \in Seq(S) /\ Len(a \o u) = Len(a) + Len(u)
      /\ \A i \in 1..Len(a) + Len(u) : (a \o u)[i] = IF i <= Len(a) THEN a[i] ELSE u[i - Len(a)]
  BY <1>2, <1>3, ConcatProperties
<1>5. /\ s \o t \in Seq(S) /\ Len(s \o t) = Len(s) + Len(t)
      /\ \A i \in 1..Len(s) + Len(t) : (s \o t)[i] = IF i <= Len(s) THEN s[i] ELSE t[i - Len(s)]
  BY ConcatProperties
<1>6. Len(a) + Len(u) = Len(s) + Len(t)
  BY <1>1, <1>2, <1>3
<1>7. ASSUME NEW i \in 1..Len(s) + Len(t) PROVE (a \o u)[i] = (s \o t)[i]
  <2>1. CASE i <= Len(s)
    BY <1>1, <1>2, <1>4, <1>5, <1>6, <2>1
  <2>2. CASE i = Len(s) + 1
    <3>1. i - Len(s) = 1 /\ ~(i <= Len(s)) /\ i <= Len(a)
      BY <1>1, <1>2, <2>2
    <3> QED BY <1>2, <1>4, <1>5, <1>6, <2>2, <3>1
  <2>3. CASE i > Len(s) + 1
    <3>1. /\ ~(i <= Len(s)) /\ ~(i <= Len(a))
          /\ i - Len(a) \in 1..Len(t) - 1
          /\ i - Len(a) + 1 = i - Len(s)
      BY <1>1, <1>2, <2>3
    <3>2. (s \o t)[i] = t[i - Len(s)]
      BY <1>5, <3>1
    <3>3. (a \o u)[i] = u[i - Len(a)]
      BY <1>4, <1>6, <3>1
    <3>4. u[i - Len(a)] = t[i - Len(a) + 1]
      BY <1>3, <3>1
    <3> QED BY <3>1, <3>2, <3>3, <3>4
  <2>4. Len(s) \in Nat /\ Len(t) \in Nat
    BY <1>1
  <2>5. i <= Len(s) \/ i = Len(s) + 1 \/ i > Len(s) + 1
    BY <2>4
  <2> QED BY <2>1, <2>2, <2>3, <2>5
<1>8. a \o u = s \o t
  BY <1>4, <1>5, <1>6, <1>7, SeqEqual
<1> QED BY <1>8 DEF a, u

(* Both parts of a concatenation can be taken out of it again.              *)
LEMMA ConcatParts ==
    ASSUME NEW S, NEW s \in Seq(S), NEW t \in Seq(S), s # <<>>
    PROVE  /\ Len(s) \in 1..Len(s \o t)
           /\ SubSeq(s \o t, 1, Len(s)) = s
           /\ SubSeq(s \o t, Len(s) + 1, Len(s \o t)) = t
<1>1. /\ Len(s) \in Nat \ {0} /\ Len(t) \in Nat /\ Len(s \o t) = Len(s) + Len(t)
  BY ConcatProperties, LenProperties, EmptySeq
<1>2. SubSeq(s \o t, 1, Len(s)) = s
  <2>1. SubSeq(s \o t, 1, Len(s)) = SubSeq(s, 1, Len(s))
    BY <1>1, SubSeqOfConcat1
  <2> QED BY <2>1, SubSeqFull
<1>3. SubSeq(s \o t, Len(s) + 1, Len(s \o t)) = t
  <2>1. CASE Len(t) = 0
    <3>1. t = <<>>
      BY <2>1, EmptySeq
    <3>2. SubSeq(s \o t, Len(s) + 1, Len(s)) = <<>>
      BY <1>1, SubSeqEmpty
    <3> QED BY <1>1, <2>1, <3>1, <3>2
  <2>2. CASE Len(t) # 0
    <3>1. /\ Len(s) + 1 \in Len(s) + 1..Len(s) + Len(t)
          /\ Len(s) + Len(t) \in Len(s) + 1..Len(s) + Len(t)
          /\ Len(s) + 1 - Len(s) = 1 /\ Len(s) + Len(t) - Len(s) = Len(t)
      BY <1>1, <2>2
    <3>2. SubSeq(s \o t, Len(s) + 1, Len(s) + Len(t)) =
             SubSeq(t, Len(s) + 1 - Len(s), Len(s) + Len(t) - Len(s))
      BY <3>1, SubSeqOfConcat2
    <3> QED BY <1>1, <3>1, <3>2, SubSeqFull
  <2> QED BY <2>1, <2>2
<1> QED BY <1>1, <1>2, <1>3

(* Every step of every thread is a step of the ledger or changes nothing    *)
(* the ledger sees.                                                         *)
LEMMA LedgerStep ==
    TypeOK /\ HandInv /\ PlaceInv /\ [Next]_vars
        => [Ledger!LedgerNext]_(Ledger!ledgerVars)
<1> SUFFICES ASSUME TypeOK, HandInv, PlaceInv, [Next]_vars
             PROVE  \/ \E e \in Events : Ledger!Accept(e)
                    \/ \E k \in 1..Len(Line) : Ledger!Store(k) \/ Ledger!GiveUp(k)
                    \/ Line' = Line /\ durable' = durable
  BY DEF Ledger!LedgerNext, Ledger!ledgerVars, Line, Unstored
<1> DEFINE Goal == \/ \E e \in Events : Ledger!Accept(e)
                   \/ \E k \in 1..Len(Line) : Ledger!Store(k) \/ Ledger!GiveUp(k)
                   \/ Line' = Line /\ durable' = durable
<1>0. /\ Crossings \subseteq Events /\ LaneChanges \subseteq Events
      /\ queue \in Seq(Events \cup {Sentinel}) /\ IsInjective(queue)
      /\ batch \in Seq(Events) /\ durable \in Seq(Events)
  BY DEF TypeOK, Events, PlaceInv, NoDuplicates
<1>l. /\ Unstored \in Seq(Events) /\ WithoutSentinel(queue) \in Seq(Events)
      /\ Line \in Seq(Events) /\ Range(Line) \subseteq Range(batch) \cup Queued
  BY LedgerTypes
\* Three shapes of step.
<1>a. ASSUME NEW e \in Events, e \in unsent \/ e = pending,
             queue' = Append(queue, e), UNCHANGED <<wpc, batch, durable>>
      PROVE  Goal
  <2>1. e \notin Range(batch) \cup Queued \cup Range(durable) /\ e # Sentinel
    BY <1>a, EventsAssumption DEF PlaceInv, Apart
  <2>2. e \notin Range(queue)
    BY <2>1 DEF Queued
  <2>3. Unstored' = Unstored /\ WithoutSentinel(queue') = Append(WithoutSentinel(queue), e)
    BY <1>0, <1>a, <2>2, WithoutAppend DEF Unstored
  <2>4. Line' = Append(Line, e)
    <3>1. /\ Append(WithoutSentinel(queue), e) = WithoutSentinel(queue) \o <<e>>
          /\ Append(Line, e) = Line \o <<e>>
          /\ <<e>> \in Seq(Events)
      BY <1>l, AppendIsConcat
    <3>2. (Unstored \o WithoutSentinel(queue)) \o <<e>>
             = Unstored \o (WithoutSentinel(queue) \o <<e>>)
      BY <1>l, <3>1, ConcatAssociative
    <3> QED BY <2>3, <3>1, <3>2 DEF Line
  <2>5. e \notin Range(Line) \cup Range(durable)
    BY <1>l, <2>1
  <2>6. Ledger!Accept(e)
    BY <1>a, <2>4, <2>5 DEF Ledger!Accept, Ledger!In, Line, Unstored, Range
  <2> QED BY <2>6
<1>b. ASSUME wpc # "publish", Unstored' = <<>>,
             UNCHANGED <<queue, durable>>
      PROVE  Goal
  <2>1. Unstored = batch /\ Line' = <<>> \o WithoutSentinel(queue)
    BY <1>b DEF Unstored, Line
  <2>2. Line' = WithoutSentinel(queue)
    BY <1>l, <2>1, ConcatEmptySeq
  <2>3. CASE batch = <<>>
    BY <1>b, <2>1, <2>3 DEF Line
  <2>4. CASE batch # <<>>
    <3>1. /\ Len(batch) \in 1..Len(Line)
          /\ SubSeq(Line, Len(batch) + 1, Len(Line)) = WithoutSentinel(queue)
      <4>1. Line = batch \o WithoutSentinel(queue)
        BY <2>1 DEF Line
      <4> QED BY <1>0, <1>l, <2>4, <4>1, ConcatParts
    <3>2. Ledger!GiveUp(Len(batch))
      BY <1>b, <2>2, <3>1 DEF Ledger!GiveUp, Ledger!RemoveFirst, Line, Unstored
    <3> QED BY <3>1, <3>2
  <2> QED BY <2>3, <2>4
<1>c. ASSUME Unstored' = Unstored, UNCHANGED <<queue, durable>>
      PROVE  Goal
  BY <1>c DEF Line
<1>1. ASSUME NEW e \in Crossings, ReadDepth(e) PROVE Goal
  <2>1. UNCHANGED <<queue, durable, wpc, batch>>
    BY <1>1 DEF ReadDepth, workerVars, dbVars
  <2> QED BY <2>1, <1>c DEF Unstored
<1>2. ASSUME PutCrossing PROVE Goal
  <2>1. /\ pending \in Events
        /\ UNCHANGED <<wpc, batch, durable>>
        /\ queue' = queue \/ queue' = Append(queue, pending)
    BY <1>0, <1>2 DEF PutCrossing, workerVars, dbVars, TypeOK
  <2>2. CASE queue' = queue
    BY <2>1, <2>2, <1>c DEF Unstored
  <2>3. CASE queue' = Append(queue, pending)
    BY <2>1, <2>3, <1>a
  <2> QED BY <2>1, <2>2, <2>3
<1>3. ASSUME NEW e \in LaneChanges, PutLaneChange(e) PROVE Goal
  <2>1. /\ e \in Events /\ e \in unsent
        /\ UNCHANGED <<wpc, batch, durable>>
        /\ queue' = queue \/ queue' = Append(queue, e)
    BY <1>0, <1>3 DEF PutLaneChange, workerVars, dbVars
  <2>2. CASE queue' = queue
    BY <2>1, <2>2, <1>c DEF Unstored
  <2>3. CASE queue' = Append(queue, e)
    BY <2>1, <2>3, <1>a
  <2> QED BY <2>1, <2>2, <2>3
<1>4. ASSUME Stop \/ Resignal PROVE Goal
  <2>1. /\ Unstored' = Unstored /\ durable' = durable
        /\ queue' = queue \/ queue' = Append(queue, Sentinel)
        /\ Sentinel \notin Range(queue)
    BY <1>4 DEF Stop, Resignal, workerVars, dbVars, Unstored, PlaceInv, OneSentinel
  <2>2. WithoutSentinel(queue') = WithoutSentinel(queue)
    BY <1>0, <2>1, WithoutSentinelPut
  <2> QED BY <2>1, <2>2 DEF Line
<1>5. ASSUME Take \/ CollectItem \/ DrainItem PROVE Goal
  <2>1. /\ queue # <<>> /\ queue' = Tail(queue) /\ durable' = durable
        /\ wpc # "publish" /\ wpc' # "publish"
    BY <1>5 DEF Take, CollectItem, DrainItem, dbVars
  <2>2. Unstored = batch /\ Unstored' = batch'
    BY <2>1 DEF Unstored
  <2>3. CASE Head(queue) = Sentinel
    <3>1. batch' = batch
      BY <1>5, <2>3 DEF Take, CollectItem, DrainItem
    <3>2. WithoutSentinel(queue') = WithoutSentinel(queue)
      BY <1>0, <2>1, <2>3, WithoutSentinelTaken
    <3> QED BY <2>1, <2>2, <3>1, <3>2 DEF Line
  <2>4. CASE Head(queue) # Sentinel
    <3>1. batch' = Append(batch, Head(queue))
      <4>1. CASE Take
        <5>1. batch = <<>> /\ batch' = <<Head(queue)>>
          BY <2>4, <4>1 DEF Take, HandInv, EmptyHanded
        <5> QED BY <5>1
      <4> QED BY <1>5, <2>4, <4>1 DEF CollectItem, DrainItem
    <3>2. /\ WithoutSentinel(queue) # <<>>
          /\ Head(WithoutSentinel(queue)) = Head(queue)
          /\ WithoutSentinel(queue') = Tail(WithoutSentinel(queue))
      BY <1>0, <2>1, <2>4, WithoutHead
    <3>3. Line' = Append(batch, Head(WithoutSentinel(queue))) \o Tail(WithoutSentinel(queue))
      BY <2>2, <3>1, <3>2 DEF Line
    <3>4. Line' = batch \o WithoutSentinel(queue)
      BY <1>0, <1>l, <3>2, <3>3, MoveHead
    <3> QED BY <2>1, <2>2, <3>4 DEF Line
  <2> QED BY <2>3, <2>4
<1>6. ASSUME EnsureAdapter \/ CollectEnds \/ Insert \/ DrainEnds \/ CommitLocked PROVE Goal
  <2>1. UNCHANGED <<queue, durable, batch>> /\ wpc # "publish" /\ wpc' # "publish"
    BY <1>6 DEF EnsureAdapter, CollectEnds, Insert, DrainEnds, CommitLocked, dbVars, workerVars
  <2> QED BY <2>1, <1>c DEF Unstored
<1>7. ASSUME AdapterFails \/ RejectSingle \/ InsertFails \/ CommitFails \/ SkipDatabase
      PROVE  Goal
  <2>1. /\ UNCHANGED <<queue, durable>> /\ wpc # "publish"
        /\ \/ batch' = <<>>
           \/ batch' = batch /\ wpc' # "publish"
           \/ wpc' = "publish"
    BY <1>7 DEF AdapterFails, RejectSingle, InsertFails, CommitFails, SkipDatabase,
                FailBatch, FinishBatch, dbVars
  <2> QED BY <2>1, <1>b, <1>c DEF Unstored
<1>8. ASSUME Commit PROVE Goal
  <2>1. /\ wpc # "publish" /\ Unstored = batch /\ Unstored' = <<>> /\ queue' = queue
        /\ durable' = durable \/ durable' = durable \o batch
    BY <1>8 DEF Commit, Unstored
  <2>2. CASE durable' = durable
    BY <1>b, <2>1, <2>2
  <2>3. CASE durable' # durable
    <3>1. durable' = durable \o batch /\ batch # <<>>
      BY <1>0, <2>1, <2>3, ConcatEmptySeq
    <3>2. Line' = WithoutSentinel(queue)
      BY <1>l, <2>1, ConcatEmptySeq DEF Line
    <3>3. /\ Len(batch) \in 1..Len(Line)
          /\ SubSeq(Line, 1, Len(batch)) = batch
          /\ SubSeq(Line, Len(batch) + 1, Len(Line)) = WithoutSentinel(queue)
      BY <1>0, <1>l, <2>1, <3>1, ConcatParts DEF Line
    <3>4. Ledger!Store(Len(batch))
      BY <3>1, <3>2, <3>3 DEF Ledger!Store, Ledger!RemoveFirst, Line, Unstored
    <3> QED BY <3>3, <3>4
  <2> QED BY <2>2, <2>3
<1>9. ASSUME Publish \/ PublishRaises PROVE Goal
  <2>1. UNCHANGED <<queue, durable>> /\ wpc = "publish" /\ batch' = <<>>
    BY <1>9 DEF Publish, PublishRaises, FailBatch, FinishBatch, dbVars
  <2> QED BY <2>1, <1>c DEF Unstored
<1>10. CASE UNCHANGED vars
  BY <1>10, <1>c DEF vars, workerVars, dbVars, Unstored
<1> QED
  BY <1>1, <1>2, <1>3, <1>4, <1>5, <1>6, <1>7, <1>8, <1>9, <1>10 DEF Next, Producer, Worker

(* ImplementsLedger for every set of events and all limits: events are      *)
(* stored in the order of their arrival, whole batches or nothing, and none *)
(* that was given up comes back.                                            *)
THEOREM WorkerKeepsLedger == Spec => ImplementsLedger
<1>1. Init => Ledger!LedgerInit
  <2> SUFFICES ASSUME Init PROVE Ledger!LedgerInit
    OBVIOUS
  <2>1. batch = <<>> /\ queue = <<>> /\ durable = <<>> /\ wpc = "get"
    BY DEF Init
  <2>2. WithoutSentinel(queue) = <<>>
    BY <2>1 DEF WithoutSentinel, Range
  <2>3. <<>> \o <<>> = <<>>
    BY ConcatEmptySeq
  <2> QED BY <2>1, <2>2, <2>3 DEF Ledger!LedgerInit
<1> QED
  BY <1>1, LedgerStep, TypeCorrect, BatchInHand, EachInOnePlace, PTL
  DEF Spec, ImplementsLedger, Ledger!LedgerSpec
=============================================================================
