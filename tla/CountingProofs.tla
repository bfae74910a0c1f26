--------------------------- MODULE CountingProofs ---------------------------
(***************************************************************************)
(* Theorems about DetectionCore as its two callers run it, for every set   *)
(* of tracks and lanes, every window, timeout and cadence.  Of LiveCapture:*)
(* each crossing is counted once and handed over once per core, ghosts     *)
(* expire, who is seen in a lane has been counted there, and replayed      *)
(* boxes are those detected.  Of OfflineRun and CameraWorker: a run        *)
(* returns with every frame on disk or reported, in order, and its log,    *)
(* its summary and the storage worker have the same crossings.             *)
(***************************************************************************)
EXTENDS LiveCapture, CameraWorker, FiniteSetTheorems, SequenceTheorems, TLAPS

----------------------------------------------------------------------------
(* The operators of the core.                                              *)

(* A vote is for a lane or leaves the lane as it was.                      *)
LEMMA VotedLane ==
  ASSUME NEW history \in Seq(Lanes \cup {Unknown}), history # <<>>,
         Last(history) \in Lanes, NEW stable \in Lanes \cup {NoLane}
  PROVE  Voted(history, stable) \in Lanes \cup {NoLane}
<1>1. CASE LastEqual(history)
  BY <1>1 DEF Voted
<1>2. CASE ~LastEqual(history) /\ \E l \in Lanes : Modes(history) = {l}
  BY <1>2 DEF Voted
<1>3. CASE ~LastEqual(history) /\ ~\E l \in Lanes : Modes(history) = {l}
  BY <1>3 DEF Voted
<1> QED BY <1>1, <1>2, <1>3

(* The history that an observation leaves: it ends with the raw lane and   *)
(* is no longer than the window.                                           *)
Trimmed(history, raw) ==
    LET longer == Append(history, raw)
    IN  IF Len(longer) > Window THEN Tail(longer) ELSE longer

LEMMA TrimmedHistory ==
  ASSUME NEW history \in Seq(Lanes \cup {Unknown}), Len(history) \in 0 .. Window,
         NEW raw \in Lanes \cup {Unknown}
  PROVE  /\ Trimmed(history, raw) \in Seq(Lanes \cup {Unknown})
         /\ Len(Trimmed(history, raw)) \in 1 .. Window
         /\ Last(Trimmed(history, raw)) = raw
<1> DEFINE longer == Append(history, raw)
<1>1. longer \in Seq(Lanes \cup {Unknown}) /\ Len(longer) = Len(history) + 1
  OBVIOUS
<1>2. longer[Len(longer)] = raw
  OBVIOUS
<1>3. CASE Len(longer) > Window
  <2>1. Trimmed(history, raw) = Tail(longer)
    BY <1>3 DEF Trimmed
  <2>2. Len(longer) = Window + 1
    BY <1>1, <1>3, CoreAssumption
  <2>3. Tail(longer) \in Seq(Lanes \cup {Unknown}) /\ Len(Tail(longer)) = Window
    BY <1>1, <2>2, CoreAssumption
  <2>4. Tail(longer)[Window] = longer[Window + 1]
    BY <1>1, <2>2, CoreAssumption
  <2> QED BY <1>2, <2>1, <2>2, <2>3, <2>4, CoreAssumption DEF Last
<1>4. CASE ~(Len(longer) > Window)
  <2>1. Trimmed(history, raw) = longer
    BY <1>4 DEF Trimmed
  <2> QED BY <1>1, <1>2, <1>4, <2>1, CoreAssumption DEF Last
<1> QED BY <1>3, <1>4

(* What an observation makes of a track.                                   *)
LEMMA ObservedTrack ==
  ASSUME NEW s \in TrackStates, Len(s.history) \in 0 .. Window,
         NEW n \in Nat, NEW box \in Cells
  PROVE  LET o == Observed(s, n, box)
         IN  /\ o \in TrackStates /\ Len(o.history) \in 1 .. Window
             /\ o.last = n /\ o.first = s.first
             /\ o.history = Trimmed(s.history, AssignLane(box))
             /\ AssignLane(box) \in Lanes => o.stable = Voted(o.history, s.stable)
<1> DEFINE raw == AssignLane(box)
           o   == Observed(s, n, box)
           h   == Trimmed(s.history, raw)
           missed == IF raw = Unknown THEN s.unknowns + 1 ELSE 0
           stable == IF raw # Unknown THEN Voted(h, s.stable)
                     ELSE IF missed > UnknownTimeout THEN NoLane ELSE s.stable
<1>1. raw \in Lanes \cup {Unknown}
  BY DEF AssignLane
<1>2. /\ h \in Seq(Lanes \cup {Unknown}) /\ Len(h) \in 1 .. Window /\ Last(h) = raw
  BY <1>1, TrimmedHistory DEF TrackStates
<1>3. h # <<>>
  BY <1>2
<1>4. raw \in Lanes <=> raw # Unknown
  BY <1>1, CoreAssumption
<1>5. stable \in Lanes \cup {NoLane}
  BY <1>2, <1>3, <1>4, VotedLane DEF TrackStates
<1>6. missed \in Nat
  BY DEF TrackStates
<1>7. o = [s EXCEPT !.last = n, !.history = h, !.unknowns = missed, !.stable = stable]
  BY DEF Observed, Trimmed
<1>8. /\ o \in TrackStates /\ o.last = n /\ o.first = s.first /\ o.history = h
      /\ o.stable = stable
  BY <1>2, <1>5, <1>6, <1>7 DEF TrackStates
<1> QED BY <1>2, <1>4, <1>8

(* A track begins with no history.                                         *)
LEMMA NewTrackState ==
  ASSUME NEW n \in Nat
  PROVE  NewTrack(n) \in TrackStates /\ Len(NewTrack(n).history) = 0 /\ NewTrack(n).first = n
BY DEF NewTrack, TrackStates

(* A track with a box in the frame: how it was before, and what is said of *)
(* it now.                                                                 *)
LEMMA UpdatedVotes ==
  ASSUME CoreTypeOK, NEW n \in Nat, NEW boxes \in Detections, NEW t \in DOMAIN boxes,
         NEW now, now = Updated(n, boxes)[t]
  PROVE  /\ t \in Tracks /\ now \in TrackStates /\ Len(now.history) \in 1 .. Window
         /\ now.last = n
         /\ \E s \in TrackStates, raw \in Lanes \cup {Unknown} :
               /\ now.history = Trimmed(s.history, raw) /\ Len(s.history) \in 0 .. Window
               /\ raw \in Lanes => now.stable = Voted(now.history, s.stable)
<1> DEFINE past == IF t \in Known THEN tracks[t] ELSE NewTrack(n)
<1>1. t \in Tracks /\ boxes[t] \in Cells
  BY DEF Detections
<1>2. past \in TrackStates /\ Len(past.history) \in 0 .. Window
  BY NewTrackState, CoreAssumption DEF CoreTypeOK
<1>3. now = Observed(past, n, boxes[t])
  BY DEF Updated
<1>4. AssignLane(boxes[t]) \in Lanes \cup {Unknown}
  BY DEF AssignLane
<1> HIDE DEF past
<1>5. /\ now \in TrackStates /\ Len(now.history) \in 1 .. Window /\ now.last = n
      /\ now.history = Trimmed(past.history, AssignLane(boxes[t]))
      /\ AssignLane(boxes[t]) \in Lanes => now.stable = Voted(now.history, past.stable)
  BY <1>1, <1>2, <1>3, ObservedTrack
<1> QED BY <1>1, <1>2, <1>4, <1>5

(* What one frame makes of a track.                                        *)
LEMMA UpdatedTrack ==
  ASSUME CoreTypeOK, NEW n \in Nat, NEW boxes \in Detections,
         NEW after, after = Updated(n, boxes), NEW t \in DOMAIN after
  PROVE  /\ t \in Tracks /\ after[t] \in TrackStates
         /\ Len(after[t].history) \in 1 .. Window
         /\ t \in DOMAIN boxes => after[t].last = n
         /\ t \notin DOMAIN boxes => t \in Known /\ Survives(t, n) /\ after[t] = tracks[t]
<1>1. CASE t \in DOMAIN boxes
  <2> DEFINE now == after[t]
  <2>1. now = Updated(n, boxes)[t]
    OBVIOUS
  <2> HIDE DEF now
  <2>2. t \in Tracks /\ now \in TrackStates /\ Len(now.history) \in 1 .. Window /\ now.last = n
    BY <1>1, <2>1, UpdatedVotes
  <2> QED BY <1>1, <2>2 DEF now
<1>2. CASE t \notin DOMAIN boxes
  <2>1. t \in Known /\ Survives(t, n)
    BY <1>2 DEF Updated
  <2>2. after[t] = tracks[t]
    BY <1>2 DEF Updated
  <2> QED BY <1>2, <2>1, <2>2 DEF CoreTypeOK
<1> QED BY <1>1, <1>2

(* The lane a crossing counts for.                                         *)
LEMMA EffectiveLaneType ==
  ASSUME NEW s \in TrackStates
  PROVE  EffectiveLane(s) \in Lanes \cup {NoLane}
<1>1. CASE s.history = <<>>
  BY <1>1 DEF EffectiveLane, TrackStates
<1>2. CASE s.history # <<>>
  <2>1. Last(s.history) \in Lanes \cup {Unknown}
    BY <1>2 DEF TrackStates, Last
  <2> QED BY <2>1 DEF EffectiveLane, TrackStates
<1> QED BY <1>1, <1>2

(* Pairs of a track and a lane are only so many.                           *)
LEMMA PairsFinite ==
  ASSUME NEW S \in SUBSET (Tracks \X Lanes)
  PROVE  IsFiniteSet(S)
<1>1. IsFiniteSet(Lanes)
  BY FS_Interval, CoreAssumption DEF Lanes
<1>2. IsFiniteSet(Tracks \X Lanes)
  BY <1>1, TracksAssumption, FS_Product
<1> QED BY <1>2, FS_Subset

(* New crossings are of tracks and lanes, and are counted for the first    *)
(* time.                                                                   *)
LEMMA CrossingsNew ==
  ASSUME CoreTypeOK, NEW n \in Nat, NEW boxes \in Detections
  PROVE  LET new == Crossings(n, Updated(n, boxes))
         IN  new \subseteq Tracks \X Lanes /\ new \cap counted = {}
<1> DEFINE after == Updated(n, boxes)
<1>1. DOMAIN after \subseteq Tracks /\ \A t \in DOMAIN after : after[t] \in TrackStates
  BY UpdatedTrack
<1> HIDE DEF after
<1>2. ASSUME NEW p \in Crossings(n, after)
      PROVE  p \in Tracks \X Lanes /\ p \notin counted
  <2>1. PICK t \in DOMAIN after : /\ EffectiveLane(after[t]) # NoLane
                                  /\ p = <<t, EffectiveLane(after[t])>>
                                  /\ p \notin counted
    BY DEF Crossings
  <2> QED BY <1>1, <2>1, EffectiveLaneType
<1> QED BY <1>2 DEF after

(* Boxes that are moved by the offset and clamped are boxes of the frame.  *)
LEMMA MovedBoxes ==
  ASSUME NEW boxes \in Detections
  PROVE  [t \in DOMAIN boxes |-> ToOriginal(boxes[t])] \in Detections
<1>1. DOMAIN boxes \in SUBSET Tracks /\ \A t \in DOMAIN boxes : boxes[t] \in Cells
  BY DEF Detections
<1>2. \A box \in Cells : ToOriginal(box) \in Cells
  BY CoreAssumption DEF ToOriginal, Cells
<1>3. [t \in DOMAIN boxes |-> ToOriginal(boxes[t])] \in [DOMAIN boxes -> Cells]
  BY <1>1, <1>2
<1> QED BY <1>1, <1>3 DEF Detections

(* Process one frame: the types, the count of each lane, and that what it  *)
(* hands out is counted now and was not before.                            *)
LEMMA CoreStep ==
  ASSUME CoreTypeOK, NEW n \in Nat, NEW every, NEW found \in Detections,
         NEW inPlace \in BOOLEAN, ProcessFrame(n, every, found, inPlace)
  PROVE  /\ CoreTypeOK'
         /\ CountedOnce => CountedOnce'
         /\ counted' = counted \cup out'.crossings /\ out'.crossings \cap counted = {}
<1> DEFINE boxes == IF IsDetectFrame(every) THEN found ELSE cache
           after == Updated(n, boxes)
           new   == Crossings(n, after)
<1>1. boxes \in Detections
  BY DEF CoreTypeOK
<1>2. /\ cache' = IF inPlace THEN [t \in DOMAIN boxes |-> ToOriginal(boxes[t])] ELSE boxes
      /\ phase' = (phase + 1) % 2 /\ tracks' = after
      /\ counted' = counted \cup new
      /\ tally' = [l \in Lanes |-> tally[l] + Cardinality({p \in new : p[2] = l})]
      /\ out' = [crossings |-> new, changes |-> Changes(boxes, after)]
      /\ detected' = IF IsDetectFrame(every) THEN found ELSE detected
  BY DEF ProcessFrame, Remembered
<1>3. new \subseteq Tracks \X Lanes /\ new \cap counted = {}
  BY <1>1, CrossingsNew
<1>4. /\ DOMAIN after \subseteq Tracks
      /\ \A t \in DOMAIN after : /\ after[t] \in TrackStates
                                 /\ Len(after[t].history) \in 1 .. Window
  BY <1>1, UpdatedTrack
<1>5. DOMAIN boxes \subseteq DOMAIN after
  BY DEF Updated
<1>6. Changes(boxes, after) \subseteq Tracks \X Lanes \X Lanes
  <2> SUFFICES ASSUME NEW c \in Changes(boxes, after)
               PROVE  c \in Tracks \X Lanes \X Lanes
    OBVIOUS
  <2>1. PICK t \in DOMAIN boxes \cap Known :
               /\ tracks[t].stable # NoLane /\ after[t].stable # NoLane
               /\ c = <<t, tracks[t].stable, after[t].stable>>
    BY DEF Changes
  <2>2. tracks[t] \in TrackStates /\ after[t] \in TrackStates /\ t \in Tracks
    BY <1>4, <1>5 DEF CoreTypeOK
  <2>3. tracks[t].stable \in Lanes /\ after[t].stable \in Lanes
    BY <2>1, <2>2 DEF TrackStates
  <2> QED BY <2>1, <2>2, <2>3
<1> HIDE DEF boxes, after, new
<1> DEFINE added(l) == {p \in new : p[2] = l}
<1>7. ASSUME NEW l \in Lanes
      PROVE  IsFiniteSet(added(l)) /\ Cardinality(added(l)) \in Nat
  BY <1>3, PairsFinite, FS_CardinalityType
<1>8. CoreTypeOK'
  <2>1. tally' \in [Lanes -> Nat]
    <3> HIDE DEF added
    <3>1. tally' = [l \in Lanes |-> tally[l] + Cardinality(added(l))]
      BY <1>2 DEF added
    <3> QED BY <1>7, <3>1 DEF CoreTypeOK
  <2>2. phase' \in {0, 1}
    BY <1>2 DEF CoreTypeOK
  <2>3. counted' \subseteq Tracks \X Lanes
    BY <1>2, <1>3 DEF CoreTypeOK
  <2>4. out'.crossings \subseteq counted' /\ out'.changes \subseteq Tracks \X Lanes \X Lanes
    BY <1>2, <1>6
  <2>5. /\ Known' \subseteq Tracks
        /\ \A t \in Known' : /\ tracks'[t] \in TrackStates
                              /\ Len(tracks'[t].history) \in 1 .. Window
    BY <1>2, <1>4 DEF Known
  <2>6. cache' \in Detections
    BY <1>1, <1>2, MovedBoxes
  <2>7. detected' \in Detections
    BY <1>2 DEF CoreTypeOK
  <2> QED BY <2>1, <2>2, <2>3, <2>4, <2>5, <2>6, <2>7 DEF CoreTypeOK
<1>9. ASSUME CountedOnce PROVE CountedOnce'
  <2> SUFFICES ASSUME NEW l \in Lanes
               PROVE  tally'[l] = Cardinality({p \in counted' : p[2] = l})
    BY DEF CountedOnce
  <2> DEFINE before == {p \in counted : p[2] = l}
  <2>1. IsFiniteSet(before) /\ Cardinality(before) \in Nat
    BY PairsFinite, FS_CardinalityType DEF CoreTypeOK
  <2>2. before \cap added(l) = {} /\ {p \in counted' : p[2] = l} = before \cup added(l)
    BY <1>2, <1>3
  <2>3. tally[l] = Cardinality(before)
    BY <1>9 DEF CountedOnce
  <2>4. tally'[l] = tally[l] + Cardinality(added(l))
    BY <1>2
  <2> HIDE DEF before, added
  <2>5. Cardinality(before \cup added(l))
          = Cardinality(before) + Cardinality(added(l)) - Cardinality(before \cap added(l))
    BY <1>7, <2>1, FS_Union
  <2>6. Cardinality(before \cap added(l)) = 0
    BY <2>2, FS_EmptySet
  <2>7. Cardinality(before \cup added(l)) = Cardinality(before) + Cardinality(added(l))
    BY <1>7, <2>1, <2>5, <2>6
  <2>8. tally'[l] = Cardinality(before \cup added(l))
    BY <2>3, <2>4, <2>7
  <2> QED BY <2>2, <2>8
<1> QED BY <1>2, <1>3, <1>8, <1>9

----------------------------------------------------------------------------
(* The loop.                                                               *)

(* Nothing that leaves the core alone changes what is said of it.          *)
LEMMA CoreUnchanged ==
  ASSUME UNCHANGED coreVars
  PROVE  /\ CoreTypeOK' <=> CoreTypeOK
         /\ CountedOnce' <=> CountedOnce
<1>1. /\ cache' = cache /\ phase' = phase /\ tracks' = tracks
      /\ counted' = counted /\ tally' = tally /\ out' = out /\ detected' = detected
  BY DEF coreVars
<1>2. CoreTypeOK' <=> CoreTypeOK
  BY <1>1 DEF CoreTypeOK, Known
<1>3. CountedOnce' <=> CountedOnce
  BY <1>1 DEF CountedOnce
<1> QED BY <1>2, <1>3

(* A core that has just been built.                                        *)
LEMMA FreshCore ==
  /\ CoreInit => CoreTypeOK /\ CountedOnce
  /\ CoreRebuilt => (CoreTypeOK /\ CountedOnce)'
<1> DEFINE empty == [t \in {} |-> 0]
<1>1. NoBoxes \in Detections
  <2>1. NoBoxes \in [{} -> Cells]
    BY DEF NoBoxes
  <2> QED BY <2>1 DEF Detections
<1>2. \A l \in Lanes : Cardinality({p \in {} : p[2] = l}) = 0
  <2> SUFFICES ASSUME NEW l \in Lanes PROVE Cardinality({p \in {} : p[2] = l}) = 0
    OBVIOUS
  <2>1. {p \in {} : p[2] = l} = {}
    OBVIOUS
  <2> QED BY <2>1, FS_EmptySet
<1>3. ASSUME CoreInit PROVE CoreTypeOK /\ CountedOnce
  <2>1. /\ cache = NoBoxes /\ phase = 0 /\ tracks = empty /\ counted = {}
        /\ tally = [l \in Lanes |-> 0] /\ out = NothingYet /\ detected = NoBoxes
    BY <1>3 DEF CoreInit, Fresh
  <2>2. CoreTypeOK
    BY <1>1, <2>1 DEF CoreTypeOK, Known, NothingYet
  <2>3. CountedOnce
    BY <1>2, <2>1 DEF CountedOnce
  <2> QED BY <2>2, <2>3
<1>4. ASSUME CoreRebuilt PROVE (CoreTypeOK /\ CountedOnce)'
  <2>1. /\ cache' = NoBoxes /\ phase' = 0 /\ tracks' = empty /\ counted' = {}
        /\ tally' = [l \in Lanes |-> 0] /\ out' = NothingYet /\ detected' = NoBoxes
    BY <1>4 DEF CoreRebuilt, Fresh
  <2>2. CoreTypeOK'
    BY <1>1, <2>1 DEF CoreTypeOK, Known, NothingYet
  <2>3. CountedOnce'
    BY <1>2, <2>1 DEF CountedOnce
  <2> QED BY <2>2, <2>3
<1> QED BY <1>3, <1>4

(* The steps of the loop, by what they do to the core: one of them runs    *)
(* it, one replaces it, the others leave it.                               *)
LEMMA StepsOfTheCore ==
  ASSUME [Next]_vars
  PROVE  \/ \E every \in Cadences, found \in Detections : Infer(every, found)
         \/ Reload /\ CoreRebuilt
         \/ UNCHANGED coreVars
<1>1. CASE UNCHANGED vars
  BY <1>1 DEF vars
<1>2. CASE RequestReload \/ RequestStop
  BY <1>2 DEF RequestReload, RequestStop
<1>3. CASE CaptureThread
  <2>1. CASE \E every \in Cadences, found \in Detections : Infer(every, found)
    BY <2>1
  <2>2. CASE Reload
    BY <2>2 DEF Reload
  <2>3. CASE \/ Connect \/ ConnectFails \/ SeeStop \/ NoReload
             \/ ReadFails \/ Raises \/ SkipIdle \/ Replay
    BY <2>3 DEF Connect, ConnectFails, SeeStop, NoReload, ReadFails, Raises, SkipIdle, Replay
  <2> QED BY <1>3, <2>1, <2>2, <2>3 DEF CaptureThread
<1> QED BY <1>1, <1>2, <1>3 DEF Next

(* Every step keeps the types of the core and its cumulative counts.       *)
LEMMA CoreInvStep ==
  ASSUME CoreTypeOK, CountedOnce, frame \in Nat, [Next]_vars
  PROVE  (CoreTypeOK /\ CountedOnce)'
<1>1. ASSUME NEW every \in Cadences, NEW found \in Detections, Infer(every, found)
      PROVE  (CoreTypeOK /\ CountedOnce)'
  <2>1. ProcessFrame(frame, every, found, FALSE)
    BY <1>1 DEF Infer
  <2> QED BY <2>1, CoreStep
<1>2. CASE Reload /\ CoreRebuilt
  BY <1>2, FreshCore
<1>3. CASE UNCHANGED coreVars
  BY <1>3, CoreUnchanged
<1> QED BY <1>1, <1>2, <1>3, StepsOfTheCore

(* What the loop itself keeps, beside the core.                            *)
LoopTypeOK ==
    /\ loop \in {"connect", "turn", "read", "ended"}
    /\ attempts \in 0..MaxAttempts + 1 /\ failures \in 0..MaxReadFailures + 1
    /\ frame \in Nat /\ connections \in Nat /\ cores \in Nat
    /\ hasLast \in BOOLEAN /\ motionGated \in BOOLEAN
    /\ reload \in BOOLEAN /\ stopping \in BOOLEAN
    /\ enqueued \in [Tracks \X Lanes -> 0..EnqueueMax]
    /\ DOMAIN unseen = Known

(* A crossing that is handed over is counted up to the bound.              *)
LEMMA EnqueueType ==
  ASSUME enqueued \in [Tracks \X Lanes -> 0..EnqueueMax], NEW C, Enqueue(C)
  PROVE  enqueued' \in [Tracks \X Lanes -> 0..EnqueueMax]
BY CaptureAssumption DEF Enqueue

(* Every step keeps the types of the loop.                                 *)
LEMMA LoopTypeStep ==
  ASSUME CoreTypeOK, LoopTypeOK, TriesInv, [Next]_vars
  PROVE  (LoopTypeOK /\ TriesInv)'
<1> USE CaptureAssumption
<1>1. CASE Connect
  BY <1>1
  DEF Connect, LoopTypeOK, TriesInv, Known, coreVars, readerVars,
      signalVars, historyVars
<1>2. CASE ConnectFails
  BY <1>2
  DEF ConnectFails, LoopTypeOK, TriesInv, Known, coreVars, readerVars,
      signalVars, historyVars
<1>3. CASE SeeStop
  BY <1>3
  DEF SeeStop, LoopTypeOK, TriesInv, Known, coreVars, readerVars,
      signalVars, historyVars
<1>4. CASE Reload
  <2>1. CASE /\ CoreRebuilt /\ unseen' = [t \in {} |-> 0]
             /\ hasLast' = FALSE /\ cores' = cores + 1
    <3>3. DOMAIN unseen' = Known'
      BY <2>1 DEF CoreRebuilt, Fresh, Known
    <3>4. /\ loop \in {"turn"} /\ loop' = "read" /\ reload' = FALSE
          /\ UNCHANGED <<attempts, failures, connections, frame, motionGated, stopping,
                         enqueued>>
          /\ hasLast' = FALSE /\ cores' = cores + 1
      BY <1>4, <2>1 DEF Reload
    <3>5. cores \in Nat /\ cores + 1 \in Nat
      BY DEF LoopTypeOK
    <3>6. TriesInv'
      BY <3>4 DEF TriesInv, LoopTypeOK
    <3>7. /\ loop' \in {"connect", "turn", "read", "ended"}
          /\ attempts' \in 0..MaxAttempts + 1 /\ failures' \in 0..MaxReadFailures + 1
          /\ frame' \in Nat /\ connections' \in Nat /\ cores' \in Nat
          /\ hasLast' \in BOOLEAN /\ motionGated' \in BOOLEAN
          /\ reload' \in BOOLEAN /\ stopping' \in BOOLEAN
          /\ enqueued' \in [Tracks \X Lanes -> 0..EnqueueMax]
      BY <3>4, <3>5 DEF LoopTypeOK
    <3> QED BY <3>3, <3>6, <3>7 DEF LoopTypeOK
  <2>2. CASE UNCHANGED <<coreVars, hasLast, historyVars>>
    BY <1>4, <2>2 DEF Reload, LoopTypeOK, TriesInv, Known, coreVars, historyVars
  <2> QED BY <1>4, <2>1, <2>2 DEF Reload
<1>5. CASE NoReload
  BY <1>5
  DEF NoReload, LoopTypeOK, TriesInv, Known, coreVars, readerVars,
      signalVars, historyVars
<1>6. CASE ReadFails
  BY <1>6
  DEF ReadFails, LoopTypeOK, TriesInv, Known, coreVars, readerVars,
      signalVars, historyVars
<1>7. CASE Raises
  BY <1>7
  DEF Raises, LoopTypeOK, TriesInv, Known, coreVars, readerVars,
      signalVars, historyVars
<1>8. CASE SkipIdle
  BY <1>8
  DEF SkipIdle, FrameRead, LoopTypeOK, TriesInv, Known, coreVars,
      readerVars, signalVars, historyVars
<1>9. CASE Replay
  <2>1. enqueued' \in [Tracks \X Lanes -> 0..EnqueueMax]
    BY <1>9, EnqueueType DEF Replay, LoopTypeOK
  <2> QED BY <1>9, <2>1
         DEF Replay, FrameRead, LoopTypeOK, TriesInv, Known, coreVars, signalVars, historyVars
<1>10. CASE RequestReload
  BY <1>10
  DEF RequestReload, LoopTypeOK, TriesInv, Known, coreVars, readerVars,
      signalVars, historyVars
<1>11. CASE RequestStop
  BY <1>11
  DEF RequestStop, LoopTypeOK, TriesInv, Known, coreVars, readerVars,
      signalVars, historyVars
<1>12. CASE UNCHANGED vars
  BY <1>12
  DEF vars, LoopTypeOK, TriesInv, Known, coreVars, readerVars, signalVars,
      historyVars
<1>13. ASSUME NEW every \in Cadences, NEW found \in Detections, Infer(every, found)
      PROVE  (LoopTypeOK /\ TriesInv)'
  <2>1. enqueued' \in [Tracks \X Lanes -> 0..EnqueueMax]
    BY <1>13, EnqueueType DEF Infer, LoopTypeOK
  <2>2. DOMAIN unseen' = Known' /\ cores' = cores
    BY <1>13 DEF Infer, Record, LoopTypeOK, Known
  <2>3. /\ FrameRead /\ hasLast' = TRUE
    BY <1>13 DEF Infer
  <2> QED BY <2>1, <2>2, <2>3 DEF FrameRead, LoopTypeOK, TriesInv, signalVars
<1> QED BY <1>1, <1>2, <1>3, <1>4, <1>5, <1>6, <1>7, <1>8, <1>9, <1>10, <1>11, <1>12, <1>13
       DEF Next, CaptureThread

(* Every step keeps the record of what was handed over.                    *)
LEMMA HandedStep ==
  ASSUME CoreTypeOK, LoopTypeOK, HandedInv, [Next]_vars
  PROVE  HandedInv'
<1>1. CASE Connect
  BY <1>1
  DEF Connect, HandedInv, coreVars, readerVars, signalVars, historyVars
<1>2. CASE ConnectFails
  BY <1>2
  DEF ConnectFails, HandedInv, coreVars, readerVars, signalVars,
      historyVars
<1>3. CASE SeeStop
  BY <1>3
  DEF SeeStop, HandedInv, coreVars, readerVars, signalVars, historyVars
<1>4. CASE Reload
  <2>1. enqueued' = enqueued /\ motionGated' = motionGated
    BY <1>4 DEF Reload
  <2>2. CASE CoreRebuilt /\ cores' = cores + 1
    BY <2>1, <2>2 DEF HandedInv, LoopTypeOK
  <2>3. CASE UNCHANGED <<coreVars, hasLast, historyVars>>
    BY <2>1, <2>3 DEF HandedInv, coreVars, historyVars
  <2> QED BY <1>4, <2>2, <2>3 DEF Reload
<1>5. CASE NoReload
  BY <1>5
  DEF NoReload, HandedInv, coreVars, readerVars, signalVars, historyVars
<1>6. CASE ReadFails
  BY <1>6
  DEF ReadFails, HandedInv, coreVars, readerVars, signalVars, historyVars
<1>7. CASE Raises
  BY <1>7
  DEF Raises, HandedInv, coreVars, readerVars, signalVars, historyVars
<1>8. CASE SkipIdle
  BY <1>8
  DEF SkipIdle, FrameRead, HandedInv, coreVars, readerVars, signalVars,
      historyVars
<1>9. CASE Replay
  <2>1. motionGated /\ motionGated' = motionGated /\ cores' = cores
    BY <1>9 DEF Replay, FrameRead, signalVars, historyVars
  <2> QED BY <2>1 DEF HandedInv
<1>10. CASE RequestReload
  BY <1>10
  DEF RequestReload, HandedInv, coreVars, readerVars, signalVars,
      historyVars
<1>11. CASE RequestStop
  BY <1>11
  DEF RequestStop, HandedInv, coreVars, readerVars, signalVars,
      historyVars
<1>12. CASE UNCHANGED vars
  BY <1>12
  DEF vars, HandedInv, coreVars, readerVars, signalVars, historyVars
<1>13. ASSUME NEW every \in Cadences, NEW found \in Detections, Infer(every, found)
      PROVE  HandedInv'
  <2> DEFINE boxes == IF IsDetectFrame(every) THEN found ELSE cache
             new   == Crossings(frame, Updated(frame, boxes))
  <2>1. boxes \in Detections
    BY DEF CoreTypeOK
  <2>2. new \subseteq Tracks \X Lanes /\ new \cap counted = {}
    BY <2>1, CrossingsNew DEF LoopTypeOK
  <2>3. /\ counted' = counted \cup new /\ out'.crossings = new
        /\ motionGated' = motionGated /\ cores' = cores
    BY <1>13 DEF Infer, ProcessFrame, Remembered, Record, FrameRead, signalVars
  <2> HIDE DEF boxes, new
  <2>4. enqueued' = [p \in Tracks \X Lanes |->
            IF p \in new /\ enqueued[p] < EnqueueMax THEN enqueued[p] + 1 ELSE enqueued[p]]
    BY <1>13, <2>3 DEF Infer, Enqueue
  <2>5. ASSUME ~motionGated, NEW p \in Tracks \X Lanes
        PROVE  enqueued'[p] <= cores /\ (p \notin counted' => enqueued'[p] < cores)
    <3>1. /\ enqueued[p] \in Nat /\ cores \in Nat
          /\ enqueued[p] <= cores /\ (p \notin counted => enqueued[p] < cores)
      BY <2>5, CaptureAssumption DEF HandedInv, LoopTypeOK
    <3>2. CASE p \in new
      <4>1. enqueued[p] < cores
        BY <2>2, <3>1, <3>2
      <4>2. enqueued'[p] \in {enqueued[p], enqueued[p] + 1} /\ p \in counted'
        BY <2>3, <2>4, <3>2
      <4> QED BY <3>1, <4>1, <4>2
    <3>3. CASE p \notin new
      BY <2>3, <2>4, <3>1, <3>3
    <3> QED BY <3>2, <3>3
  <2> QED BY <2>3, <2>5 DEF HandedInv
<1> QED BY <1>1, <1>2, <1>3, <1>4, <1>5, <1>6, <1>7, <1>8, <1>9, <1>10, <1>11, <1>12, <1>13
       DEF Next, CaptureThread

(* The boxes of a processed frame, and what the histories make of it.      *)
LEMMA Processed ==
  ASSUME CoreTypeOK, LoopTypeOK, NEW every \in Cadences, NEW found \in Detections,
         Infer(every, found)
  PROVE  \E boxes \in Detections :
            /\ tracks' = Updated(frame, boxes)
            /\ counted' = counted \cup Crossings(frame, Updated(frame, boxes))
            /\ \A t \in DOMAIN tracks' :
                  unseen'[t] = IF t \in DOMAIN boxes THEN 0 ELSE unseen[t] + 1
            /\ frame' = frame + 1 /\ connections' = connections
            /\ loop = "read" /\ loop' = "turn"
<1> DEFINE boxes == IF IsDetectFrame(every) THEN found ELSE cache
<1>1. boxes \in Detections
  BY DEF CoreTypeOK
<1>2. /\ tracks' = Updated(frame, boxes)
      /\ counted' = counted \cup Crossings(frame, Updated(frame, boxes))
      /\ frame' = frame + 1 /\ connections' = connections
      /\ loop = "read" /\ loop' = "turn"
  BY DEF Infer, ProcessFrame, Remembered, FrameRead
<1>3. \A t \in DOMAIN tracks' : unseen'[t] = IF t \in DOMAIN boxes THEN 0 ELSE unseen[t] + 1
  BY DEF Infer, Record
<1> HIDE DEF boxes
<1> QED BY <1>1, <1>2, <1>3

(* The steps that leave the core alone, or replace it, by what they do to  *)
(* the frame numbers.                                                      *)
LEMMA OtherSteps ==
  ASSUME LoopTypeOK, [Next]_vars
  PROVE  \/ \E every \in Cadences, found \in Detections : Infer(every, found)
         \/ /\ tracks' = [t \in {} |-> 0] /\ unseen' = [t \in {} |-> 0]
            /\ loop = "turn" /\ loop' = "read" /\ connections' = connections
         \/ /\ UNCHANGED <<tracks, unseen, counted, connections>>
            /\ frame' \in {frame, frame + 1}
            /\ loop' \in {"turn", "read"} => loop \in {"turn", "read"}
         \/ /\ UNCHANGED <<tracks, unseen, counted>>
            /\ connections' = connections + 1
<1>1. CASE UNCHANGED vars
  BY <1>1 DEF vars, coreVars, readerVars, historyVars
<1>2. CASE RequestReload \/ RequestStop
  BY <1>2 DEF RequestReload, RequestStop, coreVars, readerVars, historyVars
<1>3. CASE CaptureThread
  <2>1. CASE \E every \in Cadences, found \in Detections : Infer(every, found)
    BY <2>1
  <2>2. CASE Reload
    <3>1. CASE CoreRebuilt /\ unseen' = [t \in {} |-> 0]
      BY <2>2, <3>1 DEF Reload, CoreRebuilt, Fresh
    <3>2. CASE UNCHANGED <<coreVars, hasLast, historyVars>>
      BY <2>2, <3>2 DEF Reload, coreVars, historyVars
    <3> QED BY <2>2, <3>1, <3>2 DEF Reload
  <2>3. CASE Connect
    BY <2>3 DEF Connect, coreVars, historyVars
  <2>4. CASE ConnectFails \/ SeeStop
    BY <2>4 DEF ConnectFails, SeeStop, coreVars, historyVars
  <2>5. CASE NoReload \/ ReadFails \/ Raises
    BY <2>5 DEF NoReload, ReadFails, Raises, coreVars, historyVars
  <2>6. CASE SkipIdle \/ Replay
    BY <2>6 DEF SkipIdle, Replay, FrameRead, coreVars, historyVars
  <2> QED BY <1>3, <2>1, <2>2, <2>3, <2>4, <2>5, <2>6 DEF CaptureThread
<1> QED BY <1>1, <1>2, <1>3 DEF Next

(* Every step keeps the ages of the tracks out of sight.                   *)
LEMMA SightStep ==
  ASSUME CoreTypeOK, LoopTypeOK, SightInv, [Next]_vars
  PROVE  SightInv'
<1> USE CoreAssumption
<1>0. /\ frame \in Nat /\ connections \in Nat /\ DOMAIN unseen = Known
      /\ \A t \in Known : tracks[t] \in TrackStates /\ tracks[t].last \in Nat
  BY DEF LoopTypeOK, CoreTypeOK, TrackStates
<1>1. ASSUME NEW every \in Cadences, NEW found \in Detections, Infer(every, found)
      PROVE  SightInv'
  <2>1. PICK boxes \in Detections :
            /\ tracks' = Updated(frame, boxes)
            /\ \A t \in DOMAIN tracks' :
                  unseen'[t] = IF t \in DOMAIN boxes THEN 0 ELSE unseen[t] + 1
            /\ frame' = frame + 1 /\ connections' = connections
            /\ loop = "read" /\ loop' = "turn"
    BY <1>1, Processed
  <2>2. connections' >= 1
    BY <2>1 DEF SightInv
  <2>3. ASSUME NEW t \in DOMAIN tracks'
        PROVE  /\ unseen'[t] \in Nat
               /\ connections <= 1 =>
                     unseen'[t] <= TrackTimeout /\ tracks'[t].last + unseen'[t] < frame'
    <3>1. CASE t \in DOMAIN boxes
      <4>1. unseen'[t] = 0 /\ tracks'[t].last = frame
        BY <1>0, <2>1, <2>3, <3>1, UpdatedTrack
      <4> QED BY <1>0, <2>1, <4>1
    <3>2. CASE t \notin DOMAIN boxes
      <4>1. /\ t \in Known /\ Survives(t, frame) /\ tracks'[t] = tracks[t]
        BY <1>0, <2>1, <2>3, <3>2, UpdatedTrack
      <4>2. unseen'[t] = unseen[t] + 1 /\ unseen[t] \in Nat
        BY <2>1, <2>3, <3>2, <4>1 DEF SightInv
      <4>3. frame - tracks[t].last <= TrackTimeout /\ tracks[t].last \in Nat
        BY <1>0, <4>1 DEF Survives
      <4>4. connections <= 1 => tracks[t].last + unseen[t] < frame
        BY <4>1 DEF SightInv
      <4> QED BY <1>0, <2>1, <4>1, <4>2, <4>3, <4>4
    <3> QED BY <3>1, <3>2
  <2> QED BY <1>0, <2>1, <2>2, <2>3 DEF SightInv, Known
<1>2. CASE /\ tracks' = [t \in {} |-> 0] /\ unseen' = [t \in {} |-> 0]
           /\ loop = "turn" /\ loop' = "read" /\ connections' = connections
  BY <1>0, <1>2 DEF SightInv, Known
<1>3. CASE /\ UNCHANGED <<tracks, unseen, counted, connections>>
           /\ frame' \in {frame, frame + 1}
           /\ loop' \in {"turn", "read"} => loop \in {"turn", "read"}
  <2>1. \A t \in Known : unseen[t] \in Nat
    BY DEF SightInv
  <2> QED BY <1>0, <1>3, <2>1 DEF SightInv, Known
<1>4. CASE UNCHANGED <<tracks, unseen, counted>> /\ connections' = connections + 1
  BY <1>0, <1>4 DEF SightInv, Known
<1> QED BY <1>1, <1>2, <1>3, <1>4, OtherSteps

(* Every step keeps who is in sight among the counted.                     *)
LEMMA OccupantsStep ==
  ASSUME CoreTypeOK, LoopTypeOK, SightInv, OccupantsInv, [Next]_vars
  PROVE  OccupantsInv'
<1>0. frame \in Nat
  BY DEF LoopTypeOK
<1>1. ASSUME NEW every \in Cadences, NEW found \in Detections, Infer(every, found)
      PROVE  OccupantsInv'
  <2>1. PICK boxes \in Detections :
            /\ tracks' = Updated(frame, boxes)
            /\ counted' = counted \cup Crossings(frame, Updated(frame, boxes))
            /\ \A t \in DOMAIN tracks' :
                  unseen'[t] = IF t \in DOMAIN boxes THEN 0 ELSE unseen[t] + 1
    BY <1>1, Processed
  <2> SUFFICES ASSUME NEW t \in DOMAIN tracks', unseen'[t] = 0,
                      IsCounted(tracks'[t], tracks'[t].last)
               PROVE  <<t, tracks'[t].stable>> \in counted'
    BY DEF OccupantsInv, Known, IsCounted, Age
  <2>2. t \in DOMAIN boxes
    <3> SUFFICES ASSUME t \notin DOMAIN boxes PROVE FALSE
      OBVIOUS
    <3>1. t \in Known
      BY <1>0, <2>1, UpdatedTrack
    <3>2. unseen[t] \in Nat /\ unseen'[t] = unseen[t] + 1
      BY <2>1, <3>1 DEF SightInv
    <3> QED BY <3>2
  <2>3. tracks'[t].last = frame
    BY <1>0, <2>1, <2>2, UpdatedTrack
  <2>4. tracks'[t].stable # NoLane /\ Age(tracks'[t], frame) >= MinAge
    BY <2>3 DEF IsCounted
  <2>5. EffectiveLane(tracks'[t]) = tracks'[t].stable
    BY <2>4 DEF EffectiveLane
  <2> QED BY <2>1, <2>3, <2>4, <2>5 DEF Crossings
<1>2. CASE tracks' = [t \in {} |-> 0]
  BY <1>2 DEF OccupantsInv, Known
<1>3. CASE UNCHANGED <<tracks, unseen, counted>>
  BY <1>3 DEF OccupantsInv, Known, IsCounted, Age
<1> QED BY <1>1, <1>2, <1>3, OtherSteps

(* The last votes of a history that ends with them decide.                 *)
LEMMA LastVotesDecide ==
  ASSUME NEW h \in Seq(Lanes \cup {Unknown}), Len(h) >= Consecutive, NEW l \in Lanes,
         \A i \in Len(h) - Consecutive + 1 .. Len(h) : h[i] = l, NEW stable
  PROVE  Last(h) = l /\ Voted(h, stable) = l
<1>1. Len(h) \in Nat /\ Consecutive \in Nat /\ Consecutive >= 1
  BY CoreAssumption
<1>2. Last(h) = l
  BY <1>1 DEF Last
<1>3. LastEqual(h)
  <2> SUFFICES ASSUME NEW i \in 0 .. Consecutive - 1 PROVE h[Len(h) - i] = Last(h)
    BY DEF LastEqual
  <2>1. Len(h) - i \in Len(h) - Consecutive + 1 .. Len(h)
    BY <1>1
  <2> QED BY <1>2, <2>1
<1> QED BY <1>2, <1>3 DEF Voted

(* Every step keeps the tracks where their last votes put them.            *)
LEMMA VotesStep ==
  ASSUME CoreTypeOK, LoopTypeOK, RecentVotesWin, [Next]_vars
  PROVE  RecentVotesWin'
<1>0. frame \in Nat
  BY DEF LoopTypeOK
<1>1. ASSUME NEW every \in Cadences, NEW found \in Detections, Infer(every, found)
      PROVE  RecentVotesWin'
  <2>1. PICK boxes \in Detections : tracks' = Updated(frame, boxes)
    BY <1>1, Processed
  <2>4. \A x \in DOMAIN tracks' :
           /\ tracks'[x] \in TrackStates
           /\ x \notin DOMAIN boxes => x \in Known /\ tracks'[x] = tracks[x]
    BY <1>0, <2>1, UpdatedTrack
  <2> SUFFICES ASSUME NEW t \in DOMAIN tracks', NEW l \in Lanes,
                      Len(tracks'[t].history) >= Consecutive,
                      \A i \in Len(tracks'[t].history) - Consecutive + 1
                               .. Len(tracks'[t].history) : tracks'[t].history[i] = l
               PROVE  tracks'[t].stable = l
    BY DEF RecentVotesWin, Known
  <2> DEFINE h == tracks'[t].history
  <2>2. CASE t \in DOMAIN boxes
    <3>1. tracks'[t] \in TrackStates
      BY <2>4
    <3>2. h \in Seq(Lanes \cup {Unknown})
      BY <3>1 DEF TrackStates
    <3>3. PICK s \in TrackStates, raw \in Lanes \cup {Unknown} :
               /\ h = Trimmed(s.history, raw) /\ Len(s.history) \in 0 .. Window
               /\ raw \in Lanes => tracks'[t].stable = Voted(h, s.stable)
      BY <1>0, <2>1, <2>2, UpdatedVotes
    <3>4. Last(h) = l /\ Voted(h, s.stable) = l
      BY <3>2, LastVotesDecide
    <3>5. Last(h) = raw
      BY <3>3, TrimmedHistory DEF TrackStates
    <3> QED BY <3>3, <3>4, <3>5
  <2>3. CASE t \notin DOMAIN boxes
    <3>1. t \in Known /\ tracks'[t] = tracks[t]
      BY <2>3, <2>4
    <3> QED BY <3>1 DEF RecentVotesWin
  <2> QED BY <2>2, <2>3
<1>2. CASE tracks' = [t \in {} |-> 0]
  BY <1>2 DEF RecentVotesWin, Known
<1>3. CASE UNCHANGED tracks
  BY <1>3 DEF RecentVotesWin, Known
<1> QED BY <1>1, <1>2, <1>3, OtherSteps

(* Every step leaves the cached boxes as the model found them.             *)
LEMMA CacheStep ==
  ASSUME ReplayedAsDetected, [Next]_vars
  PROVE  ReplayedAsDetected'
<1>1. ASSUME NEW every \in Cadences, NEW found \in Detections, Infer(every, found)
      PROVE  ReplayedAsDetected'
  BY <1>1 DEF Infer, ProcessFrame, ReplayedAsDetected
<1>2. CASE CaptureThread /\ ~\E every \in Cadences, found \in Detections : Infer(every, found)
  <2>1. CASE Reload
    BY <2>1 DEF Reload, CoreRebuilt, Fresh, ReplayedAsDetected, coreVars, historyVars
  <2>2. CASE \/ Connect \/ ConnectFails \/ SeeStop \/ NoReload
             \/ ReadFails \/ Raises \/ SkipIdle \/ Replay
    BY <2>2 DEF Connect, ConnectFails, SeeStop, NoReload, ReadFails, Raises, SkipIdle,
                Replay, ReplayedAsDetected, coreVars, historyVars
  <2> QED BY <1>2, <2>1, <2>2 DEF CaptureThread
<1>3. CASE RequestReload \/ RequestStop \/ UNCHANGED vars
  BY <1>3 DEF RequestReload, RequestStop, vars, ReplayedAsDetected, coreVars, historyVars
<1> QED BY <1>1, <1>2, <1>3 DEF Next

----------------------------------------------------------------------------
(* The theorems.                                                           *)

(* Initially.                                                              *)
LEMMA Initially ==
  ASSUME Init
  PROVE  /\ CoreTypeOK /\ CountedOnce /\ LoopTypeOK /\ TriesInv /\ HandedInv
         /\ SightInv /\ OccupantsInv /\ RecentVotesWin /\ ReplayedAsDetected
<1> USE CaptureAssumption
<1>1. CoreTypeOK /\ CountedOnce
  BY FreshCore DEF Init
<1>2. cache = NoBoxes /\ tracks = [t \in {} |-> 0] /\ Known = {} /\ detected = cache
  BY DEF Init, CoreInit, Fresh, Known
<1>4. DOMAIN unseen = Known
  BY <1>2 DEF Init
<1>5. LoopTypeOK
  <2>1. /\ loop = "connect" /\ attempts = 0 /\ failures = 0 /\ connections = 0
        /\ frame = 0 /\ hasLast = FALSE /\ motionGated \in BOOLEAN
        /\ reload = FALSE /\ stopping = FALSE /\ cores = 1
    BY DEF Init
  <2>2. enqueued \in [Tracks \X Lanes -> 0..EnqueueMax]
    BY DEF Init
  <2>3. attempts \in 0..MaxAttempts + 1 /\ failures \in 0..MaxReadFailures + 1
    BY <2>1
  <2> QED BY <1>4, <2>1, <2>2, <2>3 DEF LoopTypeOK
<1>6. TriesInv /\ HandedInv
  BY DEF Init, TriesInv, HandedInv
<1>7. SightInv /\ OccupantsInv /\ RecentVotesWin /\ ReplayedAsDetected
  BY <1>2 DEF Init, SightInv, OccupantsInv, RecentVotesWin, ReplayedAsDetected
<1> QED BY <1>1, <1>5, <1>6, <1>7

(* The cumulative count of a lane is the number of tracks counted in it;   *)
(* and the loop and its core keep their types.                             *)
THEOREM CountsAreTracks == Spec => [](CoreTypeOK /\ LoopTypeOK /\ TriesInv /\ CountedOnce)
<1> DEFINE I == CoreTypeOK /\ LoopTypeOK /\ TriesInv /\ CountedOnce
<1>1. Init => I
  BY Initially
<1>2. I /\ [Next]_vars => I'
  <2> SUFFICES ASSUME I, [Next]_vars PROVE I'
    OBVIOUS
  <2>1. frame \in Nat
    BY DEF LoopTypeOK
  <2> QED BY <2>1, CoreInvStep, LoopTypeStep
<1> QED BY <1>1, <1>2, PTL DEF Spec

(* The type invariant.                                                     *)
THEOREM CaptureTypes == Spec => []TypeOK
<1>1. CoreTypeOK /\ LoopTypeOK => TypeOK
  BY DEF TypeOK, LoopTypeOK
<1> QED BY <1>1, CountsAreTracks, PTL

(* On a source without motion gating one core hands a crossing to the      *)
(* storage worker once, over all reconnects, skipped frames and reloads.   *)
THEOREM HandedOverOnce == Spec => []EnqueuedOncePerCore
<1>1. Init => HandedInv
  BY Initially
<1>2. HandedInv => EnqueuedOncePerCore
  BY DEF HandedInv, EnqueuedOncePerCore
<1> QED BY <1>1, <1>2, HandedStep, CountsAreTracks, PTL DEF Spec

(* On the first connection a track is out of the statistics once it has    *)
(* been out of sight for the timeout, whatever frames were skipped.        *)
THEOREM GhostsAreForgotten == Spec => [](SightInv /\ GhostsExpire)
<1>1. Init => SightInv
  BY Initially
<1>2. SightInv => GhostsExpire
  BY DEF SightInv, GhostsExpire
<1> QED BY <1>1, <1>2, SightStep, CountsAreTracks, PTL DEF Spec

(* Who counts in the occupancy of the frame that shows it has been counted *)
(* as a crossing of that lane.                                             *)
THEOREM OccupantsAreCounted == Spec => []SeenOccupantsCounted
<1>1. Init => OccupantsInv
  BY Initially
<1>2. CoreTypeOK /\ LoopTypeOK /\ OccupantsInv => SeenOccupantsCounted
  <2> SUFFICES ASSUME CoreTypeOK, LoopTypeOK, OccupantsInv, NEW t \in Known,
                      tracks[t].last = frame - 1, unseen[t] = 0,
                      IsCounted(tracks[t], frame - 1)
               PROVE  <<t, tracks[t].stable>> \in counted
    BY DEF SeenOccupantsCounted
  <2> QED BY DEF OccupantsInv
<1> QED BY <1>1, <1>2, OccupantsStep, GhostsAreForgotten, CountsAreTracks, PTL DEF Spec

(* The last consecutive votes decide a track's lane, against any majority  *)
(* of older ones in the window.                                            *)
THEOREM LastVotesWin == Spec => []RecentVotesWin
<1>1. Init => RecentVotesWin
  BY Initially
<1> QED BY <1>1, VotesStep, CountsAreTracks, PTL DEF Spec

(* The boxes replayed between detections are those of the last detection.  *)
THEOREM BoxesAsDetected == Spec => []ReplayedAsDetected
<1>1. Init => ReplayedAsDetected
  BY Initially
<1> QED BY <1>1, CacheStep, PTL DEF Spec

----------------------------------------------------------------------------
(* The records of a sink.                                                  *)

Entries == Items \cup {Stop}

(* Appending adds one element to what a sequence holds.                    *)
LEMMA RangeAppend ==
  ASSUME NEW S, NEW q \in Seq(S), NEW x \in S
  PROVE  Range(Append(q, x)) = Range(q) \cup {x}
<1>1. /\ Append(q, x) \in Seq(S) /\ Len(Append(q, x)) = Len(q) + 1
      /\ \A i \in 1 .. Len(q) : Append(q, x)[i] = q[i]
      /\ Append(q, x)[Len(q) + 1] = x
  OBVIOUS
<1>2. DOMAIN q = 1 .. Len(q) /\ DOMAIN Append(q, x) = 1 .. Len(q) + 1
  BY <1>1
<1> QED BY <1>1, <1>2 DEF Range

(* The head of a sequence and the rest.                                    *)
LEMMA HeadAndTail ==
  ASSUME NEW S, NEW q \in Seq(S), q # <<>>
  PROVE  /\ Head(q) = q[1] /\ Tail(q) \in Seq(S)
         /\ DOMAIN q = 1 .. Len(q) /\ Len(q) \in Nat \ {0}
         /\ DOMAIN Tail(q) = 1 .. Len(q) - 1
         /\ \A i \in DOMAIN Tail(q) : i + 1 \in DOMAIN q /\ Tail(q)[i] = q[i + 1]
         /\ Range(q) = {Head(q)} \cup Range(Tail(q))
<1>1. /\ Tail(q) \in Seq(S) /\ Len(Tail(q)) = Len(q) - 1
      /\ \A i \in 1 .. Len(Tail(q)) : Tail(q)[i] = q[i + 1]
      /\ Len(q) \in Nat \ {0} /\ Head(q) = q[1]
  BY HeadTailProperties, EmptySeq
<1>2. /\ DOMAIN q = 1 .. Len(q) /\ DOMAIN Tail(q) = 1 .. Len(q) - 1
  BY <1>1
<1>3. Range(q) \subseteq {Head(q)} \cup Range(Tail(q))
  <2> SUFFICES ASSUME NEW i \in 1 .. Len(q), i # 1 PROVE q[i] \in Range(Tail(q))
    BY <1>1, <1>2 DEF Range
  <2>1. i - 1 \in 1 .. Len(q) - 1 /\ Tail(q)[i - 1] = q[i]
    BY <1>1
  <2> QED BY <1>2, <2>1 DEF Range
<1>4. {Head(q)} \cup Range(Tail(q)) \subseteq Range(q)
  BY <1>1, <1>2 DEF Range
<1> QED BY <1>1, <1>2, <1>3, <1>4

(* A record that is put at the end of the queue is the last of all.        *)
LEMMA LineFed ==
  ASSUME NEW d, NEW h, NEW q \in Seq(Entries), InLine(d, h, q), Stop \notin Range(q),
         NEW item \in Items, \A r \in Records(d, h, q) : r.frame < item.frame
  PROVE  /\ InLine(d, h, Append(q, item))
         /\ Records(d, h, Append(q, item)) = Records(d, h, q) \cup {item}
<1> DEFINE longer == Append(q, item)
<1>1. Range(longer) = Range(q) \cup {item} /\ item # Stop
  BY RangeAppend, StopAssumption DEF Entries
<1>2. Queued(longer) = Queued(q) \cup {item} /\ Queued(q) = Range(q)
  BY <1>1 DEF Queued
<1>3. /\ DOMAIN longer = 1 .. Len(q) + 1 /\ DOMAIN q = 1 .. Len(q) /\ Len(q) \in Nat
      /\ \A i \in 1 .. Len(q) : longer[i] = q[i]
      /\ longer[Len(q) + 1] = item
  BY DEF Entries
<1>4. \A i \in 1 .. Len(q) : q[i] \in Range(q)
  BY <1>3 DEF Range
<1>5. \A i \in 1 .. Len(q) : q[i] # Stop /\ q[i].frame < item.frame
  BY <1>2, <1>4 DEF Records, Coming
<1> HIDE DEF longer
<1>6. ASSUME NEW i \in DOMAIN longer, NEW j \in DOMAIN longer, i < j
      PROVE  longer[i] # Stop /\ (longer[j] # Stop => longer[i].frame < longer[j].frame)
  <2>1. i \in 1 .. Len(q)
    BY <1>3, <1>6
  <2>2. CASE j \in 1 .. Len(q)
    BY <1>3, <1>5, <1>6, <2>1, <2>2 DEF InLine
  <2>3. CASE j = Len(q) + 1
    BY <1>3, <1>5, <2>1, <2>3
  <2> QED BY <1>3, <2>2, <2>3
<1>7. Coming(h, longer) = Coming(h, q) \cup {item}
  BY <1>2 DEF Coming
<1>8. /\ \A r \in Range(d) : r.frame < item.frame
      /\ h # Idle => h.frame < item.frame
  BY DEF Records, Coming
<1>9. /\ \A r \in Range(d), c \in Coming(h, longer) : r.frame < c.frame
      /\ h # Idle => \A c \in Queued(longer) : h.frame < c.frame
  BY <1>2, <1>7, <1>8 DEF InLine
<1>10. InLine(d, h, longer)
  BY <1>6, <1>9 DEF InLine
<1> QED BY <1>7, <1>10 DEF Records, longer

(* The stop item after the last record changes nothing of the records.     *)
LEMMA LineClosed ==
  ASSUME NEW d, NEW h, NEW q \in Seq(Entries), InLine(d, h, q), Stop \notin Range(q)
  PROVE  InLine(d, h, Append(q, Stop)) /\ Records(d, h, Append(q, Stop)) = Records(d, h, q)
<1> DEFINE longer == Append(q, Stop)
<1>1. Range(longer) = Range(q) \cup {Stop}
  BY RangeAppend DEF Entries
<1>2. Queued(longer) = Queued(q)
  BY <1>1 DEF Queued
<1>3. /\ DOMAIN longer = 1 .. Len(q) + 1 /\ DOMAIN q = 1 .. Len(q) /\ Len(q) \in Nat
      /\ \A i \in 1 .. Len(q) : longer[i] = q[i]
      /\ longer[Len(q) + 1] = Stop
  BY DEF Entries
<1>4. \A i \in 1 .. Len(q) : q[i] # Stop
  BY <1>3 DEF Range
<1> HIDE DEF longer
<1>5. ASSUME NEW i \in DOMAIN longer, NEW j \in DOMAIN longer, i < j
      PROVE  longer[i] # Stop /\ (longer[j] # Stop => longer[i].frame < longer[j].frame)
  <2>1. i \in 1 .. Len(q)
    BY <1>3, <1>5
  <2>2. CASE j \in 1 .. Len(q)
    BY <1>3, <1>4, <1>5, <2>1, <2>2 DEF InLine
  <2>3. CASE j = Len(q) + 1
    BY <1>3, <1>4, <2>1, <2>3
  <2> QED BY <1>3, <2>2, <2>3
<1>6. InLine(d, h, longer)
  BY <1>2, <1>5 DEF InLine, Coming
<1> QED BY <1>2, <1>6 DEF Records, Coming, longer

(* The thread takes the first record.                                      *)
LEMMA LineTaken ==
  ASSUME NEW d, NEW q \in Seq(Entries), q # <<>>, Head(q) # Stop, InLine(d, Idle, q)
  PROVE  /\ InLine(d, Head(q), Tail(q))
         /\ Records(d, Head(q), Tail(q)) = Records(d, Idle, q)
<1> DEFINE h == Head(q)
           rest == Tail(q)
<1>1. /\ h = q[1] /\ DOMAIN q = 1 .. Len(q) /\ Len(q) \in Nat \ {0}
      /\ DOMAIN rest = 1 .. Len(q) - 1
      /\ \A i \in DOMAIN rest : i + 1 \in DOMAIN q /\ rest[i] = q[i + 1]
      /\ Range(q) = {h} \cup Range(rest)
  BY HeadAndTail
<1>2. h \in Entries /\ h # Idle
  BY <1>1, StopAssumption DEF Entries, Items, Idle
<1> HIDE DEF h, rest
<1>3. Coming(h, rest) = Coming(Idle, q) /\ Queued(rest) \subseteq Queued(q)
  BY <1>1, <1>2 DEF Coming, Queued, h
<1>4. ASSUME NEW c \in Queued(rest) PROVE h.frame < c.frame
  <2>1. PICK i \in DOMAIN rest : c = rest[i] /\ c # Stop
    BY DEF Queued, Range
  <2>2. i + 1 \in DOMAIN q /\ c = q[i + 1] /\ 1 \in DOMAIN q /\ 1 < i + 1
    BY <1>1, <2>1
  <2> QED BY <1>1, <2>1, <2>2 DEF InLine
<1>5. ASSUME NEW i \in DOMAIN rest, NEW j \in DOMAIN rest, i < j
      PROVE  rest[i] # Stop /\ (rest[j] # Stop => rest[i].frame < rest[j].frame)
  <2>1. /\ i + 1 \in DOMAIN q /\ j + 1 \in DOMAIN q /\ i + 1 < j + 1
        /\ rest[i] = q[i + 1] /\ rest[j] = q[j + 1]
    BY <1>1, <1>5
  <2> QED BY <2>1 DEF InLine
<1>6. InLine(d, h, rest)
  BY <1>3, <1>4, <1>5 DEF InLine
<1> QED BY <1>3, <1>6 DEF Records, h, rest

(* The stop item is taken only from an otherwise empty queue.              *)
LEMMA LineEnded ==
  ASSUME NEW d, NEW q \in Seq(Entries), q # <<>>, Head(q) = Stop, InLine(d, Idle, q)
  PROVE  /\ Tail(q) = <<>> /\ InLine(d, Idle, Tail(q))
         /\ Records(d, Idle, Tail(q)) = Records(d, Idle, q)
<1>1. /\ Head(q) = q[1] /\ Tail(q) \in Seq(Entries)
      /\ DOMAIN q = 1 .. Len(q) /\ Len(q) \in Nat \ {0}
      /\ DOMAIN Tail(q) = 1 .. Len(q) - 1
      /\ Range(q) = {Head(q)} \cup Range(Tail(q))
  BY HeadAndTail
<1>2. Len(q) = 1
  <2> SUFFICES ASSUME Len(q) # 1 PROVE FALSE
    OBVIOUS
  <2>1. 1 \in DOMAIN q /\ 2 \in DOMAIN q /\ 1 < 2
    BY <1>1
  <2> QED BY <1>1, <2>1 DEF InLine
<1>3. Len(Tail(q)) = 0
  BY <1>1, <1>2
<1>4. Tail(q) = <<>>
  BY <1>1, <1>3, EmptySeq
<1>5. Range(<<>>) = {} /\ Range(q) = {Stop}
  BY <1>1, <1>4 DEF Range
<1>6. Coming(Idle, <<>>) = {} /\ Coming(Idle, q) = {}
  BY <1>5 DEF Coming, Queued
<1>7. InLine(d, Idle, <<>>)
  BY <1>6 DEF InLine
<1> QED BY <1>4, <1>6, <1>7 DEF Records

(* What the thread had in hand is the last it has written.                 *)
LEMMA LineWritten ==
  ASSUME NEW d \in Seq(Items), NEW h \in Items, NEW q, InLine(d, h, q)
  PROVE  /\ InLine(Append(d, h), Idle, q)
         /\ Records(Append(d, h), Idle, q) = Records(d, h, q)
<1> DEFINE longer == Append(d, h)
<1>1. Range(longer) = Range(d) \cup {h}
  BY RangeAppend
<1>2. /\ DOMAIN longer = 1 .. Len(d) + 1 /\ DOMAIN d = 1 .. Len(d) /\ Len(d) \in Nat
      /\ \A i \in 1 .. Len(d) : longer[i] = d[i]
      /\ longer[Len(d) + 1] = h
  OBVIOUS
<1>3. h # Idle
  BY DEF Items, Idle
<1>4. Coming(h, q) = {h} \cup Queued(q) /\ Coming(Idle, q) = Queued(q)
  BY <1>3 DEF Coming
<1> HIDE DEF longer
<1>5. ASSUME NEW i \in DOMAIN longer, NEW j \in DOMAIN longer, i < j
      PROVE  longer[i].frame < longer[j].frame
  <2>1. i \in 1 .. Len(d) /\ longer[i] = d[i]
    BY <1>2, <1>5
  <2>2. CASE j \in 1 .. Len(d)
    BY <1>2, <1>5, <2>1, <2>2 DEF InLine
  <2>3. CASE j = Len(d) + 1
    <3>1. d[i] \in Range(d) /\ longer[j] = h
      BY <1>2, <2>1, <2>3 DEF Range
    <3> QED BY <1>4, <2>1, <3>1 DEF InLine
  <2> QED BY <1>2, <2>2, <2>3
<1>6. \A r \in Range(longer), c \in Coming(Idle, q) : r.frame < c.frame
  BY <1>1, <1>3, <1>4 DEF InLine
<1>7. InLine(longer, Idle, q)
  BY <1>5, <1>6 DEF InLine
<1>8. Records(longer, Idle, q) = Records(d, h, q)
  BY <1>1, <1>4 DEF Records
<1> QED BY <1>7, <1>8 DEF longer

----------------------------------------------------------------------------
(* A run of the pipeline.                                                  *)

(* A frame that is read is put on the queues of these sinks or dropped      *)
(* there: of all, or of fewer if it raises.                                *)
FrameGiven(item, sinks) ==
    /\ NextFrame /\ item.frame = index + 1 /\ Feed(item, sinks)
    /\ \/ sinks = Sinks /\ UNCHANGED <<step, broken>>
       \/ sinks \in {{}, {Log}} /\ step' = "put" /\ broken' = index + 1

(* Its record is what the core gave out: what was cut off, and what was     *)
(* given on and noted, which is all of it once it is in a queue.            *)
Counts(found, item, sinks) ==
    /\ Core(found)
    /\ item.crossings = out'.crossings /\ item.changes = out'.changes
    /\ cut' \subseteq out'.crossings /\ Give(out'.crossings \ cut')
    /\ rows \subseteq rows' /\ rows' \subseteq rows \cup {<<index + 1, c>> : c \in out'.changes}
    /\ (sinks = Sinks => cut' = {}) /\ (sinks # {} => cut' = {} /\ Note(item.changes))

FrameSeen(found) ==
    Process(found) \/ RaisesGiving(found) \/ RaisesNoting(found) \/ RaisesDrawing(found)
FrameUnseen == Skip \/ RaisesEarly \/ RaisesDrawingSkipped

(* What a sink is left with by any other step.                             *)
SameRecords(s) ==
    /\ InLine(disk[s], hand[s], queue[s])' /\ Recorded(s)' = Recorded(s)
    /\ dropped'[s] = dropped[s] /\ UNCHANGED <<index, logs, broken>>

(* The two sinks have the types of sinks.                                  *)
SinkTypeOK(s) ==
    /\ queue[s] \in Seq(Entries) /\ Len(queue[s]) <= QueueMax
    /\ life[s] \in {"up", "ended", "dead"}
    /\ hand[s] \in Items \cup {Idle}
    /\ disk[s] \in Seq(Items)
    /\ dropped[s] \subseteq 1..LastFrame

FunctionsInv ==
    /\ queue = [s \in Sinks |-> queue[s]] /\ life = [s \in Sinks |-> life[s]]
    /\ hand = [s \in Sinks |-> hand[s]] /\ disk = [s \in Sinks |-> disk[s]]
    /\ dropped = [s \in Sinks |-> dropped[s]]

(* Every step is one of these.                                             *)
LEMMA RunSteps ==
  ASSUME [RunNext]_runVars
  PROVE  \/ \E found \in Detections : FrameSeen(found)
         \/ FrameUnseen
         \/ EndOfFrames \/ PutStop \/ Join \/ Close
         \/ \E s \in Sinks : Take(s) \/ Write(s) \/ Die(s)
         \/ UNCHANGED runVars
BY DEF RunNext, Main, FrameRaises, FrameSeen, FrameUnseen

(* A frame the core has seen has a record, of what the core gave out.      *)
LEMMA SeenFramesAreItems ==
  ASSUME CoreTypeOK, index \in 0..LastFrame, FunctionsInv, cut = {},
         NEW found \in Detections, FrameSeen(found)
  PROVE  \E item \in Items, sinks \in SUBSET Sinks :
             FrameGiven(item, sinks) /\ Counts(found, item, sinks)
<1> USE RunAssumption
<1>1. NextFrame /\ Core(found) /\ index + 1 \in 1 .. LastFrame /\ index + 1 \in Nat
  BY DEF FrameSeen, Process, Finished, RaisesGiving, RaisesNoting, RaisesDrawing, Breaks, NextFrame
<1>2. out'.crossings \subseteq Tracks \X Lanes /\ out'.changes \subseteq LaneChanges
  <2>1. CoreTypeOK'
    BY <1>1, CoreStep DEF Core
  <2> QED BY <2>1 DEF CoreTypeOK, LaneChanges
<1> DEFINE item == FrameRecord
<1>3. /\ item \in Items /\ item.frame = index + 1
      /\ item.crossings = out'.crossings /\ item.changes = out'.changes
  BY <1>1, <1>2 DEF FrameRecord, Items
<1>4. {} \subseteq Sinks /\ {Log} \subseteq Sinks /\ Sinks \subseteq Sinks /\ {} # Sinks /\ {Log} # Sinks
  BY DEF Sinks
<1>5. Note(out'.changes) => rows \subseteq rows'
                            /\ rows' \subseteq rows \cup {<<index + 1, c>> : c \in out'.changes}
  BY DEF Note
<1>6. CASE Process(found)
  <2>1. /\ Feed(item, Sinks) /\ UNCHANGED <<step, broken, cut>>
        /\ Give(out'.crossings) /\ Note(out'.changes)
    BY <1>6 DEF Process, Finished
  <2>2. cut' = {} /\ Give(out'.crossings \ cut')
    BY <2>1 DEF Give
  <2>3. FrameGiven(item, Sinks)
    BY <1>1, <1>3, <2>1 DEF FrameGiven
  <2>4. Counts(found, item, Sinks)
    BY <1>1, <1>3, <1>5, <2>1, <2>2 DEF Counts
  <2> QED BY <1>3, <1>4, <2>3, <2>4
<1>7. (UNCHANGED <<queue, dropped>>) => Feed(item, {})
  BY DEF Feed, FunctionsInv
<1>8. CASE RaisesGiving(found)
  <2>1. /\ Feed(item, {}) /\ step' = "put" /\ broken' = index + 1
        /\ cut' \in SUBSET out'.crossings /\ Give(out'.crossings \ cut') /\ rows' = rows
    BY <1>7, <1>8 DEF RaisesGiving, Breaks
  <2>2. FrameGiven(item, {})
    BY <1>1, <1>3, <2>1 DEF FrameGiven
  <2>3. Counts(found, item, {})
    BY <1>1, <1>3, <1>4, <2>1 DEF Counts
  <2> QED BY <1>3, <1>4, <2>2, <2>3
<1>9. CASE RaisesNoting(found)
  <2>1. /\ Feed(item, {}) /\ step' = "put" /\ broken' = index + 1
        /\ Give(out'.crossings) /\ cut' = {}
    BY <1>7, <1>9 DEF RaisesNoting, Breaks
  <2>2. PICK noted \in SUBSET out'.changes : Note(noted)
    BY <1>9 DEF RaisesNoting
  <2>3. rows \subseteq rows' /\ rows' \subseteq rows \cup {<<index + 1, c>> : c \in out'.changes}
    BY <2>2 DEF Note
  <2>4. Give(out'.crossings \ cut')
    BY <2>1 DEF Give
  <2>5. FrameGiven(item, {})
    BY <1>1, <1>3, <2>1 DEF FrameGiven
  <2>6. Counts(found, item, {})
    BY <1>1, <1>3, <1>4, <2>1, <2>3, <2>4 DEF Counts
  <2> QED BY <1>3, <1>4, <2>5, <2>6
<1>10. CASE RaisesDrawing(found)
  <2>1. /\ Feed(item, {Log}) /\ step' = "put" /\ broken' = index + 1
        /\ Give(out'.crossings) /\ Note(out'.changes) /\ cut' = {}
    BY <1>10 DEF RaisesDrawing, Breaks
  <2>2. Give(out'.crossings \ cut')
    BY <2>1 DEF Give
  <2>3. FrameGiven(item, {Log})
    BY <1>1, <1>3, <2>1 DEF FrameGiven
  <2>4. Counts(found, item, {Log})
    BY <1>1, <1>3, <1>5, <2>1, <2>2 DEF Counts
  <2> QED BY <1>3, <1>4, <2>3, <2>4
<1> QED BY <1>6, <1>8, <1>9, <1>10 DEF FrameSeen

(* Any other frame has an empty one.                                       *)
LEMMA UnseenFramesAreItems ==
  ASSUME index \in 0..LastFrame, FunctionsInv, FrameUnseen
  PROVE  /\ \E item \in Items, sinks \in SUBSET Sinks :
                FrameGiven(item, sinks) /\ item.crossings = {} /\ item.changes = {}
         /\ UNCHANGED <<coreVars, given, rows, cut>>
<1> USE RunAssumption
<1> DEFINE item == [Idle EXCEPT !.frame = index + 1]
<1>1. NextFrame /\ index + 1 \in 1 .. LastFrame /\ UNCHANGED <<coreVars, given, rows, cut>>
  BY DEF FrameUnseen, Skip, Finished, RaisesEarly, RaisesDrawingSkipped, Breaks, NextFrame
<1>2. item = [frame |-> index + 1, crossings |-> {}, changes |-> {}]
  <2>1. \A n : [Idle EXCEPT !.frame = n] = [frame |-> n, crossings |-> {}, changes |-> {}]
    BY DEF Idle
  <2> QED BY <2>1
<1>3. item \in Items /\ item.frame = index + 1 /\ item.crossings = {} /\ item.changes = {}
  BY <1>1, <1>2 DEF Items
<1>4. {} \subseteq Sinks /\ {Log} \subseteq Sinks /\ Sinks \subseteq Sinks
  BY DEF Sinks
<1>5. CASE Skip
  <2>1. FrameGiven(item, Sinks)
    BY <1>1, <1>3, <1>5 DEF FrameGiven, Skip, Finished
  <2> QED BY <1>1, <1>3, <1>4, <2>1
<1>6. CASE RaisesEarly
  <2>1. Feed(item, {})
    BY <1>6 DEF RaisesEarly, Feed, FunctionsInv
  <2>2. FrameGiven(item, {})
    BY <1>1, <1>3, <1>6, <2>1 DEF FrameGiven, RaisesEarly, Breaks
  <2> QED BY <1>1, <1>3, <1>4, <2>2
<1>7. CASE RaisesDrawingSkipped
  <2>1. FrameGiven(item, {Log})
    BY <1>1, <1>3, <1>7 DEF FrameGiven, RaisesDrawingSkipped, Breaks
  <2> QED BY <1>1, <1>3, <1>4, <2>1
<1> QED BY <1>5, <1>6, <1>7 DEF FrameUnseen

(* So a step reads a frame or is one of the others.                        *)
LEMMA FramesAreItems ==
  ASSUME CoreTypeOK, index \in 0..LastFrame, FunctionsInv, ClosingInv, AgreeInv, [RunNext]_runVars
  PROVE  \/ \E item \in Items, sinks \in SUBSET Sinks : FrameGiven(item, sinks)
         \/ EndOfFrames \/ PutStop \/ Join \/ Close
         \/ \E s \in Sinks : Take(s) \/ Write(s) \/ Die(s)
         \/ UNCHANGED runVars
<1>1. CASE \E found \in Detections : FrameSeen(found)
  <2>1. PICK found \in Detections : FrameSeen(found)
    BY <1>1
  <2>2. step = "read"
    BY <2>1 DEF FrameSeen, Process, Finished, RaisesGiving, RaisesNoting, RaisesDrawing, Breaks, NextFrame
  <2>3. cut = {}
    BY <2>2 DEF ClosingInv, AgreeInv
  <2> QED BY <2>1, <2>3, SeenFramesAreItems
<1>2. CASE FrameUnseen
  BY <1>2, UnseenFramesAreItems
<1> QED BY <1>1, <1>2, RunSteps

(* What a frame that is given leaves each sink with.                       *)
LEMMA GivenRecords ==
  ASSUME FunctionsInv, \A s \in Sinks : SinkTypeOK(s), LineInv, CoverInv, ClosingInv,
         index \in 0..LastFrame, NEW item \in Items, NEW sinks \in SUBSET Sinks,
         FrameGiven(item, sinks), NEW s \in Sinks
  PROVE  /\ InLine(disk[s], hand[s], queue[s])'
         /\ \/ /\ Recorded(s)' = Recorded(s) /\ dropped'[s] = dropped[s]
               /\ ~(s \in sinks /\ Opened(s))
            \/ Recorded(s)' = Recorded(s) /\ dropped'[s] = dropped[s] \cup {item.frame}
            \/ /\ Recorded(s)' = Recorded(s) \cup {item} /\ dropped'[s] = dropped[s]
               /\ s \in sinks /\ Opened(s)
         /\ SinkTypeOK(s)' /\ FunctionsInv'
         /\ queue'[s] \in {queue[s], Append(queue[s], item)}
         /\ life'[s] = life[s] /\ hand'[s] = hand[s]
<1>1. /\ step = "read" /\ index' = index + 1
      /\ life' = life /\ hand' = hand /\ disk' = disk
  BY DEF FrameGiven, NextFrame
<1>2. Stop \notin Range(queue[s])
  BY <1>1 DEF ClosingInv, Told
<1>3. Opened(s) => \A r \in Recorded(s) : r.frame < item.frame
  <2> SUFFICES ASSUME Opened(s), NEW r \in Recorded(s) PROVE r.frame < item.frame
    OBVIOUS
  <2>1. r.frame \in 1 .. index
    BY DEF CoverInv
  <2> QED BY <2>1 DEF FrameGiven
<1>4. queue[s] \in Seq(Entries) /\ Len(queue[s]) <= QueueMax
  BY DEF SinkTypeOK
<1>5. InLine(disk[s], hand[s], queue[s])
  BY DEF LineInv
<1>6. \/ /\ queue'[s] = queue[s] /\ dropped'[s] = dropped[s]
         /\ ~(s \in sinks /\ Opened(s))
      \/ queue'[s] = queue[s] /\ dropped'[s] = dropped[s] \cup {item.frame}
      \/ /\ queue'[s] = Append(queue[s], item) /\ dropped'[s] = dropped[s]
         /\ Len(queue[s]) < QueueMax /\ s \in sinks /\ Opened(s)
  BY DEF FrameGiven, Feed
<1>7. FunctionsInv'
  BY <1>1 DEF FunctionsInv, FrameGiven, Feed
<1>8. CASE /\ queue'[s] = queue[s]
           /\ \/ dropped'[s] = dropped[s] /\ ~(s \in sinks /\ Opened(s))
              \/ dropped'[s] = dropped[s] \cup {item.frame}
  <2>1. SinkTypeOK(s)'
    BY <1>1, <1>8 DEF SinkTypeOK, Items
  <2> QED BY <1>1, <1>5, <1>7, <1>8, <2>1 DEF Recorded
<1>9. CASE /\ queue'[s] = Append(queue[s], item) /\ dropped'[s] = dropped[s]
           /\ Len(queue[s]) < QueueMax /\ s \in sinks /\ Opened(s)
  <2>1. /\ InLine(disk[s], hand[s], Append(queue[s], item))
        /\ Records(disk[s], hand[s], Append(queue[s], item)) = Recorded(s) \cup {item}
    BY <1>2, <1>3, <1>4, <1>5, <1>9, LineFed DEF Recorded
  <2>2. /\ Append(queue[s], item) \in Seq(Entries)
        /\ Len(Append(queue[s], item)) = Len(queue[s]) + 1 /\ Len(queue[s]) \in Nat
    BY <1>4 DEF Entries
  <2>3. SinkTypeOK(s)'
    BY <1>1, <1>9, <2>2, RunAssumption DEF SinkTypeOK
  <2> QED BY <1>1, <1>7, <1>9, <2>1, <2>3 DEF Recorded
<1> QED BY <1>6, <1>8, <1>9

(* What any other step leaves it with.                                     *)
LEMMA OtherRecords ==
  ASSUME FunctionsInv, \A s \in Sinks : SinkTypeOK(s), LineInv, ClosingInv, sink \in Sinks,
         \/ EndOfFrames \/ PutStop \/ Join \/ Close
         \/ \E s \in Sinks : Take(s) \/ Write(s) \/ Die(s)
         \/ UNCHANGED runVars,
         NEW s \in Sinks
  PROVE  SameRecords(s) /\ SinkTypeOK(s)' /\ FunctionsInv'
<1>0. /\ InLine(disk[s], hand[s], queue[s]) /\ SinkTypeOK(s)
      /\ queue[s] \in Seq(Entries) /\ Len(queue[s]) \in Nat
  BY DEF LineInv, SinkTypeOK
<1>1. CASE EndOfFrames \/ Join \/ Close \/ UNCHANGED runVars
  <2>1. UNCHANGED <<queue, life, hand, disk, dropped, index, logs, broken>>
    BY <1>1 DEF EndOfFrames, Join, Close, runVars, mainVars, sinkVars, lossVars
  <2> QED BY <1>0, <2>1 DEF SameRecords, Recorded, SinkTypeOK, FunctionsInv
<1>2. CASE PutStop
  <2>1. /\ queue' = [queue EXCEPT ![sink] = Append(@, Stop)] /\ Len(queue[sink]) < QueueMax
        /\ step = "put" /\ UNCHANGED <<life, hand, disk, dropped, index, logs, broken>>
    BY <1>2 DEF PutStop, lossVars
  <2>2. CASE s # sink
    <3>1. queue'[s] = queue[s]
      BY <2>1, <2>2 DEF FunctionsInv
    <3> QED BY <1>0, <2>1, <3>1 DEF SameRecords, Recorded, SinkTypeOK, FunctionsInv
  <2>3. CASE s = sink
    <3>1. queue'[s] = Append(queue[s], Stop)
      BY <2>1, <2>3 DEF FunctionsInv
    <3>2. Stop \notin Range(queue[s])
      BY <2>1, <2>3, RunAssumption DEF ClosingInv, Told, Sinks
    <3>3. /\ InLine(disk[s], hand[s], Append(queue[s], Stop))
          /\ Records(disk[s], hand[s], Append(queue[s], Stop)) = Recorded(s)
      BY <1>0, <3>2, LineClosed DEF Recorded
    <3>4. /\ Append(queue[s], Stop) \in Seq(Entries)
          /\ Len(Append(queue[s], Stop)) = Len(queue[s]) + 1
      BY <1>0 DEF Entries
    <3>5. Len(queue'[s]) <= QueueMax
      BY <1>0, <2>1, <2>3, <3>1, <3>4, RunAssumption
    <3> QED BY <1>0, <2>1, <3>1, <3>3, <3>4, <3>5 DEF SameRecords, Recorded, SinkTypeOK, FunctionsInv
  <2> QED BY <2>2, <2>3
<1>3. ASSUME NEW u \in Sinks, Take(u) PROVE SameRecords(s) /\ SinkTypeOK(s)' /\ FunctionsInv'
  <2>1. /\ life[u] = "up" /\ hand[u] = Idle /\ queue[u] # <<>>
        /\ queue' = [queue EXCEPT ![u] = Tail(@)]
        /\ UNCHANGED <<disk, dropped, index, logs, broken>>
    BY <1>3 DEF Take, mainVars, lossVars
  <2>2. FunctionsInv'
    BY <1>3 DEF Take, FunctionsInv, lossVars
  <2>3. CASE s # u
    <3>1. queue'[s] = queue[s] /\ hand'[s] = hand[s] /\ life'[s] = life[s]
      BY <1>3, <2>3 DEF Take, FunctionsInv
    <3> QED BY <1>0, <2>1, <2>2, <3>1 DEF SameRecords, Recorded, SinkTypeOK
  <2>4. CASE s = u
    <3>1. queue'[s] = Tail(queue[s]) /\ hand[s] = Idle /\ queue[s] # <<>>
      BY <2>1, <2>4 DEF FunctionsInv
    <3>2. /\ Head(queue[s]) \in Entries /\ Tail(queue[s]) \in Seq(Entries)
          /\ Len(Tail(queue[s])) = Len(queue[s]) - 1
      BY <1>0, <3>1, HeadTailProperties, EmptySeq
    <3>3. Len(queue'[s]) <= QueueMax
      BY <1>0, <3>1, <3>2, RunAssumption DEF SinkTypeOK
    <3>4. CASE Head(queue[s]) = Stop
      <4>1. hand'[s] = Idle /\ life'[s] = "ended"
        BY <1>3, <2>4, <3>1, <3>4 DEF Take, FunctionsInv
      <4>2. /\ InLine(disk[s], Idle, Tail(queue[s]))
            /\ Records(disk[s], Idle, Tail(queue[s])) = Records(disk[s], Idle, queue[s])
        BY <1>0, <3>1, <3>4, LineEnded
      <4> QED BY <1>0, <2>1, <2>2, <3>1, <3>2, <3>3, <4>1, <4>2
              DEF SameRecords, Recorded, SinkTypeOK
    <3>5. CASE Head(queue[s]) # Stop
      <4>1. hand'[s] = Head(queue[s]) /\ life'[s] = life[s]
        BY <1>3, <2>4, <3>5 DEF Take, FunctionsInv
      <4>2. /\ InLine(disk[s], Head(queue[s]), Tail(queue[s]))
            /\ Records(disk[s], Head(queue[s]), Tail(queue[s])) = Records(disk[s], Idle, queue[s])
        BY <1>0, <3>1, <3>5, LineTaken
      <4> QED BY <1>0, <2>1, <2>2, <3>1, <3>2, <3>3, <3>5, <4>1, <4>2
              DEF SameRecords, Recorded, SinkTypeOK, Entries
    <3> QED BY <3>4, <3>5
  <2> QED BY <2>3, <2>4
<1>4. ASSUME NEW u \in Sinks, Write(u) PROVE SameRecords(s) /\ SinkTypeOK(s)' /\ FunctionsInv'
  <2>1. /\ hand[u] # Idle
        /\ disk' = [disk EXCEPT ![u] = Append(@, hand[u])]
        /\ hand' = [hand EXCEPT ![u] = Idle]
        /\ UNCHANGED <<queue, life, dropped, index, logs, broken>>
    BY <1>4 DEF Write, mainVars, lossVars
  <2>2. FunctionsInv'
    BY <2>1 DEF FunctionsInv
  <2>3. CASE s # u
    <3>1. disk'[s] = disk[s] /\ hand'[s] = hand[s]
      BY <2>1, <2>3 DEF FunctionsInv
    <3> QED BY <1>0, <2>1, <2>2, <3>1 DEF SameRecords, Recorded, SinkTypeOK
  <2>4. CASE s = u
    <3>1. disk'[s] = Append(disk[s], hand[s]) /\ hand'[s] = Idle
      BY <2>1, <2>4 DEF FunctionsInv
    <3>2. hand[s] \in Items /\ disk[s] \in Seq(Items)
      BY <1>0, <2>1, <2>4 DEF SinkTypeOK
    <3>3. /\ InLine(Append(disk[s], hand[s]), Idle, queue[s])
          /\ Records(Append(disk[s], hand[s]), Idle, queue[s]) = Recorded(s)
      BY <1>0, <3>2, LineWritten DEF Recorded
    <3>4. Append(disk[s], hand[s]) \in Seq(Items)
      BY <3>2
    <3> QED BY <1>0, <2>1, <2>2, <3>1, <3>3, <3>4 DEF SameRecords, Recorded, SinkTypeOK
  <2> QED BY <2>3, <2>4
<1>5. ASSUME NEW u \in Sinks, Die(u) PROVE SameRecords(s) /\ SinkTypeOK(s)' /\ FunctionsInv'
  <2>1. /\ life' = [life EXCEPT ![u] = "dead"]
        /\ UNCHANGED <<queue, hand, disk, dropped, index, logs, broken>>
    BY <1>5 DEF Die, mainVars, lossVars
  <2>2. FunctionsInv' /\ life'[s] \in {life[s], "dead"}
    BY <2>1 DEF FunctionsInv
  <2> QED BY <1>0, <2>1, <2>2 DEF SameRecords, Recorded, SinkTypeOK
<1> QED BY <1>1, <1>2, <1>3, <1>4, <1>5

(* The main thread, beside the sinks.                                      *)
MainTypeOK ==
    /\ step \in {"read", "put", "join", "close", "done"}
    /\ sink \in Sinks /\ index \in 0..LastFrame /\ logs \in BOOLEAN
    /\ broken \in 0..LastFrame
    /\ rows \subseteq (1..LastFrame) \X LaneChanges
    /\ summary \in {NotWritten, tally}

(* The invariant of a run.                                                 *)
RunInv ==
    /\ CoreTypeOK /\ CountedOnce
    /\ MainTypeOK /\ FunctionsInv /\ \A s \in Sinks : SinkTypeOK(s)
    /\ LineInv /\ CoverInv /\ ClosingInv /\ AgreeInv

(* Every step keeps the core's types and counts.                           *)
LEMMA RunCoreStep ==
  ASSUME CoreTypeOK, CountedOnce, index \in 0..LastFrame, [RunNext]_runVars
  PROVE  (CoreTypeOK /\ CountedOnce)'
<1>1. ASSUME NEW found \in Detections, FrameSeen(found) PROVE (CoreTypeOK /\ CountedOnce)'
  <2>1. ProcessFrame(index + 1, DetectEvery, found, RoiCrop)
    BY <1>1 DEF FrameSeen, Process, RaisesGiving, RaisesNoting, RaisesDrawing, Core
  <2>2. index + 1 \in Nat /\ RoiCrop \in BOOLEAN
    BY RunAssumption
  <2> QED BY <2>1, <2>2, CoreStep
<1>2. CASE FrameUnseen \/ EndOfFrames \/ PutStop \/ Join \/ Close
           \/ (\E s \in Sinks : Take(s) \/ Write(s) \/ Die(s)) \/ UNCHANGED runVars
  <2>1. UNCHANGED coreVars
    BY <1>2 DEF FrameUnseen, Skip, RaisesEarly, RaisesDrawingSkipped, EndOfFrames, PutStop, Join,
                Close, Take, Write, Die, runVars
  <2> QED BY <2>1, CoreUnchanged
<1> QED BY <1>1, <1>2, RunSteps

(* Every step keeps what the main thread has and the records' order, and   *)
(* that they cover the frames read.                                        *)
LEMMA RecordsStep ==
  ASSUME RunInv, [RunNext]_runVars
  PROVE  FunctionsInv' /\ (\A s \in Sinks : SinkTypeOK(s)') /\ LineInv' /\ CoverInv'
<1>0. /\ CoreTypeOK /\ index \in 0..LastFrame /\ sink \in Sinks
      /\ FunctionsInv /\ (\A s \in Sinks : SinkTypeOK(s)) /\ LineInv /\ CoverInv
      /\ ClosingInv /\ AgreeInv
  BY DEF RunInv, MainTypeOK
<1>00. Log \in Sinks
  BY DEF Sinks
<1>1. ASSUME NEW item \in Items, NEW sinks \in SUBSET Sinks, FrameGiven(item, sinks)
      PROVE  FunctionsInv' /\ (\A s \in Sinks : SinkTypeOK(s)') /\ LineInv' /\ CoverInv'
  <2>1. ASSUME NEW s \in Sinks
        PROVE  /\ InLine(disk[s], hand[s], queue[s])'
               /\ \/ /\ Recorded(s)' = Recorded(s) /\ dropped'[s] = dropped[s]
                     /\ ~(s \in sinks /\ Opened(s))
                  \/ Recorded(s)' = Recorded(s) /\ dropped'[s] = dropped[s] \cup {item.frame}
                  \/ Recorded(s)' = Recorded(s) \cup {item} /\ dropped'[s] = dropped[s]
               /\ SinkTypeOK(s)' /\ FunctionsInv'
    BY <1>0, <1>1, GivenRecords
  <2>2. /\ index' = index + 1 /\ item.frame = index + 1 /\ logs' = logs
        /\ 1 .. index' = (1 .. index) \cup {index + 1}
        /\ step = "read"
    BY <1>0, <1>1 DEF FrameGiven, NextFrame
  <2>3. Broken = {}
    BY <1>0, <2>2 DEF ClosingInv, Broken
  <2>4. \/ sinks = Sinks /\ Broken' = {}
        \/ Broken' = {item.frame}
    BY <1>0, <1>1, <2>2, <2>3 DEF FrameGiven, Broken
  <2>5. ASSUME NEW s \in Sinks, Opened(s)'
        PROVE  {r.frame : r \in Recorded(s)'} \cup dropped'[s] \cup Broken' = 1 .. index'
    <3>1. {r.frame : r \in Recorded(s)} \cup dropped[s] = 1 .. index /\ Opened(s)
      BY <1>0, <2>2, <2>3, <2>5 DEF CoverInv, Opened
    <3>2. {r.frame : r \in Recorded(s) \cup {item}}
             = {r.frame : r \in Recorded(s)} \cup {item.frame}
      OBVIOUS
    <3> QED BY <2>1, <2>2, <2>4, <3>1, <3>2
  <2> QED BY <1>00, <2>1, <2>5 DEF LineInv, CoverInv
<1>2. CASE \/ EndOfFrames \/ PutStop \/ Join \/ Close
           \/ \E s \in Sinks : Take(s) \/ Write(s) \/ Die(s)
           \/ UNCHANGED runVars
  <2>1. \A s \in Sinks : SameRecords(s) /\ SinkTypeOK(s)' /\ FunctionsInv'
    BY <1>0, <1>2, OtherRecords
  <2>2. LineInv'
    BY <2>1 DEF SameRecords, LineInv
  <2>3. CoverInv'
    BY <1>0, <1>00, <2>1 DEF SameRecords, CoverInv, Opened, Broken
  <2> QED BY <1>00, <2>1, <2>2, <2>3
<1> QED BY <1>0, <1>1, <1>2, FramesAreItems

(* Every step keeps the order in which the sinks are closed.               *)
LEMMA ClosingStep ==
  ASSUME RunInv, [RunNext]_runVars
  PROVE  ClosingInv'
<1> USE RunAssumption
<1>0. /\ CoreTypeOK /\ index \in 0..LastFrame /\ sink \in Sinks /\ logs \in BOOLEAN
      /\ FunctionsInv /\ (\A s \in Sinks : SinkTypeOK(s)) /\ LineInv /\ CoverInv
      /\ ClosingInv /\ AgreeInv
  BY DEF RunInv, MainTypeOK
<1>1. ASSUME NEW item \in Items, NEW sinks \in SUBSET Sinks, FrameGiven(item, sinks)
      PROVE  ClosingInv'
  <2>1. /\ step = "read" /\ UNCHANGED <<sink, logs, summary, life, hand, disk>>
        /\ step' \in {"read", "put"} /\ (step' = "read" => broken' = broken)
    BY <1>1 DEF FrameGiven, NextFrame
  <2>2. \A s \in Sinks : queue'[s] \in {queue[s], Append(queue[s], item)}
    BY <1>0, <1>1, GivenRecords
  <2>3. ASSUME NEW s \in Sinks PROVE Stop \notin Range(queue'[s]) /\ life[s] # "ended"
    <3>1. Stop \notin Range(queue[s]) /\ life[s] # "ended"
      BY <1>0, <2>1 DEF ClosingInv, Told
    <3>2. queue[s] \in Seq(Entries) /\ item \in Entries /\ item # Stop
      BY <1>0, StopAssumption DEF SinkTypeOK, Entries
    <3>3. Range(Append(queue[s], item)) = Range(queue[s]) \cup {item}
      BY <3>2, RangeAppend
    <3> QED BY <2>2, <3>1, <3>2, <3>3
  <2>4. FirstSink' = FirstSink /\ summary = NotWritten /\ sink = FirstSink /\ broken = 0
    BY <1>0, <2>1 DEF ClosingInv, FirstSink
  <2>5. \A s \in Sinks : ~(Joined(s)' /\ Opened(s)')
    BY <1>0, <2>1, <2>4 DEF Joined, Opened, FirstSink, Sinks
  <2> QED BY <1>0, <2>1, <2>3, <2>4, <2>5 DEF ClosingInv, FirstSink
<1>2. CASE EndOfFrames
  <2>1. step = "read" /\ step' = "put" /\ UNCHANGED <<sink, logs, summary, queue, life, hand, disk>>
    BY <1>2 DEF EndOfFrames, sinkVars
  <2>2. \A s \in Sinks : Stop \notin Range(queue[s]) /\ life[s] # "ended"
    BY <1>0, <2>1 DEF ClosingInv, Told
  <2>3. \A s \in Sinks : (Joined(s) <=> Joined(s)') /\ (Opened(s) <=> Opened(s)')
    BY <1>0, <2>1 DEF Joined, Opened, Sinks
  <2> QED BY <1>0, <2>1, <2>2, <2>3 DEF ClosingInv, FirstSink
<1>3. CASE PutStop
  <2>1. /\ step = "put" /\ step' = "join" /\ UNCHANGED <<sink, logs, summary, life, hand, disk>>
        /\ queue' = [queue EXCEPT ![sink] = Append(@, Stop)]
    BY <1>3 DEF PutStop
  <2>2. \A s \in Sinks : s # sink => queue'[s] = queue[s]
    BY <1>0, <2>1 DEF FunctionsInv
  <2>3. life[sink] # "ended"
    BY <1>0, <2>1 DEF ClosingInv, Told, Sinks
  <2>4. \A s \in Sinks : Told(s) => Told(s)'
    BY <1>0, <2>1 DEF Told, Sinks
  <2>5. Told(sink)'
    BY <1>0, <2>1 DEF Told, Sinks
  <2>6. \A s \in Sinks : (Joined(s)' => Joined(s)) /\ (Opened(s)' <=> Opened(s))
    BY <1>0, <2>1 DEF Joined, Opened
  <2> QED BY <1>0, <2>1, <2>2, <2>3, <2>4, <2>5, <2>6 DEF ClosingInv, FirstSink
<1>4. CASE Join
  <2>1. /\ step = "join" /\ life[sink] # "up" /\ sink' = Video
        /\ step' = IF sink = Log THEN "put" ELSE "close"
        /\ UNCHANGED <<logs, summary, queue, life, hand, disk>>
    BY <1>4 DEF Join, sinkVars
  <2>2. \A s \in Sinks : Told(s) => Told(s)'
    BY <1>0, <2>1 DEF Told, Sinks
  <2>3. \A s \in Sinks : (Joined(s)' /\ Opened(s) => Joined(s) \/ s = sink) /\ (Opened(s)' <=> Opened(s))
    <3> SUFFICES ASSUME NEW s \in Sinks, Joined(s)', Opened(s) PROVE Joined(s) \/ s = sink
      BY <2>1 DEF Opened
    <3>1. CASE s = Log
      BY <1>0, <2>1, <3>1 DEF Joined, Sinks
    <3>2. CASE s = Video
      BY <1>0, <2>1, <3>2 DEF Joined, Sinks
    <3> QED BY <3>1, <3>2 DEF Sinks
  <2> QED BY <1>0, <2>1, <2>2, <2>3 DEF ClosingInv, FirstSink
<1>5. CASE Close
  <2>1. step = "close" /\ step' = "done" /\ UNCHANGED <<sink, logs, queue, life, hand, disk>>
    BY <1>5 DEF Close, sinkVars
  <2>2. \A s \in Sinks : (Told(s) => Told(s)') /\ (Joined(s)' => Joined(s)) /\ (Opened(s)' <=> Opened(s))
    BY <2>1 DEF Told, Joined, Opened
  <2> QED BY <1>0, <2>1, <2>2 DEF ClosingInv, FirstSink
<1>6. ASSUME NEW u \in Sinks, Take(u) PROVE ClosingInv'
  <2>1. /\ life[u] = "up" /\ hand[u] = Idle /\ queue[u] # <<>>
        /\ queue' = [queue EXCEPT ![u] = Tail(@)]
        /\ UNCHANGED <<step, sink, logs, broken, summary>>
    BY <1>6 DEF Take, mainVars, lossVars
  <2>2. \A s \in Sinks : (Told(s)' <=> Told(s)) /\ (Joined(s)' <=> Joined(s)) /\ (Opened(s)' <=> Opened(s))
    BY <2>1 DEF Told, Joined, Opened
  <2>3. \A s \in Sinks : s # u => queue'[s] = queue[s] /\ hand'[s] = hand[s] /\ life'[s] = life[s]
    BY <1>0, <1>6 DEF Take, FunctionsInv
  <2>4. queue'[u] = Tail(queue[u]) /\ Range(queue[u]) = {Head(queue[u])} \cup Range(Tail(queue[u]))
    <3>1. queue[u] \in Seq(Entries)
      BY <1>0 DEF SinkTypeOK
    <3> QED BY <1>0, <2>1, <3>1, HeadAndTail DEF FunctionsInv
  <2>5. ~(Joined(u) /\ Opened(u))
    BY <1>0, <2>1 DEF ClosingInv, FirstSink
  <2>6. Stop \in Range(queue'[u]) => Told(u)
    BY <1>0, <2>4 DEF ClosingInv, FirstSink
  <2>7. CASE Head(queue[u]) = Stop
    <3>1. hand'[u] = Idle /\ life'[u] = "ended"
      BY <1>0, <1>6, <2>1, <2>7 DEF Take, FunctionsInv
    <3>2. Told(u)
      BY <1>0, <2>4, <2>7 DEF ClosingInv, FirstSink
    <3>3. queue'[u] = <<>>
      <4>1. queue[u] \in Seq(Entries) /\ InLine(disk[u], Idle, queue[u])
        BY <1>0, <2>1 DEF SinkTypeOK, LineInv
      <4> QED BY <2>1, <2>4, <2>7, <4>1, LineEnded
    <3> QED BY <1>0, <2>1, <2>2, <2>3, <2>5, <3>1, <3>2, <3>3 DEF ClosingInv, FirstSink
  <2>8. CASE Head(queue[u]) # Stop
    <3>1. life'[u] = "up"
      BY <1>0, <1>6, <2>1, <2>8 DEF Take, FunctionsInv
    <3> QED BY <1>0, <2>1, <2>2, <2>3, <2>5, <2>6, <3>1 DEF ClosingInv, FirstSink
  <2> QED BY <2>7, <2>8
<1>7. ASSUME NEW u \in Sinks, Write(u) PROVE ClosingInv'
  <2>1. /\ life[u] = "up" /\ hand[u] # Idle
        /\ UNCHANGED <<step, sink, logs, broken, summary, queue, life>>
        /\ hand' = [hand EXCEPT ![u] = Idle]
    BY <1>7 DEF Write, mainVars, lossVars
  <2>2. \A s \in Sinks : (Told(s)' <=> Told(s)) /\ (Joined(s)' <=> Joined(s)) /\ (Opened(s)' <=> Opened(s))
    BY <2>1 DEF Told, Joined, Opened
  <2>3. \A s \in Sinks : s # u => hand'[s] = hand[s]
    BY <1>0, <2>1 DEF FunctionsInv
  <2> QED BY <1>0, <2>1, <2>2, <2>3 DEF ClosingInv, FirstSink
<1>8. ASSUME NEW u \in Sinks, Die(u) PROVE ClosingInv'
  <2>1. /\ life[u] = "up" /\ life' = [life EXCEPT ![u] = "dead"]
        /\ UNCHANGED <<step, sink, logs, broken, summary, queue, hand>>
    BY <1>8 DEF Die, mainVars, lossVars
  <2>2. \A s \in Sinks : (Told(s)' <=> Told(s)) /\ (Joined(s)' <=> Joined(s)) /\ (Opened(s)' <=> Opened(s))
    BY <2>1 DEF Told, Joined, Opened
  <2>3. \A s \in Sinks : (s # u => life'[s] = life[s]) /\ (s = u => life'[s] = "dead")
    BY <1>0, <2>1 DEF FunctionsInv
  <2> QED BY <1>0, <2>1, <2>2, <2>3 DEF ClosingInv, FirstSink
<1>9. CASE UNCHANGED runVars
  <2>1. UNCHANGED <<step, sink, logs, broken, summary, queue, life, hand>>
    BY <1>9 DEF runVars, mainVars, sinkVars, lossVars
  <2> QED BY <1>0, <2>1 DEF ClosingInv, Told, Joined, Opened, FirstSink
<1> QED BY <1>0, <1>1, <1>2, <1>3, <1>4, <1>5, <1>6, <1>7, <1>8, <1>9, RunSteps, FramesAreItems

(* Every step keeps the types of the main thread.                          *)
LEMMA MainTypeStep ==
  ASSUME RunInv, [RunNext]_runVars
  PROVE  MainTypeOK'
<1> USE RunAssumption
<1>0. /\ CoreTypeOK /\ MainTypeOK /\ (step # "done" => summary = NotWritten)
      /\ index \in 0..LastFrame /\ FunctionsInv /\ ClosingInv /\ AgreeInv
  BY DEF RunInv, MainTypeOK, ClosingInv
<1>1. ASSUME NEW item \in Items, NEW sinks \in SUBSET Sinks, FrameGiven(item, sinks),
             rows' \subseteq (1..LastFrame) \X LaneChanges
      PROVE  MainTypeOK'
  <2>1. /\ step = "read" /\ index < LastFrame /\ index' = index + 1
        /\ UNCHANGED <<sink, logs, summary>>
        /\ step' \in {"read", "put"} /\ broken' \in {broken, index + 1}
    BY <1>1 DEF FrameGiven, NextFrame
  <2> QED BY <1>0, <1>1, <2>1 DEF MainTypeOK
<1>2. ASSUME NEW found \in Detections, FrameSeen(found) PROVE MainTypeOK'
  <2>1. step = "read"
    BY <1>2 DEF FrameSeen, Process, Finished, RaisesGiving, RaisesNoting, RaisesDrawing, Breaks, NextFrame
  <2>2. cut = {}
    BY <1>0, <2>1 DEF ClosingInv, AgreeInv
  <2>3. PICK item \in Items, sinks \in SUBSET Sinks :
            FrameGiven(item, sinks) /\ Counts(found, item, sinks)
    BY <1>0, <1>2, <2>2, SeenFramesAreItems
  <2>4. index + 1 \in 1..LastFrame /\ out'.changes \subseteq LaneChanges
    BY <2>3 DEF Items, FrameGiven, Counts
  <2>5. rows' \subseteq (1..LastFrame) \X LaneChanges
    BY <1>0, <2>3, <2>4 DEF MainTypeOK, Counts
  <2> QED BY <1>1, <2>3, <2>5
<1>3. CASE FrameUnseen
  <2>1. PICK item \in Items, sinks \in SUBSET Sinks : FrameGiven(item, sinks)
    BY <1>0, <1>3, UnseenFramesAreItems
  <2>2. rows' = rows
    BY <1>0, <1>3, UnseenFramesAreItems
  <2> QED BY <1>0, <1>1, <2>1, <2>2 DEF MainTypeOK
<1>4. CASE EndOfFrames \/ PutStop \/ Join
  <2>1. /\ UNCHANGED <<index, logs, broken, rows, summary, tally>> /\ sink' \in {sink, Video}
        /\ step' \in {"put", "join", "close"}
    BY <1>4 DEF EndOfFrames, PutStop, Join, coreVars, lossVars
  <2> QED BY <1>0, <2>1 DEF MainTypeOK, Sinks
<1>5. CASE Close
  BY <1>0, <1>5 DEF Close, MainTypeOK, coreVars, lossVars
<1>6. CASE (\E s \in Sinks : Take(s) \/ Write(s) \/ Die(s)) \/ UNCHANGED runVars
  <2>1. UNCHANGED <<coreVars, mainVars, lossVars>>
    BY <1>6 DEF Take, Write, Die, runVars
  <2> QED BY <1>0, <2>1 DEF MainTypeOK, mainVars, coreVars, lossVars
<1> QED BY <1>2, <1>3, <1>4, <1>5, <1>6, RunSteps

(* Every step keeps what was given to the storage worker and what the      *)
(* records say in agreement with what the core has counted.                *)
LEMMA AgreeStep ==
  ASSUME RunInv, [RunNext]_runVars
  PROVE  AgreeInv'
<1>0. /\ CoreTypeOK /\ index \in 0..LastFrame /\ sink \in Sinks /\ AgreeInv /\ Log \in Sinks
      /\ FunctionsInv /\ (\A s \in Sinks : SinkTypeOK(s)) /\ LineInv /\ CoverInv /\ ClosingInv
  BY DEF RunInv, MainTypeOK, Sinks
<1>1. ASSUME NEW found \in Detections, FrameSeen(found) PROVE AgreeInv'
  <2> DEFINE new == out'.crossings
  <2>0. step = "read"
    BY <1>1 DEF FrameSeen, Process, Finished, RaisesGiving, RaisesNoting, RaisesDrawing, Breaks, NextFrame
  <2>1. cut = {}
    BY <1>0, <2>0 DEF ClosingInv, AgreeInv
  <2>2. PICK item \in Items, sinks \in SUBSET Sinks :
            FrameGiven(item, sinks) /\ Counts(found, item, sinks)
    BY <1>0, <1>1, <2>1, SeenFramesAreItems
  <2>3. /\ ProcessFrame(index + 1, DetectEvery, found, RoiCrop)
        /\ given' = [p \in Tracks \X Lanes |-> IF p \in new \ cut' THEN given[p] + 1 ELSE given[p]]
        /\ cut' \subseteq new /\ rows \subseteq rows'
        /\ item.crossings = new /\ item.changes = out'.changes
        /\ sinks # {} => cut' = {} /\ Note(item.changes)
    BY <2>2 DEF Counts, Core, Give
  <2>4. counted' = counted \cup new /\ new \cap counted = {} /\ new \subseteq Tracks \X Lanes
    <3>1. index + 1 \in Nat /\ RoiCrop \in BOOLEAN
      BY <1>0, RunAssumption
    <3>2. CoreTypeOK' /\ counted' = counted \cup new /\ new \cap counted = {}
      BY <1>0, <2>3, <3>1, CoreStep
    <3> QED BY <3>2 DEF CoreTypeOK
  <2> HIDE DEF new
  <2>5. given' = [p \in Tracks \X Lanes |-> IF p \in counted' \ cut' THEN 1 ELSE 0]
    <3>1. \A p \in Tracks \X Lanes :
             (IF p \in new \ cut' THEN given[p] + 1 ELSE given[p])
               = (IF p \in counted' \ cut' THEN 1 ELSE 0)
      BY <1>0, <2>1, <2>3, <2>4 DEF AgreeInv
    <3> QED BY <2>3, <3>1
  <2>6. cut' \subseteq counted' /\ (broken' = 0 => cut' = {})
    <3>1. sinks = Sinks => cut' = {}
      BY <1>0, <2>3
    <3>2. sinks = Sinks \/ broken' # 0
      BY <1>0, <2>2 DEF FrameGiven
    <3> QED BY <2>3, <2>4, <3>1, <3>2
  <2>7. ASSUME NEW s \in Sinks
        PROVE  Recorded(s)' = Recorded(s)
               \/ (Recorded(s)' = Recorded(s) \cup {item} /\ s \in sinks /\ Opened(s))
    BY <1>0, <2>2, GivenRecords
  <2>8. ASSUME NEW s \in Sinks
        PROVE  /\ \A r, q \in Recorded(s)' : r # q => r.crossings \cap q.crossings = {}
               /\ \A r \in Recorded(s)' : r.crossings \subseteq counted' \ cut'
    <3>1. Recorded(s)' = Recorded(s) \/ (Recorded(s)' = Recorded(s) \cup {item} /\ s \in sinks)
      BY <2>7
    <3>2. /\ \A r \in Recorded(s) : r.crossings \subseteq counted
          /\ \A r, q \in Recorded(s) : r # q => r.crossings \cap q.crossings = {}
      BY <1>0 DEF AgreeInv
    <3>3. \A r \in Recorded(s) : r.crossings \subseteq counted' \ cut'
      BY <2>3, <2>4, <3>2
    <3>4. item.crossings \cap counted = {} /\ item.crossings \subseteq counted'
      BY <2>3, <2>4
    <3>5. \A r \in Recorded(s) :
             r.crossings \cap item.crossings = {} /\ item.crossings \cap r.crossings = {}
      BY <3>2, <3>4
    <3>6. \A r, q \in Recorded(s) \cup {item} : r # q => r.crossings \cap q.crossings = {}
      BY <3>2, <3>5
    <3>7. s \in sinks => item.crossings \subseteq counted' \ cut'
      BY <2>3, <3>4
    <3> QED BY <3>1, <3>2, <3>3, <3>6, <3>7
  <2>9. \A r \in Recorded(Log)' : \A c \in r.changes : <<r.frame, c>> \in rows'
    <3>1. \A r \in Recorded(Log) : \A c \in r.changes : <<r.frame, c>> \in rows'
      BY <1>0, <2>3 DEF AgreeInv
    <3>2. CASE Log \in sinks /\ Opened(Log)
      <4>1. logs
        BY <3>2, RunAssumption DEF Opened
      <4>2. \A c \in item.changes : <<item.frame, c>> \in rows'
        BY <2>2, <2>3, <3>2, <4>1 DEF FrameGiven, Note
      <4>3. \A r \in Recorded(Log)' : r \in Recorded(Log) \/ r = item
        BY <1>0, <2>7
      <4> QED BY <3>1, <4>2, <4>3
    <3>3. CASE ~(Log \in sinks /\ Opened(Log))
      <4>1. Recorded(Log)' = Recorded(Log)
        BY <1>0, <2>7, <3>3
      <4> QED BY <3>1, <4>1
    <3> QED BY <3>2, <3>3
  <2> QED BY <2>5, <2>6, <2>8, <2>9 DEF AgreeInv
<1>2. CASE FrameUnseen
  <2>1. UNCHANGED <<counted, given, rows, cut>>
    BY <1>0, <1>2, UnseenFramesAreItems DEF coreVars
  <2>2. PICK item \in Items, sinks \in SUBSET Sinks :
            FrameGiven(item, sinks) /\ item.crossings = {} /\ item.changes = {}
    BY <1>0, <1>2, UnseenFramesAreItems
  <2>3. \A s \in Sinks : Recorded(s)' = Recorded(s) \/ Recorded(s)' = Recorded(s) \cup {item}
    BY <1>0, <2>2, GivenRecords
  <2>4. cut = {}
    <3>1. step = "read"
      BY <2>2 DEF FrameGiven, NextFrame
    <3> QED BY <1>0, <3>1 DEF ClosingInv, AgreeInv
  <2> QED BY <1>0, <2>1, <2>2, <2>3, <2>4 DEF AgreeInv
<1>3. CASE \/ EndOfFrames \/ PutStop \/ Join \/ Close
           \/ \E s \in Sinks : Take(s) \/ Write(s) \/ Die(s)
           \/ UNCHANGED runVars
  <2>1. UNCHANGED <<counted, given, rows, cut, broken>>
    BY <1>3 DEF EndOfFrames, PutStop, Join, Close, Take, Write, Die, runVars, mainVars, coreVars, lossVars
  <2>2. \A s \in Sinks : Recorded(s)' = Recorded(s)
    BY <1>0, <1>3, OtherRecords DEF SameRecords
  <2> QED BY <1>0, <2>1, <2>2 DEF AgreeInv
<1> QED BY <1>1, <1>2, <1>3, RunSteps

(* Every step keeps the invariant.                                         *)
LEMMA RunInvStep == RunInv /\ [RunNext]_runVars => RunInv'
<1> SUFFICES ASSUME RunInv, [RunNext]_runVars PROVE RunInv'
  OBVIOUS
<1>1. (CoreTypeOK /\ CountedOnce)'
  BY RunCoreStep DEF RunInv, MainTypeOK
<1>2. FunctionsInv' /\ (\A s \in Sinks : SinkTypeOK(s)') /\ LineInv' /\ CoverInv'
  BY RecordsStep
<1>3. ClosingInv' /\ AgreeInv' /\ MainTypeOK'
  BY ClosingStep, AgreeStep, MainTypeStep
<1> QED BY <1>1, <1>2, <1>3 DEF RunInv

(* A run begins with it.                                                   *)
LEMMA RunBegins == RunInit => RunInv
<1> SUFFICES ASSUME RunInit PROVE RunInv
  OBVIOUS
<1> USE RunAssumption
<1>0. /\ logs \in BOOLEAN /\ sink = FirstSink /\ sink \in Sinks /\ broken = 0 /\ cut = {}
      /\ step = "read" /\ index = 0 /\ rows = {} /\ summary = NotWritten
      /\ given = [p \in Tracks \X Lanes |-> 0]
      /\ queue = [s \in Sinks |-> <<>>] /\ life = [s \in Sinks |-> "up"]
      /\ hand = [s \in Sinks |-> Idle] /\ disk = [s \in Sinks |-> <<>>]
      /\ dropped = [s \in Sinks |-> {}]
  BY DEF RunInit, FirstSink, Sinks
<1>1. CoreTypeOK /\ CountedOnce
  BY FreshCore DEF RunInit
<1>2. counted = {}
  BY DEF RunInit, CoreInit, Fresh
<1>3. ASSUME NEW s \in Sinks
      PROVE  /\ queue[s] = <<>> /\ hand[s] = Idle /\ disk[s] = <<>> /\ life[s] = "up"
             /\ dropped[s] = {} /\ Recorded(s) = {} /\ SinkTypeOK(s)
             /\ InLine(disk[s], hand[s], queue[s])
  <2>1. /\ queue[s] = <<>> /\ hand[s] = Idle /\ disk[s] = <<>> /\ life[s] = "up" /\ dropped[s] = {}
    BY <1>0
  <2>2. Range(<<>>) = {}
    BY DEF Range
  <2>3. Recorded(s) = {} /\ Coming(Idle, <<>>) = {} /\ Queued(<<>>) = {}
    BY <2>1, <2>2 DEF Recorded, Records, Coming, Queued
  <2>4. SinkTypeOK(s)
    BY <2>1 DEF SinkTypeOK
  <2>5. InLine(disk[s], hand[s], queue[s])
    BY <2>1, <2>2, <2>3 DEF InLine
  <2> QED BY <2>1, <2>3, <2>4, <2>5
<1>4. MainTypeOK /\ FunctionsInv
  BY <1>0 DEF MainTypeOK, FunctionsInv, Sinks
<1>5. LineInv /\ CoverInv
  BY <1>0, <1>3 DEF LineInv, CoverInv, Broken
<1>6. ClosingInv
  <2>1. Range(<<>>) = {}
    BY DEF Range
  <2> QED BY <1>0, <1>3, <2>1 DEF ClosingInv, Told, Joined, Opened, FirstSink, Sinks
<1>7. AgreeInv
  BY <1>0, <1>2, <1>3 DEF AgreeInv, Sinks
<1> QED BY <1>1, <1>3, <1>4, <1>5, <1>6, <1>7 DEF RunInv

(* What the invariant says of the properties.                              *)
LEMMA InvGivesTypes == RunInv => RunTypeOK
<1> SUFFICES ASSUME RunInv PROVE RunTypeOK
  OBVIOUS
<1>1. given \in [Tracks \X Lanes -> Nat] /\ cut \subseteq Tracks \X Lanes
  BY DEF RunInv, AgreeInv, CoreTypeOK
<1> QED BY <1>1 DEF RunInv, MainTypeOK, SinkTypeOK, Entries, RunTypeOK

(* A run that has returned has joined both sinks.                          *)
LEMMA InvGivesWritten == RunInv => ReturnsWhenWritten
<1> SUFFICES ASSUME RunInv PROVE ReturnsWhenWritten
  OBVIOUS
<1>1. WrittenInOrder
  BY DEF RunInv, LineInv, InLine, WrittenInOrder
<1>2. ASSUME step = "done", NEW s \in Sinks, life[s] # "dead", Opened(s)
      PROVE  Frames(disk[s]) \cup dropped[s] \cup Broken = 1..index
  <2>1. life[s] = "ended"
    <3>1. Joined(s)
      BY <1>2, RunAssumption DEF RunInv, ClosingInv, Joined
    <3> QED BY <1>2, <3>1 DEF RunInv, ClosingInv, SinkTypeOK
  <2>2. queue[s] = <<>> /\ hand[s] = Idle
    BY <2>1 DEF RunInv, ClosingInv
  <2>3. Recorded(s) = Range(disk[s])
    BY <2>2 DEF Recorded, Records, Coming, Queued, Range
  <2>4. Frames(disk[s]) = {r.frame : r \in Range(disk[s])}
    BY DEF Frames, Range
  <2> QED BY <1>2, <2>3, <2>4 DEF RunInv, CoverInv
<1> QED BY <1>1, <1>2 DEF ReturnsWhenWritten

(* As many tracks as pairs with one lane.                                  *)
LEMMA TracksAreCrossings ==
  ASSUME NEW S \in SUBSET (Tracks \X Lanes), NEW l \in Lanes
  PROVE  Cardinality({p \in S : p[2] = l}) = Cardinality({t \in Tracks : <<t, l>> \in S})
<1> DEFINE P == {p \in S : p[2] = l}
           T == {t \in Tracks : <<t, l>> \in S}
           f == [t \in T |-> <<t, l>>]
<1>1. IsFiniteSet(T)
  BY TracksAssumption, FS_Subset
<1>2. f \in [T -> P]
  OBVIOUS
<1>3. IsInjective(f)
  BY DEF IsInjective
<1>4. \A p \in P : \E t \in T : f[t] = p
  <2> SUFFICES ASSUME NEW p \in P PROVE p[1] \in T /\ f[p[1]] = p
    OBVIOUS
  <2>1. p = <<p[1], l>> /\ p[1] \in Tracks
    OBVIOUS
  <2> QED BY <2>1
<1>5. f \in Bijection(T, P)
  BY <1>2, <1>3, <1>4 DEF Bijection, Injection, Surjection
<1>6. ExistsBijection(T, P)
  BY <1>5 DEF ExistsBijection
<1> HIDE DEF P, T, f
<1>7. Cardinality(P) = Cardinality(T)
  BY <1>1, <1>6, FS_Bijection
<1> QED BY <1>7 DEF P, T

(* The counts of storage, summary and log are those of the core.           *)
LEMMA InvGivesAgreement == RunInv => CountsAgree
<1> SUFFICES ASSUME RunInv PROVE CountsAgree
  OBVIOUS
<1>0. /\ given = [p \in Tracks \X Lanes |-> IF p \in counted \ cut THEN 1 ELSE 0]
      /\ counted \subseteq Tracks \X Lanes /\ cut \subseteq counted /\ Log \in Sinks
      /\ (broken = 0 => cut = {})
  BY DEF RunInv, AgreeInv, CoreTypeOK, Sinks
<1>1. \A p \in Tracks \X Lanes : given[p] <= 1
  BY <1>0
<1>2. ASSUME NEW l \in Lanes
      PROVE  tally[l] = Cardinality({t \in Tracks : given[<<t, l>>] = 1 \/ <<t, l>> \in cut})
  <2>1. tally[l] = Cardinality({p \in counted : p[2] = l})
    BY DEF RunInv, CountedOnce
  <2>2. {t \in Tracks : given[<<t, l>>] = 1 \/ <<t, l>> \in cut} = {t \in Tracks : <<t, l>> \in counted}
    BY <1>0
  <2>3. Cardinality({p \in counted : p[2] = l}) = Cardinality({t \in Tracks : <<t, l>> \in counted})
    BY <1>0, TracksAreCrossings
  <2> QED BY <2>1, <2>2, <2>3
<1>3. ASSUME NEW i \in DOMAIN disk[Log]
      PROVE  disk[Log][i] \in Recorded(Log)
  BY DEF Recorded, Records, Range
<1>4. ASSUME NEW i \in DOMAIN disk[Log], NEW j \in DOMAIN disk[Log], i # j
      PROVE  disk[Log][i].crossings \cap disk[Log][j].crossings = {}
  <2>1. disk[Log] \in Seq(Items)
    BY <1>0 DEF RunInv, SinkTypeOK
  <2>2. i \in Nat /\ j \in Nat
    BY <2>1
  <2>3. /\ i < j => disk[Log][i].frame < disk[Log][j].frame
        /\ j < i => disk[Log][j].frame < disk[Log][i].frame
    BY <1>0 DEF RunInv, LineInv, InLine
  <2>4. disk[Log][i].frame \in Nat /\ disk[Log][j].frame \in Nat
    <3>1. disk[Log][i] \in Items /\ disk[Log][j] \in Items
      BY <2>1
    <3> QED BY <3>1, RunAssumption DEF Items
  <2>5. disk[Log][i] # disk[Log][j]
    BY <1>4, <2>2, <2>3, <2>4
  <2> QED BY <1>0, <1>3, <2>5 DEF RunInv, AgreeInv
<1>5. ASSUME NEW i \in DOMAIN disk[Log]
      PROVE  /\ \A p \in disk[Log][i].crossings : given[p] = 1 /\ p \notin cut
             /\ \A c \in disk[Log][i].changes : <<disk[Log][i].frame, c>> \in rows
  <2>1. /\ disk[Log][i].crossings \subseteq counted \ cut
        /\ \A c \in disk[Log][i].changes : <<disk[Log][i].frame, c>> \in rows
    BY <1>0, <1>3 DEF RunInv, AgreeInv
  <2> QED BY <1>0, <2>1
<1> QED BY <1>0, <1>1, <1>2, <1>4, <1>5 DEF CountsAgree

(* The invariant of a run of the pipeline, by itself.                      *)
THEOREM RunIsSound == RunSpec => []RunInv
<1> QED BY RunBegins, RunInvStep, PTL DEF RunSpec

(* ... and of every run of a camera worker: a new pipeline begins as the   *)
(* first did.                                                              *)
LEMMA WorkerStep == RunInv /\ [WorkerNext]_workerVars => RunInv'
<1>1. RunInv /\ NewPipeline => RunInit'
  <2> SUFFICES ASSUME RunInv, NewPipeline PROVE RunInit'
    OBVIOUS
  <2>1. logs' \in BOOLEAN /\ FirstSink' = FirstSink
    BY DEF RunInv, MainTypeOK, NewPipeline, FirstSink
  <2> QED BY <2>1 DEF NewPipeline, RunInit, CoreInit, CoreRebuilt
<1>2. RunInit' => RunInv'
  BY RunBegins, PTL
<1>3. [WorkerNext]_workerVars => NewPipeline \/ [RunNext]_runVars
  BY DEF WorkerNext, CameraThread, RunCamera, RunReturns, RunFails, Waited, LoopEnds, Running,
         Signalled, Exits, workerVars
<1> QED BY <1>1, <1>2, <1>3, RunInvStep

(* Every run of a camera worker keeps the invariant.                       *)
THEOREM WorkerRunsAreSound == WorkerSpec => []RunInv
<1>1. WorkerInit => RunInv
  BY RunBegins DEF WorkerInit
<1> QED BY <1>1, WorkerStep, PTL DEF WorkerSpec

(* ReturnsWhenWritten for every number of frames and runs and all sizes of *)
(* the queues: a run returns with every frame it read on disk or reported  *)
(* as dropped, for each sink whose thread lived, in the order of the       *)
(* source.                                                                 *)
THEOREM WrittenOrReported == WorkerSpec => []ReturnsWhenWritten
<1> QED BY WorkerRunsAreSound, InvGivesWritten, PTL

(* CountsAgree for every number of tracks, lanes, frames and runs: summary *)
(* of the core, storage worker and log have the same crossings, each once, *)
(* and the log's lane changes have their rows.                             *)
THEOREM CountsAreTheSame == WorkerSpec => []CountsAgree
<1> QED BY WorkerRunsAreSound, InvGivesAgreement, PTL

(* A setting.                                                              *)
LEMMA LogsAreKept ==
  ASSUME [RunNext]_runVars
  PROVE  UNCHANGED logs
<1>1. CASE (\E found \in Detections : FrameSeen(found)) \/ FrameUnseen
  BY <1>1 DEF FrameSeen, FrameUnseen, Process, Finished, RaisesGiving, RaisesNoting, RaisesDrawing,
              Skip, RaisesEarly, RaisesDrawingSkipped, Breaks, NextFrame
<1>2. CASE EndOfFrames \/ PutStop \/ Join \/ Close
  BY <1>2 DEF EndOfFrames, PutStop, Join, Close
<1>3. CASE (\E s \in Sinks : Take(s) \/ Write(s) \/ Die(s)) \/ UNCHANGED runVars
  BY <1>3 DEF Take, Write, Die, runVars, mainVars
<1> QED BY <1>1, <1>2, <1>3, RunSteps

(* Type correctness of the worker and its runs.                            *)
THEOREM WorkerTypes == WorkerSpec => []WorkerTypeOK
<1> DEFINE P == /\ thread \in {"loop", "running", "waiting", "ended"}
                /\ exited \in BOOLEAN /\ stopEvent \in BOOLEAN
                /\ live \in BOOLEAN /\ (live => ~logs)
                /\ runs \in 0..MaxRuns
<1>0. MaxRuns \in Nat /\ 0 \in 0..MaxRuns
  BY WorkerAssumption
<1>1. WorkerInit => P
  BY <1>0 DEF WorkerInit, LiveIsUnlogged
<1>2. P /\ [WorkerNext]_workerVars => P'
  <2> SUFFICES ASSUME P, [WorkerNext]_workerVars PROVE P'
    OBVIOUS
  <2>1. CASE RunCamera
    BY <1>0, <2>1 DEF RunCamera, NewPipeline
  <2>2. CASE RunReturns \/ RunFails
    BY <2>2 DEF RunReturns, RunFails, AfterRun, runVars, mainVars
  <2>3. CASE Waited \/ LoopEnds
    BY <2>3 DEF Waited, LoopEnds, runVars, mainVars
  <2>4. CASE Running \/ UNCHANGED workerVars
    <3>1. [RunNext]_runVars /\ UNCHANGED processVars
      BY <2>4 DEF Running, workerVars
    <3>2. UNCHANGED logs
      BY <3>1, LogsAreKept
    <3> QED BY <3>1, <3>2 DEF processVars
  <2>5. CASE Signalled \/ Exits
    <3>1. UNCHANGED <<logs, live, runs>> /\ thread' \in {thread, "ended"}
      BY <2>5 DEF Signalled, Exits, runVars, mainVars
    <3>2. exited' \in {exited, TRUE} /\ stopEvent' \in {stopEvent, TRUE}
      BY <2>5 DEF Signalled, Exits
    <3> QED BY <3>1, <3>2
  <2> QED BY <2>1, <2>2, <2>3, <2>4, <2>5 DEF WorkerNext, CameraThread
<1>3. RunInv /\ P => WorkerTypeOK
  BY InvGivesTypes DEF WorkerTypeOK
<1> QED BY <1>1, <1>2, <1>3, WorkerRunsAreSound, PTL DEF WorkerSpec
=============================================================================
