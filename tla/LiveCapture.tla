---------------------------- MODULE LiveCapture ----------------------------
(***************************************************************************)
(* packages/tf_api/api/routes_live.py, _capture_loop: the thread that owns *)
(* one camera's reader and DetectionCore.  It connects with bounded        *)
(* retries, reads frames, runs the core on them or replays its last result *)
(* on a still scene, hands every crossing of the result to the storage     *)
(* worker, reconnects after too many failed reads, and swaps the core when *)
(* an API call has asked for a reload.                                     *)
(*                                                                         *)
(* The thread is the one writer of the core; the API sets the reload flag  *)
(* and the stop event at any time.  Preview frames, metrics and live       *)
(* messages are left out.                                                  *)
(***************************************************************************)
EXTENDS DetectionCore

CONSTANTS
    MaxAttempts,    \* _MAX_RECONNECT_ATTEMPTS
    MaxReadFailures,\* failed reads in a row before the reader is dropped
    MaxFrame,       \* bound: frames of a connection
    MaxConnections, \* bound: connections
    MaxCores,       \* bound: cores
    EnqueueMax      \* bound: count of enqueues of one crossing

ASSUME CaptureAssumption ==
    /\ MaxAttempts \in Nat /\ MaxReadFailures \in Nat /\ MaxFrame \in Nat
    /\ MaxConnections \in Nat /\ MaxCores \in Nat \ {0} /\ EnqueueMax \in Nat \ {0}

VARIABLES
    loop,           \* where _capture_loop is
    attempts,       \* failed openings in a row
    failures,       \* failed reads in a row
    frame,          \* frame_idx
    motionGated,    \* a file source: has_motion may say no
    hasLast,        \* _last_det is set; its crossings are those of out
    reload,         \* stream_meta["reload_requested"]
    stopping,       \* stop_event
    enqueued,       \* how often each crossing was given to the storage worker
    connections,    \* history: connections so far
    cores,          \* history: cores so far
    unseen          \* history: processed frames since each known track was in one

readerVars  == <<loop, attempts, failures, connections>>
signalVars  == <<motionGated, reload, stopping>>
historyVars == <<cores, unseen>>
vars == <<coreVars, readerVars, frame, hasLast, signalVars, enqueued, historyVars>>

Init ==
    /\ CoreInit
    /\ loop = "connect" /\ attempts = 0 /\ failures = 0 /\ connections = 0
    /\ frame = 0 /\ hasLast = FALSE
    /\ motionGated \in BOOLEAN /\ reload = FALSE /\ stopping = FALSE
    /\ enqueued = [p \in Tracks \X Lanes |-> 0]
    /\ cores = 1 /\ unseen = [t \in {} |-> 0]

(* One type invariant.                                                      *)
TypeOK ==
    /\ CoreTypeOK
    /\ loop \in {"connect", "turn", "read", "ended"}
    /\ attempts \in 0..MaxAttempts + 1 /\ failures \in 0..MaxReadFailures + 1
    /\ frame \in Nat /\ connections \in Nat /\ cores \in Nat
    /\ hasLast \in BOOLEAN /\ motionGated \in BOOLEAN
    /\ reload \in BOOLEAN /\ stopping \in BOOLEAN
    /\ enqueued \in [Tracks \X Lanes -> 0..EnqueueMax]
    /\ DOMAIN unseen = Known

----------------------------------------------------------------------------
(* Opening the source.                                                     *)

(* get_video_reader returns: a new reader, and frame numbers from 0.        *)
Connect ==
    /\ loop = "connect" /\ ~stopping
    /\ connections < MaxConnections
    /\ loop' = "turn"
    /\ attempts' = 0 /\ failures' = 0 /\ frame' = 0
    /\ connections' = connections + 1
    /\ UNCHANGED <<coreVars, hasLast, signalVars, enqueued, historyVars>>

(* It raises: a later attempt, or the end of the loop.                      *)
ConnectFails ==
    /\ loop = "connect" /\ ~stopping
    /\ attempts' = attempts + 1
    /\ loop' = IF attempts' > MaxAttempts THEN "ended" ELSE "connect"
    /\ UNCHANGED <<coreVars, failures, connections, frame, hasLast, signalVars,
                   enqueued, historyVars>>

(* Both loops look at the stop event first.                                 *)
SeeStop ==
    /\ loop \in {"connect", "turn"} /\ stopping
    /\ loop' = "ended"
    /\ UNCHANGED <<coreVars, attempts, failures, connections, frame, hasLast,
                   signalVars, enqueued, historyVars>>

----------------------------------------------------------------------------
(* One turn of the reading loop.                                           *)

(* The reload flag is popped.  A new core replaces the old one, with its    *)
(* last result forgotten; if building it fails the old one goes on.         *)
Reload ==
    /\ loop = "turn" /\ ~stopping /\ reload
    /\ loop' = "read"
    /\ reload' = FALSE
    /\ \/ /\ CoreRebuilt
          /\ hasLast' = FALSE
          /\ cores' = cores + 1
          /\ unseen' = [t \in {} |-> 0]
       \/ UNCHANGED <<coreVars, hasLast, historyVars>>
    /\ UNCHANGED <<attempts, failures, connections, frame, motionGated, stopping, enqueued>>

NoReload ==
    /\ loop = "turn" /\ ~stopping /\ ~reload
    /\ loop' = "read"
    /\ UNCHANGED <<coreVars, attempts, failures, connections, frame, hasLast,
                   signalVars, enqueued, historyVars>>

(* A read fails: after too many in a row the reader is released.            *)
ReadFails ==
    /\ loop = "read"
    /\ failures' = failures + 1
    /\ loop' = IF failures' > MaxReadFailures THEN "connect" ELSE "turn"
    /\ UNCHANGED <<coreVars, attempts, connections, frame, hasLast, signalVars,
                   enqueued, historyVars>>

(* Anything that raises in a turn ends the thread.                          *)
Raises ==
    /\ loop = "read"
    /\ loop' = "ended"
    /\ UNCHANGED <<coreVars, attempts, failures, connections, frame, hasLast,
                   signalVars, enqueued, historyVars>>

FrameRead ==
    /\ loop = "read" /\ frame < MaxFrame
    /\ loop' = "turn"
    /\ failures' = 0
    /\ frame' = frame + 1
    /\ UNCHANGED <<attempts, connections, signalVars>>

(* Nobody watches a stream that is not always on.                           *)
SkipIdle ==
    /\ FrameRead
    /\ UNCHANGED <<coreVars, hasLast, enqueued, historyVars>>

Enqueue(crossings) ==
    enqueued' = [p \in Tracks \X Lanes |->
        IF p \in crossings /\ enqueued[p] < EnqueueMax THEN enqueued[p] + 1 ELSE enqueued[p]]

(* No motion: the last result, crossings included, is taken again.          *)
Replay ==
    /\ FrameRead
    /\ motionGated /\ hasLast
    /\ Enqueue(out.crossings)
    /\ UNCHANGED <<coreVars, hasLast, historyVars>>

(* What the history records of a processed frame.                           *)
Record(n, found) ==
    /\ unseen' = [t \in DOMAIN tracks' |->
                     IF t \in (IF IsDetectFrame(n) THEN DOMAIN found ELSE DOMAIN cache)
                     THEN 0 ELSE unseen[t] + 1]
    /\ UNCHANGED cores

InferInPlace(n, found) ==
    /\ FrameRead
    /\ ProcessFrame(frame, n, found, TRUE)
    /\ Enqueue(out'.crossings)
    /\ hasLast' = TRUE
    /\ Record(n, found)
InferReplaying(n, found) ==
    /\ FrameRead
    /\ ProcessFrame(frame, n, found, FALSE)
    /\ Enqueue(out.crossings \cup out'.crossings)
    /\ hasLast' = TRUE
    /\ Record(n, found)
(* process_frame, on copies of its boxes where they are mapped back.  The   *)
(* cadence may be another for every frame.                                  *)
Infer(n, found) ==
    /\ FrameRead
    /\ ProcessFrame(frame, n, found, FALSE)
    /\ Enqueue(out'.crossings)
    /\ hasLast' = TRUE
    /\ Record(n, found)

CaptureThread ==
    \/ Connect \/ ConnectFails \/ SeeStop
    \/ Reload \/ NoReload \/ ReadFails \/ Raises \/ SkipIdle \/ Replay
    \/ \E n \in Cadences, found \in Detections : Infer(n, found)

----------------------------------------------------------------------------
(* The API.                                                                *)

RequestReload ==
    /\ cores < MaxCores /\ ~reload
    /\ reload' = TRUE
    /\ UNCHANGED <<coreVars, readerVars, frame, hasLast, motionGated, stopping,
                   enqueued, historyVars>>

RequestStop ==
    /\ ~stopping
    /\ stopping' = TRUE
    /\ UNCHANGED <<coreVars, readerVars, frame, hasLast, motionGated, reload,
                   enqueued, historyVars>>

Next == CaptureThread \/ RequestReload \/ RequestStop

Spec == Init /\ [][Next]_vars

----------------------------------------------------------------------------
(* The inductive invariants.                                               *)

(* The limits on retries are looked at before the next try.                 *)
TriesInv ==
    /\ loop # "ended" => attempts <= MaxAttempts
    /\ loop \in {"turn", "read"} => failures <= MaxReadFailures

(* What the core has counted it hands over at once; earlier cores may each  *)
(* have handed over a crossing too.                                         *)
HandedInv ==
    /\ cores >= 1
    /\ ~motionGated =>
          \A p \in Tracks \X Lanes :
              enqueued[p] <= cores /\ (p \notin counted => enqueued[p] < cores)

(* Frames that were not processed make the age of a track by frame numbers  *)
(* larger than by processed frames, never smaller.                          *)
SightInv ==
    /\ \A t \in Known : unseen[t] \in Nat
    /\ loop \in {"turn", "read"} => connections >= 1
    /\ connections = 0 => Known = {}
    /\ connections <= 1 =>
          \A t \in Known : unseen[t] <= TrackTimeout /\ tracks[t].last + unseen[t] < frame

(* A track that is in sight and old enough was counted where it is, in the  *)
(* numbering of the frame in which it was seen.                             *)
OccupantsInv ==
    \A t \in Known :
        unseen[t] = 0 /\ IsCounted(tracks[t], tracks[t].last)
            => <<t, tracks[t].stable>> \in counted

----------------------------------------------------------------------------
(* Properties.                                                             *)

(* A vehicle that counts in the occupancy of the frame it is seen in has    *)
(* been counted as a crossing of that lane, also after a lane change, a     *)
(* reload or a gap: the two statistics agree on who was there.              *)
SeenOccupantsCounted ==
    \A t \in Known :
        (tracks[t].last = frame - 1 /\ unseen[t] = 0 /\ IsCounted(tracks[t], frame - 1))
            => <<t, tracks[t].stable>> \in counted

(* One core gives a crossing to the storage worker once, however often the  *)
(* reader reconnects or frames are skipped, on sources that are not         *)
(* motion-gated.                                                            *)
EnqueuedOncePerCore ==
    ~motionGated => \A p \in Tracks \X Lanes : enqueued[p] <= cores

(* A track leaves the statistics once it has been out of sight for the      *)
(* timeout, as long as the reader has not reconnected.                      *)
GhostsExpire ==
    connections <= 1 => \A t \in Known : unseen[t] <= TrackTimeout

(* On a frame without detection the core sees the boxes of the last         *)
(* detection, and nothing the caller has done to them.                      *)
ReplayedAsDetected == cache = detected

(* "Emit one count event per (track_id, lane_id) from stable lane           *)
(* assignment": no crossing reaches the storage worker twice from one core. *)
OneEventPerCrossing ==
    \A p \in Tracks \X Lanes : enqueued[p] <= cores

(* "so occupancy/counts do not freeze ghost vehicles": the occupancy of a   *)
(* lane counts no track that has not been seen within the timeout.          *)
NoGhostOccupancy ==
    \A l \in Lanes :
        Occupancy(tracks, frame - 1)[l] <=
            Cardinality({t \in Known : unseen[t] <= TrackTimeout /\ tracks[t].stable = l})
=============================================================================
