----------------------------- MODULE OfflineRun -----------------------------
(***************************************************************************)
(* packages/tf_worker/pipeline.py, TrafficFlowPipeline.run: one pass over  *)
(* a finite source.  The main thread reads frames, runs DetectionCore on   *)
(* them or skips them, hands crossings to the storage worker, and gives    *)
(* each frame to two sinks, the log writer and the video writer, each a    *)
(* bounded queue with a thread that empties it.  At the end, or when       *)
(* anything of a frame raises, it sends each sink a stop item, joins its   *)
(* thread and writes the summary of counts.  Whether there are a log and a *)
(* summary is a setting; a live source has none.                           *)
(*                                                                         *)
(* The two sinks differ in one thing: the main thread knows when the log   *)
(* writer has died and stops feeding it.                                   *)
(***************************************************************************)
EXTENDS DetectionCore

CONSTANTS
    Log, Video,     \* the sinks: the log writer and the video writer
    QueueMax,       \* maxsize of a sink's queue
    LastFrame,      \* frames of the source
    DetectEvery,    \* detect_every_n of the run
    RoiCrop,        \* the core sees only the region of the lanes
    Stop            \* the None that ends a sink's thread

Sinks == {Log, Video}

ASSUME RunAssumption ==
    /\ Log # Video
    /\ QueueMax \in Nat \ {0} /\ LastFrame \in Nat
    /\ DetectEvery \in Cadences /\ RoiCrop \in BOOLEAN

VARIABLES
    step,           \* of the main thread
    sink,           \* the sink it is closing
    index,          \* frame_idx
    logs,           \* save_jsonl or save_csv: there is a log
    given,          \* how often each crossing was given to the storage worker
    rows,           \* lane_changes.csv: the lane changes of each frame
    summary,        \* counts_summary.csv, once it is written
    queue,          \* of each sink
    life,           \* of its thread
    hand,           \* what the thread is writing
    disk,           \* what it has written
    dropped,        \* history: frames that were not queued, each with a warning
    broken,         \* history: the frame that raised, 0 if none did
    cut             \* history: its crossings that were counted and not given on

mainVars == <<step, sink, index, logs, given, rows, summary>>
sinkVars == <<queue, life, hand, disk>>
lossVars == <<dropped, broken, cut>>
runVars == <<coreVars, mainVars, sinkVars, lossVars>>

NotWritten == [l \in {} |-> 0]
Idle == [frame |-> 0, crossings |-> {}, changes |-> {}]

(* A sink that is not opened has an empty queue for ever.                   *)
Opened(s) == s = Video \/ logs
FirstSink == IF logs THEN Log ELSE Video

LaneChanges == Tracks \X Lanes \X Lanes
Items == [frame : 1..LastFrame, crossings : SUBSET (Tracks \X Lanes), changes : SUBSET LaneChanges]

(* The end of a queue is no record.                                         *)
ASSUME StopAssumption == Stop \notin Items \cup {Idle}

RunInit ==
    /\ CoreInit
    /\ logs \in BOOLEAN
    /\ step = "read" /\ sink = FirstSink /\ index = 0
    /\ given = [p \in Tracks \X Lanes |-> 0]
    /\ rows = {} /\ summary = NotWritten
    /\ queue = [s \in Sinks |-> <<>>] /\ life = [s \in Sinks |-> "up"]
    /\ hand = [s \in Sinks |-> Idle] /\ disk = [s \in Sinks |-> <<>>]
    /\ dropped = [s \in Sinks |-> {}] /\ broken = 0 /\ cut = {}

(* One type invariant.                                                      *)
RunTypeOK ==
    /\ CoreTypeOK
    /\ step \in {"read", "put", "join", "close", "done"}
    /\ sink \in Sinks /\ index \in 0..LastFrame /\ logs \in BOOLEAN
    /\ broken \in 0..LastFrame /\ cut \subseteq Tracks \X Lanes
    /\ given \in [Tracks \X Lanes -> Nat]
    /\ rows \subseteq (1..LastFrame) \X LaneChanges
    /\ summary \in {NotWritten, tally}
    /\ \A s \in Sinks :
          /\ queue[s] \in Seq(Items \cup {Stop}) /\ Len(queue[s]) <= QueueMax
          /\ life[s] \in {"up", "ended", "dead"}
          /\ hand[s] \in Items \cup {Idle}
          /\ disk[s] \in Seq(Items)
          /\ dropped[s] \subseteq 1..LastFrame

----------------------------------------------------------------------------
(* One frame.                                                              *)

(* put_nowait on the queue of each of these sinks; a frame that does not    *)
(* fit is dropped.                                                          *)
Feed(item, sinks) ==
    LET Fed   == {s \in sinks : Opened(s)}
        Takes(s) == Len(queue[s]) < QueueMax /\ ~(s = Log /\ life[s] = "dead")
    IN  /\ queue' = [s \in Sinks |->
                        IF s \in Fed /\ Takes(s) THEN Append(queue[s], item) ELSE queue[s]]
        /\ dropped' = [s \in Sinks |->
                          IF s \in Fed /\ ~Takes(s) THEN dropped[s] \cup {item.frame}
                          ELSE dropped[s]]

(* The core's view of the frame; its boxes are mapped back to the whole     *)
(* frame in place.                                                          *)
Core(found) == ProcessFrame(index + 1, DetectEvery, found, RoiCrop)

(* Crossings are given to the storage worker, lane changes to the CSV file. *)
Give(crossings) ==
    given' = [p \in Tracks \X Lanes |-> IF p \in crossings THEN given[p] + 1 ELSE given[p]]
Note(changes) == rows' = IF logs THEN rows \cup {<<index + 1, c>> : c \in changes} ELSE rows

FrameRecord == [frame |-> index + 1, crossings |-> out'.crossings, changes |-> out'.changes]

NextFrame ==
    /\ step = "read" /\ index < LastFrame
    /\ index' = index + 1
    /\ UNCHANGED <<sink, logs, summary, life, hand, disk>>

Finished == NextFrame /\ UNCHANGED <<step, broken, cut>>

Process(found) ==
    /\ Finished
    /\ Core(found)
    /\ Give(out'.crossings) /\ Note(out'.changes)
    /\ Feed(FrameRecord, Sinks)

SkipReplays ==
    /\ Finished /\ index > 0
    /\ Give(out.crossings)
    /\ UNCHANGED <<coreVars, rows>>
    /\ Feed([frame |-> index + 1, crossings |-> out.crossings, changes |-> out.changes], Sinks)
(* No motion, or a storage queue that is nearly full: an empty result.      *)
Skip ==
    /\ Finished /\ index > 0
    /\ UNCHANGED <<coreVars, given, rows>>
    /\ Feed([Idle EXCEPT !.frame = index + 1], Sinks)

----------------------------------------------------------------------------
(* A frame that raises; the finally clause is next.                         *)

Breaks ==
    /\ NextFrame
    /\ step' = "put" /\ broken' = index + 1

(* Scaling it, the motion detector, the model: the core has counted nothing.*)
RaisesEarly ==
    /\ Breaks
    /\ UNCHANGED <<coreVars, given, rows, queue, dropped, cut>>

(* Between the core's count and the last crossing given on: a publish.      *)
RaisesGiving(found) ==
    /\ Breaks
    /\ Core(found)
    /\ cut' \in SUBSET out'.crossings
    /\ Give(out'.crossings \ cut')
    /\ UNCHANGED <<rows, queue, dropped>>

(* Some of its lane changes have their row.                                 *)
RaisesNoting(found) ==
    /\ Breaks
    /\ Core(found)
    /\ Give(out'.crossings)
    /\ \E noted \in SUBSET out'.changes : Note(noted)
    /\ UNCHANGED <<queue, dropped, cut>>

(* Drawing it: it is in the log and not in the video.                       *)
RaisesDrawing(found) ==
    /\ Breaks
    /\ Core(found)
    /\ Give(out'.crossings) /\ Note(out'.changes)
    /\ Feed(FrameRecord, {Log})
    /\ UNCHANGED cut
RaisesDrawingSkipped ==
    /\ Breaks /\ index > 0
    /\ Feed([Idle EXCEPT !.frame = index + 1], {Log})
    /\ UNCHANGED <<coreVars, given, rows, cut>>

FrameRaises ==
    \/ RaisesEarly \/ RaisesDrawingSkipped
    \/ \E found \in Detections :
          RaisesGiving(found) \/ RaisesNoting(found) \/ RaisesDrawing(found)

(* The source ends, or reading it raises.                                   *)
EndOfFrames ==
    /\ step = "read"
    /\ step' = "put"
    /\ UNCHANGED <<coreVars, sink, index, logs, given, rows, summary, sinkVars, lossVars>>

----------------------------------------------------------------------------
(* The finally clause.                                                     *)

(* put(None) waits for room, whether or not the thread lives.               *)
PutStop ==
    /\ step = "put" /\ Len(queue[sink]) < QueueMax
    /\ queue' = [queue EXCEPT ![sink] = Append(@, Stop)]
    /\ step' = "join"
    /\ UNCHANGED <<coreVars, sink, index, logs, given, rows, summary, life, hand, disk, lossVars>>

JoinAtOnce ==
    /\ step = "join"
    /\ sink' = Video
    /\ step' = IF sink = Log THEN "put" ELSE "close"
    /\ UNCHANGED <<coreVars, index, logs, given, rows, summary, sinkVars, lossVars>>
Join ==
    /\ step = "join" /\ life[sink] # "up"
    /\ sink' = Video
    /\ step' = IF sink = Log THEN "put" ELSE "close"
    /\ UNCHANGED <<coreVars, index, logs, given, rows, summary, sinkVars, lossVars>>

(* writer.close: the counts of the core.  Then run returns, or raises what  *)
(* a frame raised.                                                          *)
Close ==
    /\ step = "close"
    /\ summary' = IF logs THEN tally ELSE NotWritten
    /\ step' = "done"
    /\ UNCHANGED <<coreVars, sink, index, logs, given, rows, sinkVars, lossVars>>

Main ==
    \/ \E found \in Detections : Process(found)
    \/ Skip \/ FrameRaises \/ EndOfFrames \/ PutStop \/ Join \/ Close

----------------------------------------------------------------------------
(* The thread of a sink.                                                   *)

Take(s) ==
    /\ life[s] = "up" /\ hand[s] = Idle /\ queue[s] # <<>>
    /\ queue' = [queue EXCEPT ![s] = Tail(@)]
    /\ IF Head(queue[s]) = Stop
       THEN life' = [life EXCEPT ![s] = "ended"] /\ UNCHANGED hand
       ELSE hand' = [hand EXCEPT ![s] = Head(queue[s])] /\ UNCHANGED life
    /\ UNCHANGED <<coreVars, mainVars, disk, lossVars>>

Write(s) ==
    /\ life[s] = "up" /\ hand[s] # Idle
    /\ disk' = [disk EXCEPT ![s] = Append(@, hand[s])]
    /\ hand' = [hand EXCEPT ![s] = Idle]
    /\ UNCHANGED <<coreVars, mainVars, queue, life, lossVars>>

(* Writing raises: the thread logs it and ends, with the item unwritten.    *)
Die(s) ==
    /\ life[s] = "up" /\ hand[s] # Idle
    /\ life' = [life EXCEPT ![s] = "dead"]
    /\ UNCHANGED <<coreVars, mainVars, queue, hand, disk, lossVars>>

RunNext == Main \/ \E s \in Sinks : Take(s) \/ Write(s) \/ Die(s)

RunSpec == RunInit /\ [][RunNext]_runVars

(* The threads run, and a write returns or raises.                          *)
FairRun ==
    /\ RunSpec
    /\ WF_runVars(Main)
    /\ \A s \in Sinks : WF_runVars(Take(s)) /\ WF_runVars(Write(s) \/ Die(s))

----------------------------------------------------------------------------
(* The inductive invariants.                                               *)

(* What has been written of a sink's records d, its thread has in hand, and *)
(* is queued for it.                                                        *)
Queued(q) == Range(q) \ {Stop}
Coming(h, q) == ({h} \ {Idle}) \cup Queued(q)
Records(d, h, q) == Range(d) \cup Coming(h, q)
Recorded(s) == Records(disk[s], hand[s], queue[s])

(* They are in the order of the source, and the stop item is the last.      *)
InLine(d, h, q) ==
    /\ \A i, j \in DOMAIN d : i < j => d[i].frame < d[j].frame
    /\ \A r \in Range(d), c \in Coming(h, q) : r.frame < c.frame
    /\ h # Idle => \A c \in Queued(q) : h.frame < c.frame
    /\ \A i, j \in DOMAIN q : i < j =>
          /\ q[i] # Stop
          /\ q[j] # Stop => q[i].frame < q[j].frame

LineInv == \A s \in Sinks : InLine(disk[s], hand[s], queue[s])

(* Each frame read is among them, was dropped, or raised.                   *)
Broken == {broken} \ {0}
CoverInv ==
    \A s \in Sinks : Opened(s) =>
        {r.frame : r \in Recorded(s)} \cup dropped[s] \cup Broken = 1 .. index

(* Which sinks the main thread has told to stop, and has joined.            *)
Told(s) ==
    IF s = Log THEN step # "read" /\ ~(step = "put" /\ sink = Log)
    ELSE step \in {"close", "done"} \/ (step = "join" /\ sink = Video)
Joined(s) == IF s = Log THEN sink = Video ELSE step \in {"close", "done"}

ClosingInv ==
    /\ step = "read" => sink = FirstSink /\ broken = 0
    /\ step \in {"close", "done"} => sink = Video
    /\ step # "done" => summary = NotWritten
    /\ \A s \in Sinks :
          /\ Stop \in Range(queue[s]) \/ life[s] = "ended" => Told(s)
          /\ life[s] = "ended" => queue[s] = <<>> /\ hand[s] = Idle
          /\ Joined(s) /\ Opened(s) => life[s] # "up"

(* What the records say is what the core has counted and the CSV file has.  *)
AgreeInv ==
    /\ cut \subseteq counted /\ (broken = 0 => cut = {})
    /\ given = [p \in Tracks \X Lanes |-> IF p \in counted \ cut THEN 1 ELSE 0]
    /\ \A s \in Sinks :
          /\ \A r, q \in Recorded(s) : r # q => r.crossings \cap q.crossings = {}
          /\ \A r \in Recorded(s) : r.crossings \subseteq counted \ cut
    /\ \A r \in Recorded(Log) : \A c \in r.changes : <<r.frame, c>> \in rows

----------------------------------------------------------------------------
(* Properties.                                                             *)

Frames(items) == {items[i].frame : i \in DOMAIN items}

(* The log and the video have their frames in the order of the source, each *)
(* once, whatever was dropped between.                                      *)
WrittenInOrder ==
    \A s \in Sinks : \A i, j \in DOMAIN disk[s] :
        i < j => disk[s][i].frame < disk[s][j].frame

(* run() is over with every frame on disk but those it reported as dropped  *)
(* and the one that raised: it has waited for all the sinks had been given, *)
(* and nothing has changed places on the way.                               *)
ReturnsWhenWritten ==
    /\ WrittenInOrder
    /\ step = "done" =>
        \A s \in Sinks : Opened(s) /\ life[s] # "dead" =>
            Frames(disk[s]) \cup dropped[s] \cup Broken = 1..index

(* The places a count is read from agree: the summary of the core, the      *)
(* storage worker's crossings, and the log, in which a crossing is in the   *)
(* record of one frame and a lane change has its row in lane_changes.csv.   *)
(* The summary is ahead only after an exception, by crossings of the frame  *)
(* that raised, which are then neither stored nor in the log.               *)
CountsAgree ==
    /\ \A p \in Tracks \X Lanes : given[p] <= 1
    /\ broken = 0 => cut = {}
    /\ \A l \in Lanes :
          tally[l] = Cardinality({t \in Tracks : given[<<t, l>>] = 1 \/ <<t, l>> \in cut})
    /\ \A i, j \in DOMAIN disk[Log] :
          i # j => disk[Log][i].crossings \cap disk[Log][j].crossings = {}
    /\ \A i \in DOMAIN disk[Log] :
          /\ \A p \in disk[Log][i].crossings : given[p] = 1 /\ p \notin cut
          /\ \A c \in disk[Log][i].changes : <<disk[Log][i].frame, c>> \in rows

(* A run over a finite source ends, if its two threads survive.             *)
RunEnds ==
    [](\A s \in Sinks : life[s] # "dead") => <>(step = "done")

(* "VideoWriter thread died - subsequent frames will be dropped": the run   *)
(* goes on without its video, and ends.                                     *)
RunEndsWithoutVideo ==
    [](life[Log] # "dead") => <>(step = "done")

(* "skips the CNN on intermediate frames and reuses the last boxes": the    *)
(* boxes a frame without detection starts from are the detected ones.       *)
LastBoxesReused ==
    (step = "read" /\ ~IsDetectFrame(DetectEvery)) => cache = detected
=============================================================================
