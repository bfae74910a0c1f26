--------------------------- MODULE DetectionCore ---------------------------
(***************************************************************************)
(* packages/tf_core: what DetectionCore.process_frame makes of one frame.  *)
(* The tracker adapter finds boxes or replays the last ones; LaneAssigner  *)
(* gives each box a lane; LaneStateManager smooths the lanes of each track *)
(* and forgets tracks; OccupancyEngine and LineCounter read its states.    *)
(*                                                                         *)
(* The core is called by one thread.  LiveCapture and OfflineRun are its   *)
(* two callers and give it the frame numbers.                              *)
(*                                                                         *)
(* A box is the cell its bottom centre is in; the lanes are the first      *)
(* NLanes cells of the region the core sees, and mapping a box back to the *)
(* whole frame moves it by Offset cells.  Classes, confidences and the     *)
(* motion behind a direction are left out.                                 *)
(***************************************************************************)
EXTENDS Integers, Sequences, FiniteSets, SequencesExt

CONSTANTS
    Tracks,         \* track ids
    NLanes,         \* lanes
    Width,          \* the last cell of a frame
    Offset,         \* offset of the region of interest
    Cadences,       \* the values of detect_every_n
    Window,         \* history_window
    Consecutive,    \* min_consecutive_for_change
    UnknownTimeout, \* unknown_timeout_frames
    TrackTimeout,   \* active_track_timeout_frames
    MinAge,         \* min_track_age_frames
    CountUnstable,  \* count_unstable_lane
    Unknown, NoLane

Lanes == 0 .. NLanes - 1
Cells == 0 .. Width

ASSUME CoreAssumption ==
    /\ NLanes \in Nat \ {0} /\ Width \in Nat /\ Offset \in Nat
    /\ Cadences \subseteq {1, 2}
    /\ Window \in Nat \ {0} /\ Consecutive \in 1..Window
    /\ UnknownTimeout \in Nat /\ TrackTimeout \in Nat /\ MinAge \in Nat
    /\ CountUnstable \in BOOLEAN
    /\ Unknown # NoLane /\ {Unknown, NoLane} \cap Lanes = {}

(* Only so many track ids are ever given.                                   *)
ASSUME TracksAssumption == IsFiniteSet(Tracks)

VARIABLES
    cache,          \* the adapter's _cached_tracks: the boxes of the last detection
    phase,          \* its _frame_count, modulo the longest cadence
    tracks,         \* LaneStateManager.track_states
    counted,        \* LineCounter._counted
    tally,          \* LineCounter.counts, by lane
    out,            \* crossings and lane changes of the last processed frame
    detected        \* history: the boxes the model found last

coreVars == <<cache, phase, tracks, counted, tally, out, detected>>

Detections == UNION {[seen -> Cells] : seen \in SUBSET Tracks}

NothingYet == [crossings |-> {}, changes |-> {}]
NoBoxes == [t \in {} |-> 0]

(* A core that start() has just built.                                      *)
Fresh ==
    [cache |-> NoBoxes, phase |-> 0, tracks |-> [t \in {} |-> 0], counted |-> {},
     tally |-> [l \in Lanes |-> 0], out |-> NothingYet]

CoreInit ==
    /\ cache = Fresh.cache /\ phase = Fresh.phase /\ tracks = Fresh.tracks
    /\ counted = Fresh.counted /\ tally = Fresh.tally /\ out = Fresh.out
    /\ detected = NoBoxes

CoreRebuilt ==
    /\ cache' = Fresh.cache /\ phase' = Fresh.phase /\ tracks' = Fresh.tracks
    /\ counted' = Fresh.counted /\ tally' = Fresh.tally /\ out' = Fresh.out
    /\ detected' = NoBoxes

----------------------------------------------------------------------------
(* The adapter and the lanes.                                              *)

(* With a cadence of n only every n-th call runs the model.                 *)
IsDetectFrame(n) == n = 1 \/ (phase + 1) % n = 1

(* assign_lane: lanes do not overlap here.                                  *)
AssignLane(box) == IF box \in Lanes THEN box ELSE Unknown

(* to_original: moved by the offset, clamped to the frame.                  *)
ToOriginal(box) == IF box + Offset > Width THEN Width ELSE box + Offset

----------------------------------------------------------------------------
(* LaneStateManager.update                                                 *)

Votes(history, l) == Cardinality({i \in DOMAIN history : history[i] = l})

(* The lanes with most votes; unknown has none.                             *)
Modes(history) ==
    {l \in Lanes : /\ Votes(history, l) > 0
                   /\ \A m \in Lanes : Votes(history, m) <= Votes(history, l)}

LastEqual(history) ==
    /\ Len(history) >= Consecutive
    /\ \A i \in 0 .. Consecutive - 1 : history[Len(history) - i] = Last(history)

(* The last votes, if they agree, else a lane ahead of all others, else     *)
(* what it was.  The last vote is for a lane.                               *)
Voted(history, stable) ==
    IF LastEqual(history) THEN Last(history)
    ELSE IF \E l \in Lanes : Modes(history) = {l}
         THEN CHOOSE l \in Lanes : Modes(history) = {l}
         ELSE stable

NewTrack(frame) ==
    [first |-> frame, last |-> frame, history |-> <<>>, stable |-> NoLane, unknowns |-> 0]

(* One track of this frame.                                                 *)
Observed(s, frame, box) ==
    LET raw     == AssignLane(box)
        longer  == Append(s.history, raw)
        history == IF Len(longer) > Window THEN Tail(longer) ELSE longer
        missed  == IF raw = Unknown THEN s.unknowns + 1 ELSE 0
    IN  [s EXCEPT !.last = frame, !.history = history, !.unknowns = missed,
                  !.stable = IF raw # Unknown THEN Voted(history, s.stable)
                             ELSE IF missed > UnknownTimeout THEN NoLane ELSE s.stable]

SurvivesForEver(t, frame) == TRUE
(* A track that is not in this frame is kept for a while.                   *)
Survives(t, frame) == frame - tracks[t].last <= TrackTimeout

Known == DOMAIN tracks

Updated(frame, boxes) ==
    [t \in DOMAIN boxes \cup {u \in Known : Survives(u, frame)} |->
        IF t \in DOMAIN boxes
        THEN Observed(IF t \in Known THEN tracks[t] ELSE NewTrack(frame), frame, boxes[t])
        ELSE tracks[t]]

(* A lane change is one from a lane to another, with no gap between.        *)
Changes(boxes, after) ==
    {<<t, tracks[t].stable, after[t].stable>> :
        t \in {u \in DOMAIN boxes \cap Known :
                  /\ tracks[u].stable # NoLane /\ after[u].stable # NoLane
                  /\ tracks[u].stable # after[u].stable}}

----------------------------------------------------------------------------
(* OccupancyEngine and LineCounter.                                        *)

Age(s, frame) == frame - s.first + 1

IsCounted(s, frame) == Age(s, frame) >= MinAge /\ s.stable # NoLane

(* compute_occupancy: counted from nothing for every frame.                 *)
Occupancy(states, frame) ==
    [l \in Lanes |-> Cardinality({t \in DOMAIN states :
                        IsCounted(states[t], frame) /\ states[t].stable = l})]

EffectiveLane(s) ==
    IF s.stable # NoLane THEN s.stable
    ELSE IF CountUnstable /\ s.history # <<>> /\ Last(s.history) # Unknown
         THEN Last(s.history) ELSE NoLane

(* A track of this frame, old enough, in a lane it was not counted in.      *)
Crossings(frame, after) ==
    {<<t, EffectiveLane(after[t])>> :
        t \in {u \in DOMAIN after :
                  /\ after[u].last = frame
                  /\ EffectiveLane(after[u]) # NoLane
                  /\ Age(after[u], frame) >= MinAge}} \ counted

RememberedWhileTracked(new, after) == {p \in counted \cup new : p[1] \in DOMAIN after}
(* The pairs counted so far are never forgotten.                            *)
Remembered(new, after) == counted \cup new

----------------------------------------------------------------------------
(* process_frame.  The boxes it returns are those of the cache: a caller    *)
(* that maps them back in place moves the cached ones.                      *)
ProcessFrame(frame, n, found, inPlace) ==
    LET boxes == IF IsDetectFrame(n) THEN found ELSE cache
        after == Updated(frame, boxes)
        new   == Crossings(frame, after)
    IN  /\ cache' = IF inPlace THEN [t \in DOMAIN boxes |-> ToOriginal(boxes[t])] ELSE boxes
        /\ phase' = (phase + 1) % 2
        /\ tracks' = after
        /\ counted' = Remembered(new, after)
        /\ tally' = [l \in Lanes |-> tally[l] + Cardinality({p \in new : p[2] = l})]
        /\ out' = [crossings |-> new, changes |-> Changes(boxes, after)]
        /\ detected' = IF IsDetectFrame(n) THEN found ELSE detected

(* TrackState.                                                              *)
TrackStates ==
    [first : Nat, last : Nat, history : Seq(Lanes \cup {Unknown}),
     stable : Lanes \cup {NoLane}, unknowns : Nat]

CoreTypeOK ==
    /\ cache \in Detections
    /\ phase \in {0, 1}
    /\ Known \subseteq Tracks
    /\ \A t \in Known : tracks[t] \in TrackStates /\ Len(tracks[t].history) \in 1..Window
    /\ counted \subseteq Tracks \X Lanes
    /\ tally \in [Lanes -> Nat]
    /\ out.crossings \subseteq counted
    /\ out.changes \subseteq Tracks \X Lanes \X Lanes
    /\ detected \in Detections

----------------------------------------------------------------------------
(* Properties of the core, whoever calls it.                               *)

(* The cumulative count of a lane is the number of tracks counted in it: a  *)
(* track that leaves the frame, is forgotten and comes back under its old   *)
(* id does not count again.                                                 *)
CountedOnce ==
    \A l \in Lanes : tally[l] = Cardinality({p \in counted : p[2] = l})

(* A vehicle that stays in a lane for the consecutive frames is taken to be *)
(* there, however many older votes another lane has in the window.          *)
RecentVotesWin ==
    \A t \in Known, l \in Lanes :
        LET h == tracks[t].history
        IN  (Len(h) >= Consecutive /\ \A i \in Len(h) - Consecutive + 1 .. Len(h) : h[i] = l)
                => tracks[t].stable = l
=============================================================================
