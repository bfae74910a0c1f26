----------------------------- MODULE FramePath ------------------------------
(***************************************************************************)
(* A frame's way from a camera to a viewer: the capture and the refresh    *)
(* thread of YouTubeLiveReader (video_io.py), which share a capture handle *)
(* and a queue of one; the pipeline's thread, which reads, publishes the   *)
(* preview and releases the reader; the encoder; and the viewers of one    *)
(* pipeline, which share its queue of one JPEG and are counted in its meta *)
(* data (routes_live.py).  Frames are numbered as the camera delivers      *)
(* them.  CameraStreamReader is the same without the refresh thread.       *)
(***************************************************************************)
EXTENDS Naturals, FiniteSets, Sequences

CONSTANTS Viewers,
          MaxFrames,   \* bound on the frames a camera delivers
          MaxHandles,  \* bound on the capture handles opened
          MaxLost      \* bound on the viewers gone before their generator began

ASSUME FrameBounds ==
    /\ MaxFrames \in Nat /\ MaxHandles \in Nat \ {0} /\ MaxLost \in Nat
    /\ IsFiniteSet(Viewers)

VARIABLES
    frames,    \* frames delivered so far
    handles,   \* capture handles that are open
    opened,    \* handles opened so far
    capture,   \* self._capture: a handle, or 0
    stop,      \* the reader's stop event
    cap,       \* the capture thread
    ref,       \* the refresh thread
    latest,    \* the reader's queue; 0 is the signal of a loss
    con,       \* the pipeline's thread
    preview,   \* the frame published last
    enc,       \* the encoder
    jpegs,     \* annotated_queue
    watching,  \* viewers whose generator runs, or is about to
    conns,     \* stream_meta["connections"]
    served,    \* the frame of the JPEG served last
    snap,      \* the frame of _last_snapshots, or 0
    shown,     \* the frame of the image shown last; 0 is a placeholder
    ended,     \* the pipeline is not registered any more, and its stop event set
    stale,     \* history: a generator of an earlier pipeline was taken off conns
    mislaid,   \* history: handles that nothing refers to any more, by a race
    gone       \* history: the newest frame lost to a drain, to a failed encoding, to
               \* an exception, or because nobody watched or an earlier generator left

readerVars == <<frames, handles, opened, capture, stop, cap, ref, latest>>
metaVars   == <<watching, conns, stale>>
imageVars  == <<served, snap, shown>>
viewVars   == <<con, preview, enc, jpegs, metaVars, imageVars, ended>>
vars == <<readerVars, viewVars, mislaid, gone>>

Frame  == 0 .. MaxFrames
Handle == 0 .. MaxHandles

ReaderTypeOK ==
    /\ frames \in Frame /\ opened \in Handle /\ capture \in Handle /\ stop \in BOOLEAN
    /\ handles \subseteq 1 .. MaxHandles /\ mislaid \subseteq 1 .. MaxHandles
    /\ cap \in [at : {"check", "read", "put", "open", "install", "over"},
                mine : Handle, new : Handle, frame : Frame]
    /\ ref \in [at : {"sleep", "drain", "open", "install", "over"}, old : Handle, new : Handle]
    /\ latest \in Seq(Frame) /\ Len(latest) <= 1

ViewTypeOK ==
    /\ served \in Frame /\ snap \in Frame /\ shown \in Frame
    /\ preview \in Frame /\ gone \in Frame
    /\ ended \in BOOLEAN /\ stale \in BOOLEAN
    /\ watching \subseteq Viewers /\ conns \in Nat
    /\ con \in [at : {"read", "work", "join", "done"}, frame : Frame]
    /\ enc \in [at : {"look", "encode", "over"}, frame : Frame, last : Frame]
    /\ jpegs \in Seq(Frame) /\ Len(jpegs) <= 1

TypeOK == ReaderTypeOK /\ ViewTypeOK

Init ==
    /\ frames = 0 /\ served = 0 /\ snap = 0 /\ shown = 0 /\ preview = 0
    /\ handles = {1} /\ opened = 1 /\ capture = 1
    /\ stop = FALSE /\ ended = FALSE /\ stale = FALSE
    /\ cap = [at |-> "check", mine |-> 0, new |-> 0, frame |-> 0]
    /\ ref = [at |-> "sleep", old |-> 0, new |-> 0]
    /\ con = [at |-> "read", frame |-> 0]
    /\ enc = [at |-> "look", frame |-> 0, last |-> 0]
    /\ latest = <<>> /\ jpegs = <<>>
    /\ watching = {} /\ conns = 0 /\ mislaid = {} /\ gone = 0

Lose(frame) == gone' = IF frame > gone THEN frame ELSE gone

-----------------------------------------------------------------------------
(* The reader's capture thread.                                            *)

(* The loop's condition; a handle that is missing or closed is reopened.   *)
CapCheck ==
    /\ cap.at = "check"
    /\ cap' = IF stop THEN [cap EXCEPT !.at = "over"]
              ELSE IF capture \in handles THEN [cap EXCEPT !.at = "read", !.mine = capture]
              ELSE [cap EXCEPT !.at = "open"]
    /\ UNCHANGED <<frames, handles, opened, capture, stop, ref, latest, viewVars, mislaid, gone>>

CapRead ==
    /\ cap.mine \in handles /\ frames < MaxFrames /\ frames' = frames + 1
    /\ cap.at = "read" /\ cap' = [cap EXCEPT !.at = "put", !.mine = 0, !.frame = frames + 1]
    /\ UNCHANGED <<handles, opened, capture, stop, ref, latest, viewVars, mislaid, gone>>

(* A loss is signalled if there is room, and the handle reopened.          *)
CapReadFails ==
    /\ cap.at = "read" /\ cap' = [cap EXCEPT !.at = "open", !.mine = 0]
    /\ latest' = IF latest = <<>> THEN <<0>> ELSE latest
    /\ UNCHANGED <<frames, handles, opened, capture, stop, ref, viewVars, mislaid, gone>>

(* Wrong: a stale frame stays, and the new one is dropped.                 *)
CapPutOrDrop ==
    /\ cap.at = "put" /\ cap' = [cap EXCEPT !.at = "check", !.frame = 0]
    /\ latest' = IF latest = <<>> THEN <<cap.frame>> ELSE latest
    /\ UNCHANGED <<frames, handles, opened, capture, stop, ref, viewVars, mislaid, gone>>

(* put_nowait; if the queue is full, the stale frame is taken out and the  *)
(* new one put.  This thread alone puts, so what others take meanwhile is  *)
(* the same as taken before.                                               *)
CapPut ==
    /\ cap.at = "put" /\ cap' = [cap EXCEPT !.at = "check", !.frame = 0]
    /\ latest' = <<cap.frame>>
    /\ UNCHANGED <<frames, handles, opened, capture, stop, ref, viewVars, mislaid, gone>>

(* _reopen_capture: the new handle is opened, or cannot be.                *)
CapOpen ==
    /\ \/ /\ opened < MaxHandles /\ opened' = opened + 1 /\ handles' = handles \cup {opened + 1}
          /\ cap.at = "open" /\ cap' = [cap EXCEPT !.at = "install", !.new = opened + 1]
       \/ /\ cap.at = "open" /\ cap' = [cap EXCEPT !.at = "check"]
          /\ UNCHANGED <<opened, handles>>
    /\ UNCHANGED <<frames, capture, stop, ref, latest, viewVars, mislaid, gone>>

(* Wrong: the handle it replaces is left to the collector.                 *)
CapInstallOver ==
    /\ cap.at = "install" /\ cap' = [cap EXCEPT !.at = "check", !.new = 0]
    /\ capture' = cap.new
    /\ mislaid' = IF con.at = "done" THEN mislaid \cup {cap.new} ELSE mislaid
    /\ UNCHANGED <<frames, handles, opened, stop, ref, latest, viewVars, gone>>

(* It takes the place of whatever handle is there by now.                  *)
CapInstall ==
    /\ cap.at = "install" /\ cap' = [cap EXCEPT !.at = "check", !.new = 0]
    /\ capture' = cap.new
    /\ handles' = handles \ {capture}
    /\ mislaid' = IF con.at = "done" THEN mislaid \cup {cap.new} ELSE mislaid
    /\ UNCHANGED <<frames, opened, stop, ref, latest, viewVars, gone>>

CaptureThread ==
    CapCheck \/ CapRead \/ CapReadFails \/ CapPut \/ CapOpen \/ CapInstall

-----------------------------------------------------------------------------
(* The refresh thread: every few hours the address is resolved again.      *)

RefSets(here, there) == ref.at = here /\ ref' = [ref EXCEPT !.at = there]

(* It may have changed.                                                    *)
RefWake ==
    /\ RefSets("sleep", IF stop THEN "over" ELSE "drain")
    /\ UNCHANGED <<frames, handles, opened, capture, stop, cap, latest, viewVars, mislaid, gone>>

(* _swap_capture empties the queue and notes the handle it will release,   *)
(* both before the slow opening of the new one.                            *)
RefDrain ==
    /\ ref.at = "drain"
    /\ IF latest # <<>> /\ capture # 0
       THEN latest' = <<>> /\ Lose(Head(latest)) /\ UNCHANGED ref
       ELSE ref' = [ref EXCEPT !.at = "open", !.old = capture] /\ UNCHANGED <<latest, gone>>
    /\ UNCHANGED <<frames, handles, opened, capture, stop, cap, viewVars, mislaid>>

RefOpen ==
    /\ \/ /\ opened < MaxHandles /\ opened' = opened + 1 /\ handles' = handles \cup {opened + 1}
          /\ ref.at = "open" /\ ref' = [ref EXCEPT !.at = "install", !.new = opened + 1]
       \/ /\ ref.at = "open" /\ ref' = [ref EXCEPT !.at = "sleep", !.old = 0]
          /\ UNCHANGED <<opened, handles>>
    /\ UNCHANGED <<frames, capture, stop, cap, latest, viewVars, mislaid, gone>>

(* The handle noted is released; one the capture thread has put in its     *)
(* place meanwhile is not, nor will this one be if release() is over.      *)
RefInstall ==
    /\ ref.at = "install" /\ ref' = [at |-> "sleep", old |-> 0, new |-> 0]
    /\ capture' = ref.new
    /\ handles' = handles \ {ref.old}
    /\ mislaid' = mislaid \cup ({capture} \ {0, ref.old})
                          \cup (IF con.at = "done" THEN {ref.new} ELSE {})
    /\ UNCHANGED <<frames, opened, stop, cap, latest, viewVars, gone>>

RefreshThread == RefWake \/ RefDrain \/ RefOpen \/ RefInstall

-----------------------------------------------------------------------------
(* The pipeline's thread.                                                  *)

(* read() returns a frame, a loss, or nothing for two seconds.  The frame  *)
(* is the camera's snapshot, unless that one is young enough.              *)
Read ==
    /\ con.at = "read" /\ ~ended /\ latest # <<>> /\ latest' = <<>>
    /\ IF Head(latest) = 0
       THEN UNCHANGED <<con, snap>>
       ELSE con' = [at |-> "work", frame |-> Head(latest)] /\ snap' \in {snap, Head(latest)}
    /\ UNCHANGED <<frames, handles, opened, capture, stop, cap, ref, preview, enc, jpegs,
                   metaVars, served, shown, ended, mislaid, gone>>

(* Inference and annotation are over, and somebody is counted as watching: *)
(* _publish_preview_frame.                                                 *)
Publish ==
    /\ conns > 0
    /\ con.at = "work" /\ con' = [at |-> "read", frame |-> 0] /\ preview' = con.frame
    /\ UNCHANGED <<readerVars, enc, jpegs, metaVars, imageVars, ended, mislaid, gone>>

(* Nobody is: the frame is not processed, or not published.                *)
Unwatched ==
    /\ conns = 0
    /\ con.at = "work" /\ con' = [at |-> "read", frame |-> 0]
    /\ IF watching = {} \/ stale THEN Lose(con.frame) ELSE UNCHANGED gone
    /\ UNCHANGED <<readerVars, preview, enc, jpegs, metaVars, imageVars, ended, mislaid>>

(* _cleanup_stream: neither the pipeline nor the snapshot is found any     *)
(* more, and the stop event is set.                                        *)
Stop ==
    /\ ~ended /\ ended' = TRUE /\ snap' = 0
    /\ UNCHANGED <<readerVars, con, preview, enc, jpegs, metaVars, served, shown, mislaid, gone>>

(* After a stop or too many losses in a row, or an exception in the midst  *)
(* of a frame, release() sets its own stop event ...                       *)
ReleaseBegins ==
    /\ con.at \in {"read", "work"} /\ con' = [at |-> "join", frame |-> 0] /\ stop' = TRUE
    /\ IF con.at = "work" THEN Lose(con.frame) ELSE UNCHANGED gone
    /\ UNCHANGED <<frames, handles, opened, capture, cap, ref, latest, preview, enc, jpegs,
                   metaVars, imageVars, ended, mislaid>>

(* ... and joins each thread for three seconds; the refresh thread sleeps  *)
(* for hours.  Then whatever handle is there is released.                  *)
ReleaseEnds ==
    /\ con.at = "join" /\ con' = [con EXCEPT !.at = "done"]
    /\ handles' = handles \ {capture} /\ capture' = 0
    /\ UNCHANGED <<frames, opened, stop, cap, ref, latest, preview, enc, jpegs, metaVars,
                   imageVars, ended, mislaid, gone>>

-----------------------------------------------------------------------------
(* The encoder and the viewers.                                            *)

(* Wrong: the sequence number is not compared.                             *)
EncodeLookBlindly ==
    /\ enc.at = "look"
    /\ \/ ended /\ enc' = [enc EXCEPT !.at = "over"]
       \/ /\ ~ended /\ preview # 0
          /\ enc' = [at |-> "encode", frame |-> preview, last |-> preview]
    /\ UNCHANGED <<readerVars, con, preview, jpegs, metaVars, imageVars, ended, mislaid, gone>>

(* The newest frame is taken, once.                                        *)
EncodeLook ==
    /\ enc.at = "look"
    /\ \/ ended /\ enc' = [enc EXCEPT !.at = "over"]
       \/ /\ ~ended /\ preview # enc.last
          /\ enc' = [at |-> "encode", frame |-> preview, last |-> preview]
    /\ UNCHANGED <<readerVars, con, preview, jpegs, metaVars, imageVars, ended, mislaid, gone>>

(* The JPEG replaces the one that no viewer has taken, or there is none.   *)
Encode ==
    /\ enc.at = "encode" /\ enc' = [enc EXCEPT !.at = "look", !.frame = 0]
    /\ \/ jpegs' = <<enc.frame>> /\ UNCHANGED gone
       \/ Lose(enc.frame) /\ UNCHANGED jpegs
    /\ UNCHANGED <<readerVars, con, preview, metaVars, imageVars, ended, mislaid>>

(* Any generator of the pipeline takes the JPEG, and it alone.             *)
Serve(v) ==
    /\ v \in watching /\ jpegs # <<>> /\ jpegs' = <<>>
    /\ served' = Head(jpegs) /\ shown' = Head(jpegs)
    /\ UNCHANGED <<readerVars, con, preview, enc, metaVars, snap, ended, mislaid, gone>>

(* One that has had none for a while shows the snapshot, or a placeholder, *)
(* once a second.                                                          *)
Stall(v) ==
    /\ v \in watching /\ jpegs = <<>> /\ shown' = snap
    /\ UNCHANGED <<readerVars, con, preview, enc, jpegs, metaVars, served, snap, ended, mislaid,
                   gone>>

(* The handler counts a viewer; its generator's finally takes it off, and  *)
(* never runs if the client goes before the generator began.               *)
Attach(v) ==
    /\ ~ended /\ v \notin watching /\ watching' = watching \cup {v} /\ conns' = conns + 1
    /\ UNCHANGED <<readerVars, con, preview, enc, jpegs, stale, imageVars, ended, mislaid, gone>>

Vanish ==
    /\ ~ended /\ conns < Cardinality(watching) + MaxLost /\ conns' = conns + 1
    /\ UNCHANGED <<readerVars, con, preview, enc, jpegs, watching, stale, imageVars, ended,
                   mislaid, gone>>

Uncount == conns' = IF ended \/ conns = 0 THEN conns ELSE conns - 1

Leave(v) ==
    /\ v \in watching /\ watching' = watching \ {v} /\ Uncount
    /\ UNCHANGED <<readerVars, con, preview, enc, jpegs, stale, imageVars, ended, mislaid, gone>>

(* A generator of the camera's previous pipeline looks the camera up, and  *)
(* takes itself off this one.                                              *)
StaleLeave ==
    /\ ~ended /\ ~stale /\ stale' = TRUE /\ Uncount
    /\ UNCHANGED <<readerVars, con, preview, enc, jpegs, watching, imageVars, ended, mislaid, gone>>

Encoder == EncodeLook \/ Encode

Next ==
    \/ CaptureThread \/ RefreshThread \/ Encoder
    \/ Read \/ Publish \/ Unwatched \/ Stop \/ ReleaseBegins \/ ReleaseEnds
    \/ \E v \in Viewers : Serve(v) \/ Stall(v) \/ Attach(v) \/ Leave(v)
    \/ Vanish \/ StaleLeave

Spec == Init /\ [][Next]_vars

(* Threads are scheduled, and a viewer takes what is there for it.         *)
FairSpec ==
    /\ Spec /\ WF_vars(CaptureThread) /\ WF_vars(Read) /\ WF_vars(Publish \/ Unwatched)
    /\ WF_vars(Encoder) /\ WF_vars(\E v \in Viewers : Serve(v))

-----------------------------------------------------------------------------
(* Viewers together are served the JPEGs in the camera's order and none    *)
(* twice, through two queues that replace, a drain, losses and reconnects; *)
(* and an older image follows a newer one only by a generator that stalls, *)
(* or as the next JPEG after its snapshot.                                 *)
ServedInOrder ==
    [][/\ \A v \in Viewers : Serve(v) => Head(jpegs) > served
       /\ shown' < shown => shown # served \/ \E v \in Viewers : Stall(v)]_vars

(* Not so: viewers never see an older image after a newer one.             *)
NeverGoesBack == [][shown' >= shown]_vars

(* Every frame read from the camera, or a newer one, is served to a viewer *)
(* -- unless a refresh drained it, its encoding failed, an exception, a    *)
(* stop or losses ended the pipeline's thread, the viewers have left, or a *)
(* generator of an earlier pipeline was taken off the viewers' count.      *)
NewestIsServed ==
    \A n \in 1 .. MaxFrames :
        (cap.at = "put" /\ cap.frame = n)
            ~> \/ served >= n \/ gone >= n
               \/ ended \/ con.at \in {"join", "done"} \/ watching = {}

(* Every open handle is the reader's, or in the hand of the thread that    *)
(* opened it: none is lost by reopening, swapping and releasing at the     *)
(* same time -- except one that was put in place during a swap or after    *)
(* the end of release(), whose three seconds no swap needs to keep.        *)
HandlesAreHeld ==
    handles \subseteq {capture, cap.new, ref.new} \cup mislaid

(* Every open handle is held, and a thread holds one of its own only from   *)
(* opening it to putting it in place: the argument of the proof.            *)
HandlesInv ==
    /\ HandlesAreHeld
    /\ cap.new = 0 <=> cap.at # "install"
    /\ ref.new = 0 <=> ref.at # "install"

(* The newest frame that the pipeline's thread has taken from the reader.   *)
Taken == IF con.at = "work" THEN con.frame ELSE preview

(* From the camera to the viewers, each place holds a newer frame than the  *)
(* next one has passed on: the argument of the proof of ServedInOrder.      *)
InOrder ==
    /\ cap.at = "put" => cap.frame = frames /\ Taken < frames
    /\ cap.at = "put" /\ latest # <<>> => Head(latest) < frames
    /\ latest # <<>> /\ Head(latest) # 0 => Taken < Head(latest) /\ Head(latest) <= frames
    /\ Taken <= frames /\ preview <= Taken
    /\ con.at = "work" => preview < con.frame
    /\ enc.last <= preview /\ served <= enc.last
    /\ jpegs # <<>> => served < Head(jpegs) /\ Head(jpegs) <= enc.last
    /\ enc.at = "encode" => enc.frame = enc.last /\ served < enc.frame
    /\ enc.at = "encode" /\ jpegs # <<>> => Head(jpegs) < enc.frame

(* Who watches is counted, unless an earlier generator was taken off.       *)
WatchersAreCounted == stale \/ Cardinality(watching) <= conns

(* The newest frame read from the camera is always on its way to a viewer   *)
(* -- where a stopped pipeline leaves it -- or was served or is in gone: no *)
(* queue that replaces lets it go for an older one, the encoder does not    *)
(* pass it over, and it is not dropped for want of viewers when there are.  *)
NewestIsOnItsWay ==
    \/ gone >= frames
    \/ cap.at = "put"
    \/ latest # <<>> /\ Head(latest) = frames
    \/ con.at = "work" /\ con.frame = frames
    \/ /\ preview = frames
       /\ \/ enc.last # frames
          \/ enc.at = "encode"
          \/ jpegs # <<>> /\ Head(jpegs) = frames
          \/ served = frames
=============================================================================
