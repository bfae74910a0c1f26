---------------------------- MODULE CameraConfig ----------------------------
(***************************************************************************)
(* The files that describe a camera, who writes them and who runs from     *)
(* them: the camera, lane and zone routes and the presets of the camera    *)
(* list (routes_cameras.py, routes_lanes.py, routes_zones.py), the model   *)
(* reload and the hot reload of a running pipeline (routes_live.py).  One  *)
(* camera is followed, a preset one.  Handlers run on the event loop to    *)
(* their end; the metrics thread, which lists the cameras, the supervisor  *)
(* and a toggle run beside it.  Lane and zone files are handled alike, and *)
(* `lanes' stands for either.                                              *)
(***************************************************************************)
EXTENDS Naturals

CONSTANTS Loop,      \* the event loop
          Metrics,   \* the thread of system_metrics.py
          Starters,  \* the threads of the supervisor and of a toggle
          MaxSaves   \* bound on the saves of lanes

Threads == {Loop, Metrics} \cup Starters

ASSUME ConfigAssumption ==
    /\ Loop # Metrics /\ {Loop, Metrics} \cap Starters = {} /\ MaxSaves \in Nat

VARIABLES
    camera,  \* what the camera's file holds
    lanes,   \* the lane file: 0 none, 1 an empty list, from 2 on the saved ones
    saves,   \* saves of lanes so far
    blocked, \* the file of a preset listed before this one is no YAML
    pc,      \* where each thread is
    mem,     \* the camera file as a thread read it, or as it will write it
    got,     \* the lanes a thread that starts a pipeline has read
    handle,  \* the camera file as a thread holds it open
    stream   \* the camera's pipeline in _streams

fileVars   == <<camera, lanes, saves, blocked>>
threadVars == <<pc, mem, got, handle>>
vars == <<fileVars, threadVars, stream>>

(* "asked" differs from the preset in the model an operator asked for, a   *)
(* "stub" holds nothing but the model, "cut" is being written, "broken" is *)
(* no YAML any more.                                                       *)
Content == {"none", "cut", "preset", "asked", "stub", "broken"}
Lanes   == 0 .. MaxSaves + 1
Sound   == {"preset", "asked", "stub"}
Off     == [on |-> FALSE, lanes |-> 0, from |-> "none", ask |-> FALSE, at |-> "run",
            seen |-> 0, why |-> {}, crossed |-> FALSE]

TypeOK ==
    /\ camera \in Content /\ lanes \in Lanes /\ saves \in 0 .. MaxSaves /\ blocked \in BOOLEAN
    /\ pc \in [Threads -> {"idle", "request", "raw", "reopen", "write", "open", "close",
                           "support", "fill", "cleanup", "unlink", "load", "lanes", "install"}]
    /\ mem \in [Threads -> Content] /\ got \in [Threads -> Lanes]
    /\ handle \in [Threads -> {"shut", "held", "torn", "adrift"}]
    /\ stream \in [on : BOOLEAN, lanes : Lanes, from : Content, ask : BOOLEAN,
                   at : {"run", "load", "lanes", "swap", "over"}, seen : Lanes,
                   why : SUBSET {"late", "failed", "filled"}, crossed : BOOLEAN]

Init ==
    /\ camera = "preset" /\ lanes = 1 /\ saves = 0 /\ blocked = FALSE
    /\ pc = [t \in Threads |-> "idle"] /\ mem = [t \in Threads |-> "none"]
    /\ got = [t \in Threads |-> 0] /\ handle = [t \in Threads |-> "shut"]
    /\ stream = Off

At(t, here)       == pc[t] = here
Goto(t, there)    == pc' = [pc EXCEPT ![t] = there]
Step(t, here, there) == At(t, here) /\ Goto(t, there)

-----------------------------------------------------------------------------
(* Writing the camera file: _write_yaml, and the reload's own open("w").   *)

Open(t, here, there) ==
    /\ Step(t, here, there) /\ camera' = "cut"
    /\ handle' = [handle EXCEPT ![t] = "held"]
    /\ UNCHANGED <<lanes, saves, blocked, mem, got, stream>>

(* The text is written when the file is closed.  Over what another has     *)
(* written since it was opened, the longer text keeps its tail; in a file  *)
(* unlinked since, nobody sees it.                                         *)
Close(t, here, there) ==
    /\ Step(t, here, there)
    /\ camera' \in CASE handle[t] = "held"   -> {mem[t]}
                     [] handle[t] = "torn"   -> {mem[t], "broken"}
                     [] handle[t] = "adrift" -> {camera}
    /\ handle' = [u \in Threads |->
                     IF u = t THEN "shut"
                     ELSE IF handle[u] = "held" /\ handle[t] # "adrift" THEN "torn"
                     ELSE handle[u]]
    /\ mem' = [mem EXCEPT ![t] = "none"]
    /\ UNCHANGED <<lanes, saves, blocked, got, stream>>

-----------------------------------------------------------------------------
(* get_camera_list, by the event loop or by the metrics thread.            *)

Mismatched == camera \in {"none", "cut", "stub"}

(* Wrong: a preset whose file is missing is left out.                      *)
ListIgnoring(t) ==
    /\ At(t, "idle") /\ ~blocked /\ camera # "broken"
    /\ Goto(t, IF camera \in {"cut", "stub"} THEN "open" ELSE "support")
    /\ mem' = [mem EXCEPT ![t] = IF camera \in {"cut", "stub"} THEN "preset" ELSE "none"]
    /\ UNCHANGED <<fileVars, got, handle, stream>>

(* _ensure_youtube_presets: a preset that is missing or does not say what  *)
(* it should is written anew; one that is no YAML makes the listing raise, *)
(* whether it is this one or one before it in the tuple.                   *)
List(t) ==
    /\ At(t, "idle") /\ ~blocked /\ camera # "broken"
    /\ Goto(t, IF Mismatched THEN "open" ELSE "support")
    /\ mem' = [mem EXCEPT ![t] = IF Mismatched THEN "preset" ELSE "none"]
    /\ UNCHANGED <<fileVars, got, handle, stream>>

(* _ensure_camera_support_files: if the lane file is missing ...           *)
Support(t) ==
    /\ Step(t, "support", IF lanes = 0 THEN "fill" ELSE "idle")
    /\ UNCHANGED <<fileVars, mem, got, handle, stream>>

(* ... an empty one is put in its place, or over one saved meanwhile.      *)
Fill(t) ==
    /\ Step(t, "fill", "idle") /\ lanes' = 1
    /\ stream' = IF stream.on THEN [stream EXCEPT !.why = @ \cup {"filled"}] ELSE stream
    /\ UNCHANGED <<camera, saves, blocked, mem, got, handle>>

Lists(t) ==
    \/ List(t) \/ Open(t, "open", "close") \/ Close(t, "close", "support")
    \/ Support(t) \/ Fill(t)

-----------------------------------------------------------------------------
(* The handlers of the event loop.                                         *)

(* create_camera: refused if the file exists; then its file is written and *)
(* its support files as by a listing.                                      *)
Create ==
    /\ Step(Loop, "idle", "open") /\ camera = "none"
    /\ mem' = [mem EXCEPT ![Loop] = "asked"]
    /\ UNCHANGED <<fileVars, got, handle, stream>>

(* update_lanes, update_zones: a temporary file takes the place of the     *)
(* old one; if it cannot, the error is suppressed.                         *)
Save ==
    /\ Step(Loop, "idle", "request") /\ saves < MaxSaves /\ saves' = saves + 1
    /\ lanes' \in {lanes, saves + 2}
    /\ UNCHANGED <<camera, blocked, mem, got, handle, stream>>

(* Then a running pipeline is asked for a hot reload.                      *)
Request ==
    /\ Step(Loop, "request", "idle")
    /\ stream' = IF stream.on THEN [stream EXCEPT !.ask = TRUE] ELSE stream
    /\ UNCHANGED <<fileVars, mem, got, handle>>

(* _cleanup_stream takes the pipeline out and joins its threads.           *)
Cleanup(t, here, there) ==
    /\ Step(t, here, there) /\ stream' = Off
    /\ UNCHANGED <<fileVars, mem, got, handle>>

(* reload_live_pipeline: without a model, or for a camera that is not      *)
(* there, the pipeline is only stopped.  A file that cannot be read ends   *)
(* the request with an error.                                              *)
Reload ==
    /\ Step(Loop, "idle", IF camera = "none" THEN "cleanup" ELSE "raw")
    /\ camera \in Sound \cup {"none"}
    /\ UNCHANGED <<fileVars, mem, got, handle, stream>>

ReloadPlain == Cleanup(Loop, "idle", "idle")

(* The file is read again, for the model to be written into it.            *)
ReloadRaw ==
    /\ At(Loop, "raw")
    /\ IF camera \in {"none", "broken"}
       THEN Goto(Loop, "idle") /\ UNCHANGED mem
       ELSE /\ Goto(Loop, "reopen")
            /\ mem' = [mem EXCEPT ![Loop] = IF camera \in {"cut", "stub"} THEN "stub" ELSE "asked"]
    /\ UNCHANGED <<fileVars, got, handle, stream>>

ReloadWrites == Open(Loop, "reopen", "write") \/ Close(Loop, "write", "cleanup")

ReloadEnds == Cleanup(Loop, "cleanup", "idle")

(* Wrong: the pipeline is left to run out by itself.                       *)
DeleteRunning ==
    /\ camera # "none" /\ Step(Loop, "idle", "unlink")
    /\ UNCHANGED <<fileVars, mem, got, handle, stream>>

(* delete_camera: the pipeline is stopped first, its threads joined, ...   *)
Delete == camera # "none" /\ Cleanup(Loop, "idle", "unlink")

(* ... and then the files are removed.                                     *)
Unlink ==
    /\ Step(Loop, "unlink", "idle") /\ camera' = "none" /\ lanes' = 0
    /\ handle' = [u \in Threads |-> IF handle[u] = "shut" THEN "shut" ELSE "adrift"]
    /\ UNCHANGED <<saves, blocked, mem, got, stream>>

Handlers ==
    \/ Create \/ Save \/ Request \/ Reload \/ ReloadPlain \/ ReloadRaw \/ ReloadWrites
    \/ ReloadEnds \/ Delete \/ Unlink \/ Lists(Loop)

-----------------------------------------------------------------------------
(* ensure_live_pipeline, by a viewer's request on the event loop, by the   *)
(* supervisor or by a toggle: a pipeline that runs is left alone.          *)
Ensure(t) ==
    /\ Step(t, "idle", "load") /\ ~stream.on
    /\ UNCHANGED <<fileVars, mem, got, handle, stream>>

Load(t) ==
    /\ Step(t, "load", IF camera \in Sound THEN "lanes" ELSE "idle")
    /\ mem' = [mem EXCEPT ![t] = IF camera \in Sound THEN camera ELSE "none"]
    /\ UNCHANGED <<fileVars, got, handle, stream>>

(* A stub names no lane file: it has no lanes.                             *)
Named(from) == IF from = "stub" THEN 1 ELSE lanes

LoadLanes(t) ==
    /\ At(t, "lanes")
    /\ IF Named(mem[t]) = 0
       THEN Goto(t, "idle") /\ mem' = [mem EXCEPT ![t] = "none"] /\ UNCHANGED got
       ELSE Goto(t, "install") /\ got' = [got EXCEPT ![t] = Named(mem[t])] /\ UNCHANGED mem
    /\ UNCHANGED <<fileVars, handle, stream>>

(* The detector is loaded, or cannot be; another starter may have won.     *)
Install(t) ==
    /\ Step(t, "install", "idle")
    /\ \/ UNCHANGED stream
       \/ /\ ~stream.on
          /\ stream' = [Off EXCEPT !.on = TRUE, !.lanes = got[t], !.from = mem[t],
                          !.why = IF got[t] # lanes THEN {"late"} ELSE {},
                          !.crossed = camera = "none" \/ At(Loop, "unlink")]
    /\ mem' = [mem EXCEPT ![t] = "none"] /\ got' = [got EXCEPT ![t] = 0]
    /\ UNCHANGED <<fileVars, handle>>

Starts(t) == Ensure(t) \/ Load(t) \/ LoadLanes(t) \/ Install(t)

-----------------------------------------------------------------------------
(* The hot reload, by the capture thread of the pipeline.                  *)

HotFails == [stream EXCEPT !.at = "run", !.seen = 0, !.why = @ \cup {"failed"}]

(* The request is taken before the files are read.                         *)
HotPop ==
    /\ stream.on /\ stream.at = "run" /\ stream.ask
    /\ stream' = [stream EXCEPT !.at = "load", !.ask = FALSE]
    /\ UNCHANGED <<fileVars, threadVars>>

HotLoad ==
    /\ stream.on /\ stream.at = "load"
    /\ stream' = IF camera \in Sound THEN [stream EXCEPT !.at = "lanes", !.from = camera]
                 ELSE HotFails
    /\ UNCHANGED <<fileVars, threadVars>>

HotLanes ==
    /\ stream.on /\ stream.at = "lanes"
    /\ stream' = IF Named(stream.from) = 0 THEN HotFails
                 ELSE [stream EXCEPT !.at = "swap", !.seen = Named(stream.from), !.why = {}]
    /\ UNCHANGED <<fileVars, threadVars>>

(* Wrong: the request is taken when it has been served.                    *)
HotSwapClearing ==
    /\ stream.on /\ stream.at = "swap"
    /\ stream' = [stream EXCEPT !.at = "run", !.lanes = stream.seen, !.seen = 0, !.ask = FALSE]
    /\ UNCHANGED <<fileVars, threadVars>>

(* The new core is loaded and takes the place of the old, or cannot be.    *)
HotSwap ==
    /\ stream.on /\ stream.at = "swap"
    /\ stream' \in {[stream EXCEPT !.at = "run", !.lanes = stream.seen, !.seen = 0], HotFails}
    /\ UNCHANGED <<fileVars, threadVars>>

(* The capture thread gives up or dies: it ends, its pipeline stays        *)
(* registered and reloads no more.                                         *)
GiveUp ==
    /\ stream.on /\ stream.at = "run" /\ stream' = [stream EXCEPT !.at = "over"]
    /\ UNCHANGED <<fileVars, threadVars>>

Capture == HotPop \/ HotLoad \/ HotLanes \/ HotSwap \/ GiveUp

(* What happens to the files of the presets before this one.               *)
Block ==
    /\ blocked' = ~blocked
    /\ UNCHANGED <<camera, lanes, saves, threadVars, stream>>

Next ==
    \/ Block \/ Handlers \/ Lists(Metrics) \/ Capture
    \/ \E t \in Starters \cup {Loop} : Starts(t)

Spec == Init /\ [][Next]_vars

(* The metrics thread lists the cameras every five seconds.                *)
FairSpec == Spec /\ WF_vars(Lists(Metrics))

-----------------------------------------------------------------------------
(* Lanes that are saved are lanes that are served, however a save crosses  *)
(* the hot reload of an earlier one: a pipeline without a reload to do     *)
(* runs on the file, unless it was just starting when the save asked for   *)
(* it, its reload failed, or the lanes were emptied behind it.  (A capture *)
(* thread that is over runs on nothing.)                                   *)
SavedIsServed ==
    stream.on /\ stream.at = "run" /\ ~stream.ask /\ ~At(Loop, "request")
    /\ stream.from # "stub" /\ lanes # 0
        => stream.lanes = lanes \/ stream.why # {}

(* A deleted camera has no pipeline, unless one was being started while    *)
(* the delete waited for the old one's threads, or had read the file.      *)
DeletedIsStopped ==
    At(Loop, "idle") /\ camera = "none" /\ stream.on => stream.crossed

(* A thread about to write the camera's file has what to write, and has it  *)
(* open when it closes it; so only a delete leaves the camera without one.  *)
WritersInv ==
    \A t \in Threads :
        /\ pc[t] \in {"open", "close", "reopen", "write"} => mem[t] # "none"
        /\ pc[t] \in {"close", "write"} => handle[t] # "shut"

(* From the stop of its pipeline on, and not only once its files are gone,  *)
(* a deleted camera has none: the argument of the proof.                    *)
StoppedInv ==
    (At(Loop, "unlink") \/ camera = "none") /\ stream.on => stream.crossed

(* The same for the lanes a hot reload has read and not yet put to use.     *)
ServedInv ==
    stream.on /\ ~stream.ask /\ ~At(Loop, "request")
    /\ stream.from # "stub" /\ lanes # 0 /\ stream.why = {}
        => /\ stream.at = "run" => stream.lanes = lanes
           /\ stream.at = "swap" => stream.seen = lanes

(* A preset camera that is deleted or damaged is back with the next        *)
(* listing, as long as its file is YAML and so are, in the end, those of   *)
(* the presets before it: nobody can delete it for good, but by deleting   *)
(* it again while it is written.                                           *)
PresetsReturn ==
    <>[]~blocked =>
        (Mismatched ~> camera \in {"preset", "asked", "broken"} \/ At(Loop, "unlink"))
=============================================================================
