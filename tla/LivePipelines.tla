--------------------------- MODULE LivePipelines ---------------------------
(***************************************************************************)
(* packages/tf_api/api/routes_live.py: the registry of live detection      *)
(* pipelines (_streams) and the threads that fill and empty it.            *)
(*                                                                         *)
(*   Loop      the event loop: MJPEG requests (sweep, ensure, attach) and  *)
(*             reloads run on it without awaiting, one after another;      *)
(*   Sup       the supervisor thread, one pass over the cameras at a time; *)
(*   Operators thread-pool calls of the always-on toggles;                 *)
(*   viewers   MJPEG requests: counted in the handler, uncounted by the    *)
(*             finally clause of a generator, if it was ever begun.        *)
(*                                                                         *)
(* A step of an agent is one section under _lock or _always_on_control_lock*)
(* with the unlocked calls next to it that touch nothing shared.  A        *)
(* generation is one pipeline: its metadata, its capture thread and its    *)
(* stop event.                                                             *)
(***************************************************************************)
EXTENDS Integers, FiniteSets

CONSTANTS
    Cameras,        \* the configured cameras
    Gens,           \* names of pipelines; a name is reused once nothing holds it
    Viewers,
    Operators,
    Loop, Sup,      \* the two agents that always exist
    None,
    MaxStreams,     \* get_max_streams()
    MaxLost,        \* bound: clients of one pipeline that go before their generator begins
    EnvAuto         \* AUTO_START_LIVE_STREAMS

Agents == {Loop, Sup} \cup Operators

ASSUME ActorsAssumption ==
    /\ Loop # Sup /\ {Loop, Sup} \cap Operators = {}
    /\ None \notin Gens \cup Cameras
    /\ MaxStreams \in Nat \ {0} /\ MaxLost \in Nat
    /\ EnvAuto \in BOOLEAN

ASSUME FiniteAssumption ==
    IsFiniteSet(Cameras) /\ IsFiniteSet(Viewers) /\ IsFiniteSet(Operators)

VARIABLES
    fleetOn,        \* _always_on_runtime_enabled
    disabled,       \* _always_on_disabled_cameras
    reg,            \* _streams: the generation registered for each camera
    life,           \* of each generation: its threads and its stop event
    alwaysOn,       \* meta["always_on"]
    conns,          \* meta["connections"]
    idle,           \* meta["last_access"] is older than _STREAM_IDLE_TTL_SEC
    lost,           \* history: counted on it by clients whose generator never began
    watch,          \* the camera and generation each viewer's generator serves
    pc,             \* where each agent is
    job,            \* its ensure_live_pipeline call: camera, always_on, new pipeline
    todo,           \* the cameras its loop has still to visit
    round           \* which pass over the cameras the supervisor is in

controlVars == <<fleetOn, disabled>>
metaVars    == <<alwaysOn, conns, idle, lost>>
vars == <<controlVars, reg, life, metaVars, watch, pc, job, todo, round>>

Registered == {reg[c] : c \in Cameras} \ {None}

NotWatching == [cam |-> None, gen |-> None]
NoJob == [cam |-> None, ao |-> FALSE, gen |-> None]

(* One type invariant.                                                      *)
Shapes ==
    /\ fleetOn \in BOOLEAN /\ disabled \in SUBSET Cameras
    /\ reg \in [Cameras -> Gens \cup {None}]
    /\ life \in [Gens -> {"up", "dead", "stopped"}]
    /\ alwaysOn \in [Gens -> BOOLEAN]
    /\ conns \in [Gens -> Nat]
    /\ idle \in [Gens -> BOOLEAN]
    /\ lost \in [Gens -> Nat]
    /\ watch \in [Viewers -> [cam : Cameras \cup {None}, gen : Gens \cup {None}]]
    /\ pc \in [Agents -> {"idle", "sweep", "ensure", "register", "attach",
                          "check", "snapshot", "clear", "pop", "startall"}]
    /\ job \in [Agents -> [cam : Cameras \cup {None}, ao : BOOLEAN,
                           gen : Gens \cup {None}]]
    /\ todo \in [Agents -> SUBSET Cameras]
    /\ round \in {"none", "first", "later"}

TypeOK == Shapes /\ \A g \in Gens : conns[g] <= Cardinality(Viewers) + lost[g]

Init ==
    /\ fleetOn = EnvAuto /\ disabled = {}
    /\ reg = [c \in Cameras |-> None]
    /\ life = [g \in Gens |-> "stopped"]
    /\ alwaysOn = [g \in Gens |-> FALSE]
    /\ conns = [g \in Gens |-> 0]
    /\ idle = [g \in Gens |-> FALSE]
    /\ lost = [g \in Gens |-> 0]
    /\ watch = [v \in Viewers |-> NotWatching]
    /\ pc = [a \in Agents |-> "idle"]
    /\ job = [a \in Agents |-> NoJob]
    /\ todo = [a \in Agents |-> {}]
    /\ round = "none"

----------------------------------------------------------------------------
(* is_camera_always_on_allowed                                             *)
Allowed(c) == fleetOn /\ c \notin disabled

Goto(a, where) == pc' = [pc EXCEPT ![a] = where]

(* A toggle goes on with the rest of its cameras, or ends.                  *)
GoOn(o, where, rest) == Goto(o, IF rest = {} THEN "idle" ELSE where)

(* Calls ensure_live_pipeline(c, always_on = ao).                           *)
CallEnsure(a, c, ao) ==
    /\ Goto(a, "ensure")
    /\ job' = [job EXCEPT ![a] = [cam |-> c, ao |-> ao, gen |-> None]]

(* Back from it: a request goes on to attach, a toggle to its next camera.  *)
Return(a, ok) ==
    /\ Goto(a, CASE a = Loop -> IF ok THEN "attach" ELSE "idle"
                 [] a = Sup  -> "idle"
                 [] OTHER    -> IF todo[a] = {} THEN "idle" ELSE "startall")
    /\ job' = [job EXCEPT ![a] = IF a = Loop /\ ok THEN [NoJob EXCEPT !.cam = job[a].cam] ELSE NoJob]

(* A name nothing refers to any more.                                       *)
Unused(g) ==
    /\ life[g] = "stopped"
    /\ \A v \in Viewers : watch[v].gen # g

(* The stop event of a pipeline is set and its threads end; its metadata is *)
(* not read again.                                                          *)
StopPipeline(g) ==
    /\ life' = [life EXCEPT ![g] = "stopped"]
    /\ alwaysOn' = [alwaysOn EXCEPT ![g] = FALSE]
    /\ conns' = [conns EXCEPT ![g] = 0]
    /\ idle' = [idle EXCEPT ![g] = FALSE]
    /\ lost' = [lost EXCEPT ![g] = 0]

CleanupKeepsEntry(c) ==
    IF reg[c] = None
    THEN UNCHANGED <<reg, life, metaVars>>
    ELSE StopPipeline(reg[c]) /\ UNCHANGED reg
(* _cleanup_stream: whatever is registered for the camera is popped and     *)
(* stopped.                                                                 *)
Cleanup(c) ==
    IF reg[c] = None
    THEN UNCHANGED <<reg, life, metaVars>>
    ELSE StopPipeline(reg[c]) /\ reg' = [reg EXCEPT ![c] = None]

----------------------------------------------------------------------------
(* ensure_live_pipeline                                                    *)

(* Under the lock: reuse, refuse at the cap, or start.                      *)
EnsureReuse(a) ==
    LET g == reg[job[a].cam]
    IN  /\ pc[a] = "ensure" /\ g # None
        /\ alwaysOn' = [alwaysOn EXCEPT ![g] = @ \/ job[a].ao]
        /\ idle' = [idle EXCEPT ![g] = FALSE]
        /\ Return(a, TRUE)
        /\ UNCHANGED <<controlVars, reg, life, conns, lost, watch, todo, round>>

EnsureRefuse(a) ==
    /\ pc[a] = "ensure" /\ reg[job[a].cam] = None
    /\ Cardinality(Registered) >= MaxStreams
    /\ Return(a, FALSE)
    /\ UNCHANGED <<controlVars, reg, life, metaVars, watch, todo, round>>

(* _start_pipeline, without the lock: a storage worker and two threads run. *)
(* It touches nothing another agent can see, so it is one step with the     *)
(* decision to start.                                                       *)
StartPipeline(a) ==
    /\ \E g \in Gens : Unused(g)
    /\ LET g == CHOOSE g \in Gens : Unused(g) IN
        /\ life' = [life EXCEPT ![g] = "up"]
        /\ alwaysOn' = [alwaysOn EXCEPT ![g] = job[a].ao]
        /\ conns' = [conns EXCEPT ![g] = 0]
        /\ idle' = [idle EXCEPT ![g] = FALSE]
        /\ lost' = [lost EXCEPT ![g] = 0]
        /\ job' = [job EXCEPT ![a].gen = g]
    /\ Goto(a, "register")
    /\ UNCHANGED <<controlVars, reg, watch, todo, round>>

EnsureStartsUncapped(a) ==
    /\ pc[a] = "ensure" /\ reg[job[a].cam] = None
    /\ StartPipeline(a)
EnsureStarts(a) ==
    /\ pc[a] = "ensure" /\ reg[job[a].cam] = None
    /\ Cardinality(Registered) < MaxStreams
    /\ StartPipeline(a)

(* No configuration, or the start raises.                                   *)
EnsureFails(a) ==
    /\ pc[a] = "ensure" /\ reg[job[a].cam] = None
    /\ Cardinality(Registered) < MaxStreams
    /\ Return(a, FALSE)
    /\ UNCHANGED <<controlVars, reg, life, metaVars, watch, todo, round>>

RegisterOverwrites(a) ==
    LET c == job[a].cam  g == job[a].gen
    IN  /\ pc[a] = "register"
        /\ reg' = [reg EXCEPT ![c] = g]
        /\ Return(a, TRUE)
        /\ UNCHANGED <<controlVars, life, metaVars, watch, todo, round>>
(* Under the lock again: the first one wins, the other stops its pipeline   *)
(* and leaves the winner as it is.                                          *)
Register(a) ==
    LET c == job[a].cam  g == job[a].gen
    IN  /\ pc[a] = "register"
        /\ IF reg[c] = None
           THEN reg' = [reg EXCEPT ![c] = g] /\ UNCHANGED <<life, metaVars>>
           ELSE StopPipeline(g) /\ UNCHANGED reg
        /\ Return(a, TRUE)
        /\ UNCHANGED <<controlVars, watch, todo, round>>

Ensure(a) ==
    \/ EnsureReuse(a) \/ EnsureRefuse(a)
    \/ EnsureStarts(a) \/ EnsureFails(a) \/ Register(a)

----------------------------------------------------------------------------
(* The event loop: GET stream.mjpg and POST reload.                        *)

Sweepable(c) ==
    LET g == reg[c]
    IN  g # None /\ ~alwaysOn[g] /\ conns[g] = 0 /\ idle[g]

(* A request begins with _cleanup_stale_streams, which lists the idle       *)
(* viewer-only streams, or does nothing within _STREAM_CLEANUP_INTERVAL.    *)
OpenStream(c) ==
    /\ pc[Loop] = "idle"
    /\ \E v \in Viewers : watch[v] = NotWatching
    /\ \E dead \in {{}, {d \in Cameras : Sweepable(d)}} :
         /\ todo' = [todo EXCEPT ![Loop] = dead]
         /\ Goto(Loop, IF dead = {} THEN "ensure" ELSE "sweep")
    /\ job' = [job EXCEPT ![Loop] = [cam |-> c, ao |-> EnvAuto, gen |-> None]]
    /\ UNCHANGED <<controlVars, reg, life, metaVars, watch, round>>

(* ... and then pops them by camera, after the lock was given up.           *)
SweepOne(c) ==
    /\ pc[Loop] = "sweep" /\ c \in todo[Loop]
    /\ Cleanup(c)
    /\ todo' = [todo EXCEPT ![Loop] = @ \ {c}]
    /\ Goto(Loop, IF todo[Loop] = {c} THEN "ensure" ELSE "sweep")
    /\ UNCHANGED <<controlVars, watch, job, round>>

(* The new viewer is counted on what is registered now, if anything is.     *)
Attach ==
    LET c == job[Loop].cam  g == reg[job[Loop].cam]
    IN  /\ pc[Loop] = "attach"
        /\ IF g = None
           THEN UNCHANGED <<conns, idle, watch>>
           ELSE \E v \in Viewers :
                  /\ watch[v] = NotWatching
                  /\ watch' = [watch EXCEPT ![v] = [cam |-> c, gen |-> g]]
                  /\ idle' = [idle EXCEPT ![g] = FALSE]
                  /\ conns' = [conns EXCEPT ![g] = @ + 1]
        /\ Goto(Loop, "idle")
        /\ job' = [job EXCEPT ![Loop] = NoJob]
        /\ UNCHANGED <<controlVars, reg, life, alwaysOn, lost, todo, round>>

(* reload_live_pipeline removes the stream; nothing restarts it here.       *)
Reload(c) ==
    /\ pc[Loop] = "idle" /\ reg[c] # None
    /\ Cleanup(c)
    /\ UNCHANGED <<controlVars, watch, pc, job, todo, round>>

----------------------------------------------------------------------------
(* The client of a counted request goes before the response begins its      *)
(* generator: one that never began has no finally clause to run, and what   *)
(* the handler counted stays counted for as long as the pipeline.  Whether  *)
(* a generator has begun shows in nothing but how it ends.                  *)
Vanish(v) ==
    LET g == watch[v].gen
    IN  /\ watch[v] # NotWatching
        /\ watch' = [watch EXCEPT ![v] = NotWatching]
        /\ IF life[g] = "stopped"
           THEN UNCHANGED lost
           ELSE lost[g] < MaxLost /\ lost' = [lost EXCEPT ![g] = @ + 1]
        /\ UNCHANGED <<controlVars, reg, life, alwaysOn, conns, idle, pc, job, todo, round>>

(* A generator that began ends: its client has gone or its stop event is    *)
(* set.  The finally clause looks the stream up by camera again.            *)
LeaveUncounted(v) ==
    /\ watch[v] # NotWatching
    /\ watch' = [watch EXCEPT ![v] = NotWatching]
    /\ UNCHANGED <<controlVars, reg, life, metaVars, pc, job, todo, round>>
Leave(v) ==
    LET g == reg[watch[v].cam]
    IN  /\ watch[v] # NotWatching
        /\ IF g = None
           THEN UNCHANGED <<conns, idle>>
           ELSE /\ conns' = [conns EXCEPT ![g] = IF @ > 0 THEN @ - 1 ELSE 0]
                /\ idle' = [idle EXCEPT ![g] = FALSE]
        /\ watch' = [watch EXCEPT ![v] = NotWatching]
        /\ UNCHANGED <<controlVars, reg, life, alwaysOn, lost, pc, job, todo, round>>

(* _STREAM_IDLE_TTL_SEC pass without an access: recorded where the sweep,   *)
(* the one reader of last_access, would look at it.                         *)
GoIdle(g) ==
    /\ g \in Registered /\ ~idle[g]
    /\ ~alwaysOn[g] /\ conns[g] = 0
    /\ idle' = [idle EXCEPT ![g] = TRUE]
    /\ UNCHANGED <<controlVars, reg, life, alwaysOn, conns, lost, watch, pc, job, todo, round>>

(* The capture loop breaks after _MAX_RECONNECT_ATTEMPTS failed openings,   *)
(* or an exception it does not catch ends the thread.  The stream stays.    *)
CaptureDies(g) ==
    /\ life[g] = "up"
    /\ life' = [life EXCEPT ![g] = "dead"]
    /\ UNCHANGED <<controlVars, reg, metaVars, watch, pc, job, todo, round>>

----------------------------------------------------------------------------
(* The supervisor.                                                         *)

(* A pass over the configured cameras: the first when the thread starts,    *)
(* another after every interval.                                            *)
NewRound ==
    /\ pc[Sup] = "idle" /\ todo[Sup] = {} /\ fleetOn
    /\ todo' = [todo EXCEPT ![Sup] = Cameras]
    /\ round' = IF round = "none" THEN "first" ELSE "later"
    /\ UNCHANGED <<controlVars, reg, life, metaVars, watch, pc, job>>

(* The permission is read under the control lock; the first pass, which is  *)
(* start_all_live_pipelines, then ensures the pipeline ...                  *)
Visit(c) ==
    /\ pc[Sup] = "idle" /\ c \in todo[Sup]
    /\ todo' = [todo EXCEPT ![Sup] = @ \ {c}]
    /\ CASE ~Allowed(c)      -> UNCHANGED <<pc, job>>
         [] round = "first"  -> CallEnsure(Sup, c, TRUE)
         [] OTHER            -> Goto(Sup, "check") /\ job' = [job EXCEPT ![Sup].cam = c]
    /\ UNCHANGED <<controlVars, reg, life, metaVars, watch, round>>

CheckSkipsMissing ==
    /\ pc[Sup] = "check"
    /\ Goto(Sup, "idle") /\ job' = [job EXCEPT ![Sup] = NoJob]
    /\ UNCHANGED <<controlVars, reg, life, metaVars, watch, todo, round>>
(* ... and the others act on what they find: a missing pipeline is started, one that is  *)
(* registered is only kept from going idle.                                 *)
Check ==
    LET c == job[Sup].cam  g == reg[job[Sup].cam]
    IN  /\ pc[Sup] = "check"
        /\ IF g = None
           THEN CallEnsure(Sup, c, TRUE) /\ UNCHANGED idle
           ELSE /\ idle' = [idle EXCEPT ![g] = @ /\ ~alwaysOn[g]]
                /\ Goto(Sup, "idle") /\ job' = [job EXCEPT ![Sup] = NoJob]
        /\ UNCHANGED <<controlVars, reg, life, alwaysOn, conns, lost, watch, todo, round>>

Supervisor == NewRound \/ (\E c \in Cameras : Visit(c)) \/ Check \/ Ensure(Sup)

----------------------------------------------------------------------------
(* The toggles.                                                            *)

(* set_fleet_always_on(True): the control state, then                       *)
(* start_all_live_pipelines.                                                *)
FleetOn(o) ==
    /\ pc[o] = "idle"
    /\ fleetOn' = TRUE /\ disabled' = {}
    /\ todo' = [todo EXCEPT ![o] = Cameras]
    /\ Goto(o, "startall")
    /\ UNCHANGED <<reg, life, metaVars, watch, job, round>>

(* set_camera_always_on(c, True) ensures the pipeline without asking again. *)
CameraOn(o, c) ==
    /\ pc[o] = "idle"
    /\ fleetOn' = TRUE /\ disabled' = disabled \ {c}
    /\ CallEnsure(o, c, TRUE)
    /\ UNCHANGED <<reg, life, metaVars, watch, todo, round>>

StartNext(o, c) ==
    /\ pc[o] = "startall" /\ c \in todo[o]
    /\ todo' = [todo EXCEPT ![o] = @ \ {c}]
    /\ IF Allowed(c)
       THEN CallEnsure(o, c, TRUE)
       ELSE GoOn(o, "startall", todo[o] \ {c}) /\ UNCHANGED job
    /\ UNCHANGED <<controlVars, reg, life, metaVars, watch, round>>

(* set_fleet_always_on(False), set_camera_always_on(c, False).              *)
StopThose(o, cams) ==
    /\ pc[o] = "idle"
    /\ todo' = [todo EXCEPT ![o] = cams]
    /\ Goto(o, "snapshot")
    /\ UNCHANGED <<reg, life, metaVars, watch, job, round>>

FleetOff(o) == StopThose(o, Cameras) /\ fleetOn' = FALSE /\ UNCHANGED disabled
CameraOff(o, c) == StopThose(o, {c}) /\ disabled' = disabled \cup {c} /\ UNCHANGED fleetOn

(* stop_always_on_pipelines lists the registered cameras, ...               *)
Snapshot(o) ==
    /\ pc[o] = "snapshot"
    /\ todo' = [todo EXCEPT ![o] = {c \in @ : reg[c] # None}]
    /\ GoOn(o, "clear", {c \in todo[o] : reg[c] # None})
    /\ UNCHANGED <<controlVars, reg, life, metaVars, watch, job, round>>

(* ... clears the mark of each and reads its viewers, ...                   *)
ClearOne(o, c) ==
    LET g == reg[c]
    IN  /\ pc[o] = "clear" /\ c \in todo[o]
        /\ todo' = [todo EXCEPT ![o] = @ \ {c}]
        /\ alwaysOn' = IF g = None THEN alwaysOn ELSE [alwaysOn EXCEPT ![g] = FALSE]
        /\ IF g # None /\ conns[g] = 0
           THEN Goto(o, "pop") /\ job' = [job EXCEPT ![o].cam = c]
           ELSE GoOn(o, "clear", todo[o] \ {c}) /\ UNCHANGED job
        /\ UNCHANGED <<controlVars, reg, life, conns, lost, idle, watch, round>>

(* ... and cleans up what had none, with the lock taken anew.               *)
PopOne(o) ==
    /\ pc[o] = "pop"
    /\ Cleanup(job[o].cam)
    /\ GoOn(o, "clear", todo[o])
    /\ job' = [job EXCEPT ![o] = NoJob]
    /\ UNCHANGED <<controlVars, watch, todo, round>>

Operator(o) ==
    \/ FleetOn(o) \/ FleetOff(o)
    \/ \E c \in Cameras : CameraOn(o, c) \/ CameraOff(o, c)
    \/ \E c \in Cameras : StartNext(o, c) \/ ClearOne(o, c)
    \/ Snapshot(o) \/ PopOne(o) \/ Ensure(o)

EventLoop ==
    \/ \E c \in Cameras : OpenStream(c) \/ SweepOne(c) \/ Reload(c)
    \/ Attach \/ Ensure(Loop)

Next ==
    \/ EventLoop
    \/ Supervisor
    \/ \E o \in Operators : Operator(o)
    \/ \E v \in Viewers : Vanish(v) \/ Leave(v)
    \/ \E g \in Gens : GoIdle(g) \/ CaptureDies(g)

Spec == Init /\ [][Next]_vars

(* The supervisor thread runs, and starting a pipeline does not fail for    *)
(* ever; an agent that holds a pipeline it has started registers it.        *)
FairSpec ==
    /\ Spec
    /\ WF_vars(Supervisor)
    /\ SF_vars(EnsureStarts(Sup))
    /\ \A a \in Agents : WF_vars(Register(a))

----------------------------------------------------------------------------
(* Properties.                                                             *)

(* Pipelines do not leak: one whose stop event is not set is registered, or *)
(* the agent that started it is about to register it.  What a lost race, a  *)
(* reload, a sweep or a toggle removes is stopped.                          *)
NoOrphanPipeline ==
    \A g \in Gens : life[g] \in {"up", "dead"} =>
        \/ g \in Registered
        \/ \E a \in Agents : pc[a] = "register" /\ job[a].gen = g

(* The registry never hands out a pipeline whose stop event is set, nor one *)
(* pipeline under two cameras.                                              *)
RegisteredIsRunning ==
    /\ \A c \in Cameras : reg[c] # None => life[reg[c]] \in {"up", "dead"}
    /\ \A c, d \in Cameras : reg[c] = reg[d] /\ reg[c] # None => c = d

(* The cap is checked before the start and not again: every agent that had  *)
(* passed the check may still register, but no more than those.             *)
CapOvershootBounded ==
    Cardinality(Registered)
      + Cardinality({a \in Agents : pc[a] = "register"})
        <= MaxStreams + Cardinality(Agents) - 1

(* A count of connections never exceeds the viewers of that pipeline and    *)
(* those that went before their generator began: nothing else leaks one,    *)
(* neither the look-up by camera in the finally clause, which may find      *)
(* another pipeline, nor a race of starters.                                *)
ConnectionsAreWatched ==
    \A g \in Registered :
        conns[g] <= Cardinality({v \in Viewers : watch[v].gen = g}) + lost[g]

(* "Remove viewer-only streams with no MJPEG consumers": the count alone,   *)
(* without the clients that went before their generator began.              *)
CountsOnlyViewers ==
    \A g \in Registered :
        conns[g] <= Cardinality({v \in Viewers : watch[v].gen = g})

(* An agent that is about to use a camera has one.                          *)
JobsHaveCameras ==
    \A a \in Agents :
        pc[a] \in {"sweep", "ensure", "register", "attach", "check", "pop"}
            => job[a].cam \in Cameras

(* A pipeline that was started and is not registered yet runs, and is the   *)
(* business of one agent.                                                   *)
StartedByOne ==
    \A a \in Agents : pc[a] = "register" =>
        /\ job[a].gen \in Gens \ Registered
        /\ life[job[a].gen] \in {"up", "dead"}
        /\ \A b \in Agents : pc[b] = "register" /\ job[b].gen = job[a].gen => a = b

(* Who holds a pipeline whose stop event is not set: the argument of the    *)
(* proofs of NoOrphanPipeline and RegisteredIsRunning.                      *)
HolderInv ==
    JobsHaveCameras /\ StartedByOne /\ RegisteredIsRunning /\ NoOrphanPipeline

(* A viewer's generator serves the pipeline that is registered for its      *)
(* camera, or one that has been stopped under it.                           *)
WatchedIsRegistered ==
    \A v \in Viewers : watch[v] # NotWatching =>
        /\ watch[v].cam \in Cameras /\ watch[v].gen \in Gens
        /\ life[watch[v].gen] # "stopped" => reg[watch[v].cam] = watch[v].gen

StoppedIsUncounted == \A g \in Gens : life[g] = "stopped" => conns[g] = 0

Watching(g) == {v \in Viewers : watch[v].gen = g}

(* No pipeline, registered or not, counts more than watch it or were lost   *)
(* to it: the argument of the proof of ConnectionsAreWatched.               *)
CountsInv ==
    /\ WatchedIsRegistered /\ StoppedIsUncounted
    /\ \A g \in Gens : conns[g] <= Cardinality(Watching(g)) + lost[g]

(* What the supervisor is for: a camera that is allowed for good, with room *)
(* under the cap for it, is registered again whatever removes it.           *)
SupervisorRestores ==
    \A c \in Cameras :
        <>[](Allowed(c) /\ (reg[c] # None \/ Cardinality(Registered) < MaxStreams))
            => []<>(reg[c] # None)

(* "re-start always-on cameras that died": an always-on pipeline whose      *)
(* capture thread has ended is replaced, while the camera stays allowed.    *)
DeadIsRestarted ==
    \A c \in Cameras :
        (reg[c] # None /\ alwaysOn[reg[c]] /\ life[reg[c]] = "dead")
            ~> (~Allowed(c) \/ (reg[c] # None /\ life[reg[c]] = "up"))
=============================================================================
