------------------------ MODULE LivePipelinesProofs ------------------------
(***************************************************************************)
(* What TLAPS proves of LivePipelines for every number of cameras, agents  *)
(* and viewers: that no pipeline is orphaned and no stopped one handed     *)
(* out, that connection counts never exceed the viewers, and that the cap  *)
(* is exceeded by no more than the agents that had passed its check.       *)
(***************************************************************************)
EXTENDS LivePipelines, FiniteSetTheorems, TLAPS

----------------------------------------------------------------------------
(* Types.                                                                  *)

JobShape == [cam : Cameras \cup {None}, ao : BOOLEAN, gen : Gens \cup {None}]

(* Every agent the next-state relation names is one.                        *)
LEMMA AgentsAre == Loop \in Agents /\ Sup \in Agents /\ Operators \subseteq Agents
BY DEF Agents

(* What the calls of an agent write of its own place and job.               *)
LEMMA CallShapes ==
    ASSUME Shapes, NEW a \in Agents
    PROVE  /\ \A where \in {"idle", "sweep", "ensure", "register", "attach",
                            "check", "snapshot", "clear", "pop", "startall"} :
                 Goto(a, where) => pc' \in [Agents -> {"idle", "sweep", "ensure", "register",
                            "attach", "check", "snapshot", "clear", "pop", "startall"}]
           /\ \A j \in JobShape : [job EXCEPT ![a] = j] \in [Agents -> JobShape]
           /\ \A c \in Cameras : [job EXCEPT ![a].cam = c] \in [Agents -> JobShape]
           /\ \A g \in Gens : [job EXCEPT ![a].gen = g] \in [Agents -> JobShape]
           /\ NoJob \in JobShape
           /\ \A c \in Cameras \cup {None}, ao \in BOOLEAN :
                 [cam |-> c, ao |-> ao, gen |-> None] \in JobShape
<1>1. job \in [Agents -> JobShape] /\ job[a] \in JobShape
  BY DEF Shapes, JobShape
<1>2. \A j \in JobShape : [job EXCEPT ![a] = j] \in [Agents -> JobShape]
  BY <1>1
<1>3. \A c \in Cameras : [job EXCEPT ![a].cam = c] \in [Agents -> JobShape]
  BY <1>1 DEF JobShape
<1>4. \A g \in Gens : [job EXCEPT ![a].gen = g] \in [Agents -> JobShape]
  BY <1>1 DEF JobShape
<1>5. NoJob \in JobShape
  BY DEF NoJob, JobShape
<1>6. \A c \in Cameras \cup {None}, ao \in BOOLEAN :
         [cam |-> c, ao |-> ao, gen |-> None] \in JobShape
  BY DEF JobShape
<1>7. \A where \in {"idle", "sweep", "ensure", "register", "attach",
                    "check", "snapshot", "clear", "pop", "startall"} :
         Goto(a, where) => pc' \in [Agents -> {"idle", "sweep", "ensure", "register",
                    "attach", "check", "snapshot", "clear", "pop", "startall"}]
  BY DEF Shapes, Goto
<1> QED BY <1>2, <1>3, <1>4, <1>5, <1>6, <1>7

(* The way back from ensure_live_pipeline keeps the shapes.                 *)
LEMMA ReturnShapes ==
    ASSUME Shapes, NEW a \in Agents, NEW ok \in BOOLEAN, Return(a, ok)
    PROVE  /\ pc' \in [Agents -> {"idle", "sweep", "ensure", "register", "attach",
                                  "check", "snapshot", "clear", "pop", "startall"}]
           /\ job' \in [Agents -> JobShape]
           /\ \A b \in Agents : b # a => pc'[b] = pc[b] /\ job'[b] = job[b]
           /\ pc'[a] \in {"attach", "idle", "startall"}
           /\ pc'[a] = "attach" => job'[a].cam = job[a].cam
<1>1. job[a].cam \in Cameras \cup {None}
  BY DEF Shapes
<1> DEFINE j == IF a = Loop /\ ok THEN [NoJob EXCEPT !.cam = job[a].cam] ELSE NoJob
           w == CASE a = Loop -> IF ok THEN "attach" ELSE "idle"
                  [] a = Sup  -> "idle"
                  [] OTHER    -> IF todo[a] = {} THEN "idle" ELSE "startall"
<1>2. j \in JobShape /\ (a = Loop /\ ok => j.cam = job[a].cam)
  BY <1>1 DEF NoJob, JobShape
<1>3. w \in {"attach", "idle", "startall"} /\ (w = "attach" => a = Loop /\ ok)
  BY ActorsAssumption
<1>4. pc' = [pc EXCEPT ![a] = w] /\ job' = [job EXCEPT ![a] = j]
  BY DEF Return, Goto
<1> HIDE DEF j, w
<1> QED BY <1>2, <1>3, <1>4 DEF Shapes, JobShape

(* A stopped pipeline, and one popped from the registry, keep the shapes.   *)
LEMMA CleanupShapes ==
    ASSUME Shapes, NEW c \in Cameras, Cleanup(c)
    PROVE  /\ reg' \in [Cameras -> Gens \cup {None}]
           /\ life' \in [Gens -> {"up", "dead", "stopped"}]
           /\ alwaysOn' \in [Gens -> BOOLEAN] /\ conns' \in [Gens -> Nat] /\ lost' \in [Gens -> Nat]
           /\ idle' \in [Gens -> BOOLEAN]
<1>1. CASE reg[c] = None
  BY <1>1 DEF Cleanup, Shapes, metaVars
<1>2. CASE reg[c] # None
  <2>1. StopPipeline(reg[c]) /\ reg' = [reg EXCEPT ![c] = None]
    BY <1>2 DEF Cleanup
  <2>2. reg' \in [Cameras -> Gens \cup {None}]
    BY <2>1 DEF Shapes
  <2>3. /\ life' \in [Gens -> {"up", "dead", "stopped"}]
        /\ alwaysOn' \in [Gens -> BOOLEAN] /\ conns' \in [Gens -> Nat] /\ lost' \in [Gens -> Nat]
        /\ idle' \in [Gens -> BOOLEAN]
    BY <2>1 DEF StopPipeline, Shapes
  <2> QED BY <2>2, <2>3
<1> QED BY <1>1, <1>2

(* Every step of every thread keeps the shapes.                             *)
LEMMA ShapesStep == Shapes /\ JobsHaveCameras /\ [Next]_vars => Shapes'
<1> SUFFICES ASSUME Shapes, JobsHaveCameras, [Next]_vars PROVE Shapes'
  OBVIOUS
<1> USE AgentsAre DEF metaVars, controlVars
<1>1. ASSUME NEW a \in Agents, EnsureReuse(a) PROVE Shapes'
  <2>1. Return(a, TRUE) /\ UNCHANGED <<controlVars, reg, life, conns, lost, watch, todo, round>>
        /\ alwaysOn' \in [Gens -> BOOLEAN] /\ idle' \in [Gens -> BOOLEAN]
    BY <1>1 DEF EnsureReuse, Shapes
  <2> QED BY <2>1, ReturnShapes DEF Shapes, JobShape
<1>2. ASSUME NEW a \in Agents, EnsureRefuse(a) \/ EnsureFails(a) PROVE Shapes'
  <2>1. Return(a, FALSE) /\ UNCHANGED <<controlVars, reg, life, metaVars, watch, todo, round>>
    BY <1>2 DEF EnsureRefuse, EnsureFails
  <2> QED BY <2>1, ReturnShapes DEF Shapes, JobShape
<1>3. ASSUME NEW a \in Agents, EnsureStarts(a) PROVE Shapes'
  <2>1. PICK g \in Gens :
          /\ life' = [life EXCEPT ![g] = "up"]
          /\ alwaysOn' = [alwaysOn EXCEPT ![g] = job[a].ao]
          /\ conns' = [conns EXCEPT ![g] = 0]
          /\ idle' = [idle EXCEPT ![g] = FALSE]
          /\ lost' = [lost EXCEPT ![g] = 0]
          /\ job' = [job EXCEPT ![a].gen = g]
    BY <1>3 DEF EnsureStarts, StartPipeline
  <2>2. Goto(a, "register") /\ UNCHANGED <<controlVars, reg, watch, todo, round>>
    BY <1>3 DEF EnsureStarts, StartPipeline
  <2>3. job' \in [Agents -> JobShape] /\ job[a].ao \in BOOLEAN
    BY <2>1, CallShapes DEF Shapes
  <2>4. pc' \in [Agents -> {"idle", "sweep", "ensure", "register", "attach",
                            "check", "snapshot", "clear", "pop", "startall"}]
    BY <2>2, CallShapes
  <2> QED BY <2>1, <2>2, <2>3, <2>4 DEF Shapes, JobShape
<1>4. ASSUME NEW a \in Agents, Register(a) PROVE Shapes'
  <2>1. /\ Return(a, TRUE) /\ UNCHANGED <<controlVars, watch, todo, round>>
        /\ \/ reg' = [reg EXCEPT ![job[a].cam] = job[a].gen] /\ UNCHANGED <<life, metaVars>>
           \/ StopPipeline(job[a].gen) /\ UNCHANGED reg
    BY <1>4 DEF Register
  <2>2. job[a].gen \in Gens \cup {None}
    BY DEF Shapes
  <2>3. /\ reg' \in [Cameras -> Gens \cup {None}]
        /\ life' \in [Gens -> {"up", "dead", "stopped"}]
        /\ alwaysOn' \in [Gens -> BOOLEAN] /\ conns' \in [Gens -> Nat] /\ lost' \in [Gens -> Nat]
        /\ idle' \in [Gens -> BOOLEAN]
    <3>1. CASE reg' = [reg EXCEPT ![job[a].cam] = job[a].gen] /\ UNCHANGED <<life, metaVars>>
      BY <2>2, <3>1 DEF Shapes
    <3>2. CASE StopPipeline(job[a].gen) /\ UNCHANGED reg
      BY <3>2 DEF StopPipeline, Shapes
    <3> QED BY <2>1, <3>1, <3>2
  <2> QED BY <2>1, <2>3, ReturnShapes DEF Shapes, JobShape
<1>5. ASSUME NEW c \in Cameras, OpenStream(c) PROVE Shapes'
  <2>1. PICK dead \in {{}, {d \in Cameras : Sweepable(d)}} :
         /\ todo' = [todo EXCEPT ![Loop] = dead]
         /\ Goto(Loop, IF dead = {} THEN "ensure" ELSE "sweep")
    BY <1>5 DEF OpenStream
  <2>2. /\ job' = [job EXCEPT ![Loop] = [cam |-> c, ao |-> EnvAuto, gen |-> None]]
        /\ UNCHANGED <<controlVars, reg, life, metaVars, watch, round>>
    BY <1>5 DEF OpenStream
  <2>3. job' \in [Agents -> JobShape]
    BY <2>2, CallShapes, ActorsAssumption
  <2>4. todo' \in [Agents -> SUBSET Cameras]
    BY <2>1 DEF Shapes
  <2>5. pc' \in [Agents -> {"idle", "sweep", "ensure", "register", "attach",
                            "check", "snapshot", "clear", "pop", "startall"}]
    BY <2>1 DEF Shapes, Goto
  <2> QED BY <2>2, <2>3, <2>4, <2>5 DEF Shapes, JobShape
<1>6. ASSUME NEW c \in Cameras, SweepOne(c) \/ Reload(c) PROVE Shapes'
  <2>1. /\ Cleanup(c) /\ UNCHANGED <<controlVars, watch, job, round>>
        /\ todo' \in [Agents -> SUBSET Cameras]
        /\ pc' \in [Agents -> {"idle", "sweep", "ensure", "register", "attach",
                            "check", "snapshot", "clear", "pop", "startall"}]
    <3>1. CASE SweepOne(c)
      <4>1. Goto(Loop, "ensure") \/ Goto(Loop, "sweep")
        BY <3>1 DEF SweepOne
      <4> QED BY <3>1, <4>1, CallShapes DEF SweepOne, Shapes
    <3>2. CASE Reload(c)
      BY <3>2 DEF Reload, Shapes
    <3> QED BY <1>6, <3>1, <3>2
  <2> QED BY <2>1, CleanupShapes DEF Shapes
<1>7. ASSUME Attach PROVE Shapes'
  <2>1. job[Loop].cam \in Cameras
    BY <1>7 DEF Attach, JobsHaveCameras
  <2>2. /\ Goto(Loop, "idle") /\ job' = [job EXCEPT ![Loop] = NoJob]
        /\ UNCHANGED <<controlVars, reg, life, alwaysOn, lost, todo, round>>
    BY <1>7 DEF Attach
  <2>3. job' \in [Agents -> JobShape]
    BY <2>2, CallShapes
  <2>4. pc' \in [Agents -> {"idle", "sweep", "ensure", "register", "attach",
                            "check", "snapshot", "clear", "pop", "startall"}]
    BY <2>2, CallShapes
  <2>5. /\ conns' \in [Gens -> Nat] /\ idle' \in [Gens -> BOOLEAN]
        /\ watch' \in [Viewers -> [cam : Cameras \cup {None}, gen : Gens \cup {None}]]
    <3>1. CASE reg[job[Loop].cam] = None
      BY <1>7, <3>1 DEF Attach, Shapes
    <3>2. CASE reg[job[Loop].cam] # None
      <4>1. reg[job[Loop].cam] \in Gens
        BY <2>1, <3>2 DEF Shapes
      <4>2. PICK v \in Viewers :
              /\ watch' = [watch EXCEPT ![v] = [cam |-> job[Loop].cam, gen |-> reg[job[Loop].cam]]]
              /\ idle' = [idle EXCEPT ![reg[job[Loop].cam]] = FALSE]
              /\ conns' = [conns EXCEPT ![reg[job[Loop].cam]] = @ + 1]
        BY <1>7, <3>2 DEF Attach
      <4> QED BY <2>1, <4>1, <4>2 DEF Shapes
    <3> QED BY <3>1, <3>2
  <2> QED BY <2>2, <2>3, <2>4, <2>5 DEF Shapes, JobShape
<1>8. ASSUME NEW v \in Viewers, Leave(v) PROVE Shapes'
  <2>1. /\ watch' = [watch EXCEPT ![v] = NotWatching]
        /\ UNCHANGED <<controlVars, reg, life, alwaysOn, lost, pc, job, todo, round>>
    BY <1>8 DEF Leave
  <2>2. watch' \in [Viewers -> [cam : Cameras \cup {None}, gen : Gens \cup {None}]]
    BY <2>1 DEF Shapes, NotWatching
  <2>3. conns' \in [Gens -> Nat] /\ idle' \in [Gens -> BOOLEAN]
    <3> DEFINE g == reg[watch[v].cam]
    <3>1. CASE g = None
      BY <1>8, <3>1 DEF Leave, Shapes
    <3>2. CASE g # None
      <4>1. /\ conns' = [conns EXCEPT ![g] = IF @ > 0 THEN @ - 1 ELSE 0]
            /\ idle' = [idle EXCEPT ![g] = FALSE]
        BY <1>8, <3>2 DEF Leave
      <4> HIDE DEF g
      <4>2. conns \in [Gens -> Nat] /\ idle \in [Gens -> BOOLEAN]
        BY DEF Shapes
      <4>3. idle' \in [Gens -> BOOLEAN]
        BY <4>1, <4>2
      <4>4. \A h \in Gens : conns'[h] \in Nat
        BY <4>1, <4>2
      <4>5. conns' = [h \in Gens |-> conns'[h]]
        BY <4>1, <4>2
      <4> QED BY <4>3, <4>4, <4>5
    <3> QED BY <3>1, <3>2
  <2> QED BY <2>1, <2>2, <2>3 DEF Shapes
<1>21. ASSUME NEW v \in Viewers, Vanish(v) PROVE Shapes'
  <2>1. /\ watch' = [watch EXCEPT ![v] = NotWatching]
        /\ lost' = lost \/ lost' = [lost EXCEPT ![watch[v].gen] = @ + 1]
        /\ UNCHANGED <<controlVars, reg, life, alwaysOn, conns, idle, pc, job, todo, round>>
    BY <1>21 DEF Vanish
  <2>2. watch' \in [Viewers -> [cam : Cameras \cup {None}, gen : Gens \cup {None}]]
    BY <2>1 DEF Shapes, NotWatching
  <2>3. lost' \in [Gens -> Nat]
    BY <2>1 DEF Shapes
  <2> QED BY <2>1, <2>2, <2>3 DEF Shapes
<1>9. ASSUME NEW g \in Gens, GoIdle(g) \/ CaptureDies(g) PROVE Shapes'
  BY <1>9 DEF GoIdle, CaptureDies, Shapes
<1>10. ASSUME NewRound PROVE Shapes'
  BY <1>10 DEF NewRound, Shapes
<1>11. ASSUME NEW c \in Cameras, Visit(c) PROVE Shapes'
  <2>1. /\ todo' \in [Agents -> SUBSET Cameras]
        /\ UNCHANGED <<controlVars, reg, life, metaVars, watch, round>>
    BY <1>11 DEF Visit, Shapes
  <2>2. \/ UNCHANGED <<pc, job>>
        \/ CallEnsure(Sup, c, TRUE)
        \/ Goto(Sup, "check") /\ job' = [job EXCEPT ![Sup].cam = c]
    BY <1>11 DEF Visit
  <2>3. /\ job' \in [Agents -> JobShape]
        /\ pc' \in [Agents -> {"idle", "sweep", "ensure", "register", "attach",
                            "check", "snapshot", "clear", "pop", "startall"}]
    <3>1. CASE UNCHANGED <<pc, job>>
      BY <3>1 DEF Shapes, JobShape
    <3>2. CASE CallEnsure(Sup, c, TRUE)
      BY <3>2, CallShapes DEF CallEnsure
    <3>3. CASE Goto(Sup, "check") /\ job' = [job EXCEPT ![Sup].cam = c]
      BY <3>3, CallShapes
    <3> QED BY <2>2, <3>1, <3>2, <3>3
  <2> QED BY <2>1, <2>3 DEF Shapes, JobShape
<1>12. ASSUME Check PROVE Shapes'
  <2>1. /\ UNCHANGED <<controlVars, reg, life, alwaysOn, conns, lost, watch, todo, round>>
        /\ idle' \in [Gens -> BOOLEAN]
    BY <1>12 DEF Check, Shapes
  <2>2. job[Sup].cam \in Cameras
    BY <1>12 DEF Check, JobsHaveCameras
  <2>3. \/ CallEnsure(Sup, job[Sup].cam, TRUE)
        \/ Goto(Sup, "idle") /\ job' = [job EXCEPT ![Sup] = NoJob]
    BY <1>12 DEF Check
  <2>4. /\ job' \in [Agents -> JobShape]
        /\ pc' \in [Agents -> {"idle", "sweep", "ensure", "register", "attach",
                            "check", "snapshot", "clear", "pop", "startall"}]
    <3>1. CASE CallEnsure(Sup, job[Sup].cam, TRUE)
      BY <2>2, <3>1, CallShapes DEF CallEnsure
    <3>2. CASE Goto(Sup, "idle") /\ job' = [job EXCEPT ![Sup] = NoJob]
      BY <3>2, CallShapes
    <3> QED BY <2>3, <3>1, <3>2
  <2> QED BY <2>1, <2>4 DEF Shapes, JobShape
<1>13. ASSUME NEW o \in Operators, FleetOn(o) \/ FleetOff(o) PROVE Shapes'
  <2>1. CASE FleetOn(o)
    BY <2>1 DEF FleetOn, Goto, Shapes
  <2>2. CASE FleetOff(o)
    BY <2>2 DEF FleetOff, StopThose, Goto, Shapes
  <2> QED BY <1>13, <2>1, <2>2
<1>14. ASSUME NEW o \in Operators, NEW c \in Cameras, CameraOff(o, c) PROVE Shapes'
  BY <1>14 DEF CameraOff, StopThose, Goto, Shapes
<1>15. ASSUME NEW o \in Operators, NEW c \in Cameras, CameraOn(o, c) PROVE Shapes'
  <2>1. /\ fleetOn' \in BOOLEAN /\ disabled' \in SUBSET Cameras
        /\ CallEnsure(o, c, TRUE)
        /\ UNCHANGED <<reg, life, metaVars, watch, todo, round>>
    BY <1>15 DEF CameraOn, Shapes
  <2>2. /\ job' \in [Agents -> JobShape]
        /\ pc' \in [Agents -> {"idle", "sweep", "ensure", "register", "attach",
                            "check", "snapshot", "clear", "pop", "startall"}]
    BY <2>1, CallShapes DEF CallEnsure
  <2> QED BY <2>1, <2>2 DEF Shapes, JobShape
<1>16. ASSUME NEW o \in Operators, NEW c \in Cameras, StartNext(o, c) PROVE Shapes'
  <2>1. /\ todo' \in [Agents -> SUBSET Cameras]
        /\ UNCHANGED <<controlVars, reg, life, metaVars, watch, round>>
    BY <1>16 DEF StartNext, Shapes
  <2>2. \/ CallEnsure(o, c, TRUE)
        \/ (Goto(o, "idle") \/ Goto(o, "startall")) /\ UNCHANGED job
    BY <1>16 DEF StartNext, GoOn
  <2>3. /\ job' \in [Agents -> JobShape]
        /\ pc' \in [Agents -> {"idle", "sweep", "ensure", "register", "attach",
                            "check", "snapshot", "clear", "pop", "startall"}]
    <3>1. CASE CallEnsure(o, c, TRUE)
      BY <3>1, CallShapes DEF CallEnsure
    <3>2. CASE (Goto(o, "idle") \/ Goto(o, "startall")) /\ UNCHANGED job
      BY <3>2, CallShapes DEF Shapes, JobShape
    <3> QED BY <2>2, <3>1, <3>2
  <2> QED BY <2>1, <2>3 DEF Shapes, JobShape
<1>17. ASSUME NEW o \in Operators, Snapshot(o) PROVE Shapes'
  <2>1. /\ todo' \in [Agents -> SUBSET Cameras]
        /\ UNCHANGED <<controlVars, reg, life, metaVars, watch, job, round>>
    BY <1>17 DEF Snapshot, Shapes
  <2>2. pc' \in [Agents -> {"idle", "sweep", "ensure", "register", "attach",
                            "check", "snapshot", "clear", "pop", "startall"}]
    BY <1>17 DEF Snapshot, GoOn, Goto, Shapes
  <2> QED BY <2>1, <2>2 DEF Shapes
<1>18. ASSUME NEW o \in Operators, NEW c \in Cameras, ClearOne(o, c) PROVE Shapes'
  <2>1. /\ todo' \in [Agents -> SUBSET Cameras]
        /\ UNCHANGED <<controlVars, reg, life, conns, lost, idle, watch, round>>
        /\ alwaysOn' \in [Gens -> BOOLEAN]
    BY <1>18 DEF ClearOne, Shapes
  <2>2. \/ Goto(o, "pop") /\ job' = [job EXCEPT ![o].cam = c]
        \/ (Goto(o, "idle") \/ Goto(o, "clear")) /\ UNCHANGED job
    BY <1>18 DEF ClearOne, GoOn
  <2>3. /\ job' \in [Agents -> JobShape]
        /\ pc' \in [Agents -> {"idle", "sweep", "ensure", "register", "attach",
                            "check", "snapshot", "clear", "pop", "startall"}]
    <3>1. CASE Goto(o, "pop") /\ job' = [job EXCEPT ![o].cam = c]
      BY <3>1, CallShapes
    <3>2. CASE (Goto(o, "idle") \/ Goto(o, "clear")) /\ UNCHANGED job
      BY <3>2, CallShapes DEF Shapes, JobShape
    <3> QED BY <2>2, <3>1, <3>2
  <2> QED BY <2>1, <2>3 DEF Shapes, JobShape
<1>19. ASSUME NEW o \in Operators, PopOne(o) PROVE Shapes'
  <2>1. /\ Cleanup(job[o].cam) /\ job[o].cam \in Cameras
        /\ UNCHANGED <<controlVars, watch, todo, round>>
        /\ job' = [job EXCEPT ![o] = NoJob]
        /\ Goto(o, "idle") \/ Goto(o, "clear")
    BY <1>19 DEF PopOne, GoOn, JobsHaveCameras
  <2>2. /\ job' \in [Agents -> JobShape]
        /\ pc' \in [Agents -> {"idle", "sweep", "ensure", "register", "attach",
                            "check", "snapshot", "clear", "pop", "startall"}]
    BY <2>1, CallShapes
  <2> QED BY <2>1, <2>2, CleanupShapes DEF Shapes, JobShape
<1>20. CASE UNCHANGED vars
  BY <1>20 DEF vars, Shapes
<1> QED
  BY <1>1, <1>2, <1>3, <1>4, <1>5, <1>6, <1>7, <1>8, <1>9, <1>10, <1>11, <1>12, <1>13,
     <1>14, <1>15, <1>16, <1>17, <1>18, <1>19, <1>20, <1>21
  DEF Next, EventLoop, Supervisor, Operator, Ensure

----------------------------------------------------------------------------
(* Who holds a running pipeline.                                           *)

CameraPlaces == {"sweep", "ensure", "register", "attach", "check", "pop"}

(* Agent x takes a step that has nothing to do with registering, and the    *)
(* others stay where they are.                                              *)
Moves(x) ==
    /\ \A b \in Agents \ {x} : pc'[b] = pc[b] /\ job'[b] = job[b]
    /\ pc[x] # "register" /\ pc'[x] # "register"
    /\ pc'[x] \in CameraPlaces => job'[x].cam \in Cameras

(* Nobody moves.                                                            *)
Stays == UNCHANGED <<pc, job>>

(* Such a step leaves the agents' cameras as they should be.                *)
LEMMA CamerasMove ==
    ASSUME JobsHaveCameras, Stays \/ \E x \in Agents : Moves(x)
    PROVE  JobsHaveCameras'
BY DEF JobsHaveCameras, Stays, Moves, CameraPlaces

(* What a returning call of ensure_live_pipeline leaves of its agent.       *)
LEMMA ReturnMoves ==
    ASSUME Shapes, JobsHaveCameras, NEW a \in Agents, NEW ok \in BOOLEAN, Return(a, ok),
           pc[a] = "ensure"
    PROVE  Moves(a)
<1>1. job[a].cam \in Cameras
  BY DEF JobsHaveCameras
<1> QED BY <1>1, ReturnShapes DEF Moves, CameraPlaces

(* Of an agent that goes somewhere with the job it has, or with a new one.  *)
LEMMA GotoMoves ==
    ASSUME Shapes, JobsHaveCameras, NEW a \in Agents, pc[a] # "register",
           NEW w \in {"idle", "sweep", "ensure", "attach", "check", "snapshot",
                      "clear", "pop", "startall"},
           Goto(a, w),
           \/ job' = job /\ w \in {"idle", "snapshot", "clear", "startall"}
           \/ job' = job /\ pc[a] \in CameraPlaces
           \/ \E j \in JobShape : /\ job' = [job EXCEPT ![a] = j]
                                  /\ w \in CameraPlaces => j.cam \in Cameras
    PROVE  Moves(a)
<1>1. pc' = [pc EXCEPT ![a] = w] /\ pc'[a] = w /\ \A b \in Agents \ {a} : pc'[b] = pc[b]
  BY DEF Goto, Shapes
<1>2. CASE job' = job /\ w \in {"idle", "snapshot", "clear", "startall"}
  BY <1>1, <1>2 DEF Moves, CameraPlaces
<1>4. CASE job' = job /\ pc[a] \in CameraPlaces
  <2>1. job'[a].cam \in Cameras
    BY <1>4 DEF CameraPlaces, JobsHaveCameras
  <2> QED BY <1>1, <1>4, <2>1 DEF Moves
<1>3. CASE \E j \in JobShape : /\ job' = [job EXCEPT ![a] = j]
                               /\ w \in CameraPlaces => j.cam \in Cameras
  BY <1>1, <1>3 DEF Moves, CameraPlaces, Shapes
<1> QED BY <1>2, <1>3, <1>4

(* The steps of the event loop but for registering.                         *)
LEMMA LoopMoves ==
    ASSUME Shapes, JobsHaveCameras,
           \/ \E c \in Cameras : OpenStream(c) \/ SweepOne(c)
           \/ Attach
    PROVE  Moves(Loop)
<1> USE AgentsAre
<1>1. ASSUME NEW c \in Cameras, OpenStream(c) PROVE Moves(Loop)
  <2>1. /\ Goto(Loop, "ensure") \/ Goto(Loop, "sweep")
        /\ pc[Loop] = "idle"
        /\ job' = [job EXCEPT ![Loop] = [cam |-> c, ao |-> EnvAuto, gen |-> None]]
    BY <1>1 DEF OpenStream
  <2>2. [cam |-> c, ao |-> EnvAuto, gen |-> None] \in JobShape
    BY ActorsAssumption DEF JobShape
  <2>3. [cam |-> c, ao |-> EnvAuto, gen |-> None].cam = c
    OBVIOUS
  <2> QED BY <2>1, <2>2, <2>3, GotoMoves
<1>2. ASSUME NEW c \in Cameras, SweepOne(c) PROVE Moves(Loop)
  <2>1. /\ Goto(Loop, "ensure") \/ Goto(Loop, "sweep")
        /\ pc[Loop] = "sweep" /\ job' = job
    BY <1>2 DEF SweepOne
  <2> QED BY <2>1, GotoMoves DEF CameraPlaces
<1>3. CASE Attach
  <2>1. Goto(Loop, "idle") /\ pc[Loop] = "attach" /\ job' = [job EXCEPT ![Loop] = NoJob]
    BY <1>3 DEF Attach
  <2>2. NoJob \in JobShape
    BY DEF NoJob, JobShape
  <2> QED BY <2>1, <2>2, GotoMoves DEF CameraPlaces
<1> QED BY <1>1, <1>2, <1>3

(* Those of the supervisor.                                                 *)
LEMMA SupMoves ==
    ASSUME Shapes, JobsHaveCameras, (\E c \in Cameras : Visit(c)) \/ Check
    PROVE  Stays \/ Moves(Sup)
<1> USE AgentsAre
<1>0. NoJob \in JobShape
  BY DEF NoJob, JobShape
<1>1. ASSUME NEW c \in Cameras, CallEnsure(Sup, c, TRUE), pc[Sup] # "register" PROVE Moves(Sup)
  <2>1. [cam |-> c, ao |-> TRUE, gen |-> None] \in JobShape
    BY DEF JobShape
  <2>2. [cam |-> c, ao |-> TRUE, gen |-> None].cam = c
    OBVIOUS
  <2> QED BY <1>1, <2>1, <2>2, GotoMoves DEF CallEnsure
<1>2. ASSUME NEW c \in Cameras, Visit(c) PROVE Stays \/ Moves(Sup)
  <2>1. /\ pc[Sup] = "idle"
        /\ \/ UNCHANGED <<pc, job>>
           \/ CallEnsure(Sup, c, TRUE)
           \/ Goto(Sup, "check") /\ job' = [job EXCEPT ![Sup].cam = c]
    BY <1>2 DEF Visit
  <2>2. CASE UNCHANGED <<pc, job>>
    BY <2>2 DEF Stays
  <2>3. CASE CallEnsure(Sup, c, TRUE)
    BY <1>1, <2>1, <2>3
  <2>4. CASE Goto(Sup, "check") /\ job' = [job EXCEPT ![Sup].cam = c]
    <3>1. job'[Sup].cam = c /\ \A b \in Agents \ {Sup} : job'[b] = job[b]
      BY <2>4 DEF Shapes
    <3>2. pc'[Sup] = "check" /\ \A b \in Agents \ {Sup} : pc'[b] = pc[b]
      BY <2>4 DEF Shapes, Goto
    <3> QED BY <2>1, <3>1, <3>2 DEF Moves
  <2> QED BY <2>1, <2>2, <2>3, <2>4
<1>3. CASE Check
  <2>1. /\ pc[Sup] = "check" /\ job[Sup].cam \in Cameras
        /\ \/ CallEnsure(Sup, job[Sup].cam, TRUE)
           \/ Goto(Sup, "idle") /\ job' = [job EXCEPT ![Sup] = NoJob]
    BY <1>3 DEF Check, JobsHaveCameras
  <2>2. CASE CallEnsure(Sup, job[Sup].cam, TRUE)
    BY <1>1, <2>1, <2>2
  <2>3. CASE Goto(Sup, "idle") /\ job' = [job EXCEPT ![Sup] = NoJob]
    BY <1>0, <2>1, <2>3, GotoMoves DEF CameraPlaces
  <2> QED BY <2>1, <2>2, <2>3
<1> QED BY <1>2, <1>3

(* Those of the toggles.                                                    *)
LEMMA OperatorMoves ==
    ASSUME Shapes, JobsHaveCameras, NEW o \in Operators,
           \/ FleetOn(o) \/ FleetOff(o)
           \/ \E c \in Cameras : CameraOn(o, c) \/ CameraOff(o, c)
           \/ \E c \in Cameras : StartNext(o, c) \/ ClearOne(o, c)
           \/ Snapshot(o) \/ PopOne(o)
    PROVE  Moves(o)
<1> USE AgentsAre
<1>0. NoJob \in JobShape
  BY DEF NoJob, JobShape
<1>1. ASSUME NEW c \in Cameras, CallEnsure(o, c, TRUE), pc[o] # "register" PROVE Moves(o)
  <2>1. [cam |-> c, ao |-> TRUE, gen |-> None] \in JobShape
    BY DEF JobShape
  <2>2. [cam |-> c, ao |-> TRUE, gen |-> None].cam = c
    OBVIOUS
  <2> QED BY <1>1, <2>1, <2>2, GotoMoves DEF CallEnsure
<1>2. ASSUME FleetOn(o) \/ FleetOff(o) \/ Snapshot(o) \/ \E c \in Cameras : CameraOff(o, c)
      PROVE  Moves(o)
  <2>1. /\ pc[o] # "register" /\ job' = job
        /\ \/ Goto(o, "idle") \/ Goto(o, "snapshot")
           \/ Goto(o, "clear") \/ Goto(o, "startall")
    BY <1>2 DEF FleetOn, FleetOff, CameraOff, StopThose, Snapshot, GoOn
  <2> QED BY <2>1, GotoMoves
<1>3. ASSUME NEW c \in Cameras, CameraOn(o, c) PROVE Moves(o)
  BY <1>1, <1>3 DEF CameraOn
<1>4. ASSUME NEW c \in Cameras, StartNext(o, c) PROVE Moves(o)
  <2>1. /\ pc[o] = "startall"
        /\ \/ CallEnsure(o, c, TRUE)
           \/ (Goto(o, "idle") \/ Goto(o, "startall")) /\ job' = job
    BY <1>4 DEF StartNext, GoOn
  <2>2. CASE CallEnsure(o, c, TRUE)
    BY <1>1, <2>1, <2>2
  <2>3. CASE (Goto(o, "idle") \/ Goto(o, "startall")) /\ job' = job
    BY <2>1, <2>3, GotoMoves
  <2> QED BY <2>1, <2>2, <2>3
<1>5. ASSUME NEW c \in Cameras, ClearOne(o, c) PROVE Moves(o)
  <2>1. /\ pc[o] = "clear"
        /\ \/ Goto(o, "pop") /\ job' = [job EXCEPT ![o].cam = c]
           \/ (Goto(o, "idle") \/ Goto(o, "clear")) /\ job' = job
    BY <1>5 DEF ClearOne, GoOn
  <2>2. CASE Goto(o, "pop") /\ job' = [job EXCEPT ![o].cam = c]
    <3>1. job'[o].cam = c /\ \A b \in Agents \ {o} : job'[b] = job[b]
      BY <2>2 DEF Shapes
    <3>2. pc'[o] = "pop" /\ \A b \in Agents \ {o} : pc'[b] = pc[b]
      BY <2>2 DEF Shapes, Goto
    <3> QED BY <2>1, <3>1, <3>2 DEF Moves
  <2>3. CASE (Goto(o, "idle") \/ Goto(o, "clear")) /\ job' = job
    BY <2>1, <2>3, GotoMoves
  <2> QED BY <2>1, <2>2, <2>3
<1>6. CASE PopOne(o)
  <2>1. /\ pc[o] = "pop"
        /\ Goto(o, "idle") \/ Goto(o, "clear")
        /\ job' = [job EXCEPT ![o] = NoJob]
    BY <1>6 DEF PopOne, GoOn
  <2> QED BY <1>0, <2>1, GotoMoves DEF CameraPlaces
<1> QED BY <1>2, <1>3, <1>4, <1>5, <1>6

(* A step that touches neither registry nor threads, and registers nothing. *)
LEMMA QuietStep ==
    ASSUME HolderInv, Stays \/ \E x \in Agents : Moves(x), UNCHANGED <<reg, life>>
    PROVE  HolderInv'
<1>1. JobsHaveCameras'
  BY CamerasMove DEF HolderInv
<1>2. \A a \in Agents : /\ pc'[a] = "register" <=> pc[a] = "register"
                        /\ pc[a] = "register" => job'[a] = job[a]
  BY DEF Stays, Moves
<1>3. StartedByOne'
  BY <1>2 DEF HolderInv, StartedByOne, Registered
<1>4. RegisteredIsRunning'
  BY DEF HolderInv, RegisteredIsRunning
<1>5. NoOrphanPipeline'
  BY <1>2 DEF HolderInv, NoOrphanPipeline, Registered
<1> QED BY <1>1, <1>3, <1>4, <1>5 DEF HolderInv

(* _cleanup_stream takes the pipeline out of the registry with its stop     *)
(* event set, and disturbs nobody else's.                                   *)
LEMMA CleanupStep ==
    ASSUME Shapes, HolderInv, NEW c \in Cameras, Cleanup(c),
           Stays \/ \E x \in Agents : Moves(x)
    PROVE  HolderInv'
<1>1. CASE reg[c] = None
  <2>1. UNCHANGED <<reg, life>>
    BY <1>1 DEF Cleanup
  <2> QED BY <2>1, QuietStep
<1>2. CASE reg[c] # None
  <2>1. JobsHaveCameras'
    BY CamerasMove DEF HolderInv
  <2>2. \A a \in Agents : /\ pc'[a] = "register" <=> pc[a] = "register"
                          /\ pc[a] = "register" => job'[a] = job[a]
    BY DEF Stays, Moves
  <2>3. /\ reg[c] \in Gens
        /\ life' = [life EXCEPT ![reg[c]] = "stopped"]
        /\ reg' = [reg EXCEPT ![c] = None]
    BY <1>2 DEF Cleanup, StopPipeline, Shapes
  <2>4. \A d \in Cameras : d # c /\ reg[d] # None => reg[d] # reg[c]
    BY DEF HolderInv, RegisteredIsRunning
  <2>5. Registered' = Registered \ {reg[c]}
    BY <1>2, <2>3, <2>4 DEF Registered, Shapes
  <2>6. reg[c] \in Registered
    BY <1>2 DEF Registered
  <2>7. \A g \in Gens : life'[g] = IF g = reg[c] THEN "stopped" ELSE life[g]
    BY <2>3 DEF Shapes
  <2>8. \A d \in Cameras : reg'[d] = IF d = c THEN None ELSE reg[d]
    BY <2>3 DEF Shapes
  <2>9. StartedByOne'
    BY <2>2, <2>5, <2>6, <2>7 DEF HolderInv, StartedByOne
  <2>10. RegisteredIsRunning'
    <3>1. \A d \in Cameras : reg[d] # None => reg[d] \in Gens
      BY DEF Shapes
    <3> QED BY <2>4, <2>7, <2>8, <3>1 DEF HolderInv, RegisteredIsRunning
  <2>11. NoOrphanPipeline'
    BY <2>2, <2>5, <2>7 DEF HolderInv, NoOrphanPipeline
  <2> QED BY <2>1, <2>9, <2>10, <2>11 DEF HolderInv
<1> QED BY <1>1, <1>2

(* A pipeline is started under a name nothing holds.                        *)
LEMMA StartStep ==
    ASSUME Shapes, HolderInv, NEW a \in Agents, EnsureStarts(a)
    PROVE  HolderInv'
<1>1. PICK g \in Gens :
        /\ Unused(g)
        /\ life' = [life EXCEPT ![g] = "up"]
        /\ job' = [job EXCEPT ![a].gen = g]
  BY DEF EnsureStarts, StartPipeline
<1>2. pc[a] = "ensure" /\ Goto(a, "register") /\ reg' = reg
  BY DEF EnsureStarts, StartPipeline
<1>3. /\ pc'[a] = "register" /\ \A b \in Agents \ {a} : pc'[b] = pc[b]
      /\ job'[a].gen = g /\ job'[a].cam = job[a].cam
      /\ \A b \in Agents \ {a} : job'[b] = job[b]
      /\ \A h \in Gens : life'[h] = IF h = g THEN "up" ELSE life[h]
  BY <1>1, <1>2 DEF Shapes, Goto
<1>4. life[g] = "stopped" /\ Registered' = Registered
  BY <1>1, <1>2 DEF Unused, Registered
<1>5. g \notin Registered
  BY <1>4 DEF Registered, HolderInv, RegisteredIsRunning
<1>6. \A b \in Agents : pc[b] = "register" => job[b].gen # g
  BY <1>4 DEF HolderInv, StartedByOne
<1>7. JobsHaveCameras'
  BY <1>2, <1>3 DEF HolderInv, JobsHaveCameras
<1>8. StartedByOne'
  <2> SUFFICES ASSUME NEW b \in Agents, pc'[b] = "register"
               PROVE  /\ job'[b].gen \in Gens \ Registered'
                      /\ life'[job'[b].gen] \in {"up", "dead"}
                      /\ \A d \in Agents : pc'[d] = "register" /\ job'[d].gen = job'[b].gen
                                              => b = d
    BY DEF StartedByOne
  <2>1. CASE b = a
    BY <1>3, <1>4, <1>5, <1>6, <2>1
  <2>2. CASE b # a
    <3>1. pc[b] = "register" /\ job'[b] = job[b] /\ job[b].gen \in Gens \ Registered
      BY <1>3, <2>2 DEF HolderInv, StartedByOne
    <3>2. job[b].gen # g /\ life[job[b].gen] \in {"up", "dead"}
      BY <1>6, <3>1 DEF HolderInv, StartedByOne
    <3>3. \A d \in Agents : pc'[d] = "register" /\ job'[d].gen = job[b].gen => b = d
      BY <1>3, <3>1, <3>2 DEF HolderInv, StartedByOne
    <3> QED BY <1>3, <1>4, <3>1, <3>2, <3>3
  <2> QED BY <2>1, <2>2
<1>9. RegisteredIsRunning'
  <2>1. \A c \in Cameras : reg[c] # None => reg[c] \in Gens /\ reg[c] # g
    BY <1>5 DEF Shapes, Registered
  <2> QED BY <1>2, <1>3, <2>1 DEF HolderInv, RegisteredIsRunning
<1>10. NoOrphanPipeline'
  <2> SUFFICES ASSUME NEW h \in Gens, life'[h] \in {"up", "dead"}, h # g
               PROVE  h \in Registered' \/ \E b \in Agents : pc'[b] = "register" /\ job'[b].gen = h
    BY <1>3 DEF NoOrphanPipeline
  <2>1. h \in Registered \/ \E b \in Agents : pc[b] = "register" /\ job[b].gen = h
    BY <1>3 DEF HolderInv, NoOrphanPipeline
  <2> QED BY <1>2, <1>3, <1>4, <2>1
<1> QED BY <1>7, <1>8, <1>9, <1>10 DEF HolderInv

(* The second critical section of ensure_live_pipeline: the pipeline is     *)
(* registered, or stopped because another one is.                           *)
LEMMA RegisterStep ==
    ASSUME Shapes, HolderInv, NEW a \in Agents, Register(a)
    PROVE  HolderInv'
<1> DEFINE c == job[a].cam  g == job[a].gen
<1>1. /\ pc[a] = "register" /\ Return(a, TRUE)
      /\ reg[c] = None => reg' = [reg EXCEPT ![c] = g] /\ life' = life
      /\ reg[c] # None => StopPipeline(g) /\ reg' = reg
  BY DEF Register
<1>2. /\ \A b \in Agents : b # a => pc'[b] = pc[b] /\ job'[b] = job[b]
      /\ pc'[a] \in {"attach", "idle", "startall"}
      /\ pc'[a] = "attach" => job'[a].cam = c
  BY <1>1, ReturnShapes
<1>3. /\ c \in Cameras /\ g \in Gens /\ g \notin Registered /\ g # None
      /\ life[g] \in {"up", "dead"}
      /\ \A b \in Agents : pc[b] = "register" /\ job[b].gen = g => b = a
  BY <1>1, ActorsAssumption DEF HolderInv, JobsHaveCameras, StartedByOne
<1> HIDE DEF c, g
<1>4. JobsHaveCameras'
  BY <1>2, <1>3 DEF HolderInv, JobsHaveCameras
<1>5. \A b \in Agents : pc'[b] = "register" =>
          b # a /\ pc[b] = "register" /\ job'[b] = job[b] /\ job[b].gen # g
  BY <1>2, <1>3
<1>6. CASE reg[c] = None
  <2>1. /\ life' = life
        /\ \A d \in Cameras : reg'[d] = IF d = c THEN g ELSE reg[d]
    BY <1>1, <1>6 DEF Shapes
  <2>2. Registered' = Registered \cup {g}
    BY <1>3, <1>6, <2>1 DEF Registered
  <2>3. StartedByOne'
    BY <1>5, <2>1, <2>2 DEF HolderInv, StartedByOne
  <2>4. RegisteredIsRunning'
    <3>1. \A d \in Cameras : reg[d] # g
      BY <1>3 DEF Registered
    <3> QED BY <1>3, <2>1, <3>1 DEF HolderInv, RegisteredIsRunning
  <2>5. NoOrphanPipeline'
    <3> SUFFICES ASSUME NEW h \in Gens, life[h] \in {"up", "dead"}, h # g
                 PROVE  h \in Registered \/ \E b \in Agents : pc'[b] = "register" /\ job'[b].gen = h
      BY <2>1, <2>2 DEF NoOrphanPipeline
    <3>1. h \in Registered \/ \E b \in Agents : pc[b] = "register" /\ job[b].gen = h
      BY DEF HolderInv, NoOrphanPipeline
    <3>2. \A b \in Agents : pc[b] = "register" /\ job[b].gen = h => b # a
      BY DEF g
    <3> QED BY <1>2, <3>1, <3>2
  <2> QED BY <1>4, <2>3, <2>4, <2>5 DEF HolderInv
<1>7. CASE reg[c] # None
  <2>1. /\ reg' = reg /\ Registered' = Registered
        /\ \A h \in Gens : life'[h] = IF h = g THEN "stopped" ELSE life[h]
    BY <1>1, <1>7 DEF StopPipeline, Shapes, Registered
  <2>2. StartedByOne'
    BY <1>5, <2>1 DEF HolderInv, StartedByOne
  <2>3. RegisteredIsRunning'
    <3>1. \A d \in Cameras : reg[d] # None => reg[d] \in Gens /\ reg[d] # g
      BY <1>3 DEF Registered, Shapes
    <3> QED BY <2>1, <3>1 DEF HolderInv, RegisteredIsRunning
  <2>4. NoOrphanPipeline'
    <3> SUFFICES ASSUME NEW h \in Gens, life[h] \in {"up", "dead"}, h # g
                 PROVE  h \in Registered \/ \E b \in Agents : pc'[b] = "register" /\ job'[b].gen = h
      BY <2>1 DEF NoOrphanPipeline
    <3>1. h \in Registered \/ \E b \in Agents : pc[b] = "register" /\ job[b].gen = h
      BY DEF HolderInv, NoOrphanPipeline
    <3>2. \A b \in Agents : pc[b] = "register" /\ job[b].gen = h => b # a
      BY DEF g
    <3> QED BY <1>2, <3>1, <3>2
  <2> QED BY <1>4, <2>2, <2>3, <2>4 DEF HolderInv
<1> QED BY <1>6, <1>7

(* _cleanup_stream, in whichever thread.                                    *)
Cleans ==
    /\ \E c \in Cameras : Cleanup(c)
    /\ UNCHANGED watch
    /\ Stays \/ \E x \in Agents : Moves(x)

(* A step in which nothing starts, stops, dies or is registered: then       *)
(* viewers come or go, or the counts stay as they are.                      *)
Quiet ==
    /\ UNCHANGED <<reg, life>>
    /\ Stays \/ \E x \in Agents : Moves(x)
    /\ \/ Attach \/ UNCHANGED <<conns, lost, watch>>
       \/ \E v \in Viewers : Vanish(v) \/ Leave(v)

(* What the proofs need to know of a step.                                  *)
LEMMA StepKinds ==
    ASSUME Shapes, HolderInv, [Next]_vars
    PROVE  \/ Quiet \/ Cleans
           \/ \E a \in Agents : EnsureStarts(a) \/ Register(a)
           \/ \E g \in Gens : CaptureDies(g)
<1> USE AgentsAre
<1>0. JobsHaveCameras
  BY DEF HolderInv
<1>1. ASSUME NEW a \in Agents, EnsureReuse(a) \/ EnsureRefuse(a) \/ EnsureFails(a) PROVE Quiet
  <2>1. /\ pc[a] = "ensure" /\ UNCHANGED <<reg, life, conns, lost, watch>>
        /\ Return(a, TRUE) \/ Return(a, FALSE)
    BY <1>1 DEF EnsureReuse, EnsureRefuse, EnsureFails, metaVars
  <2>2. Moves(a)
    BY <1>0, <2>1, ReturnMoves
  <2> QED BY <2>1, <2>2 DEF Quiet
<1>2. ASSUME NEW c \in Cameras, OpenStream(c) PROVE Quiet
  <2>1. Moves(Loop)
    BY <1>0, <1>2, LoopMoves
  <2> QED BY <1>2, <2>1 DEF OpenStream, metaVars, Quiet
<1>3. ASSUME NEW c \in Cameras, SweepOne(c) PROVE Cleans
  <2>1. Moves(Loop)
    BY <1>0, <1>3, LoopMoves
  <2> QED BY <1>3, <2>1 DEF SweepOne, Cleans
<1>4. ASSUME NEW c \in Cameras, Reload(c) PROVE Cleans
  BY <1>4 DEF Reload, Stays, Cleans
<1>5. ASSUME Attach PROVE Quiet
  <2>1. Moves(Loop)
    BY <1>0, <1>5, LoopMoves
  <2>2. UNCHANGED <<reg, life>>
    BY <1>5 DEF Attach
  <2> QED BY <1>5, <2>1, <2>2 DEF Quiet
<1>6. ASSUME NewRound PROVE Quiet
  BY <1>6 DEF NewRound, Stays, Quiet, metaVars
<1>7. ASSUME (\E c \in Cameras : Visit(c)) \/ Check PROVE Quiet
  <2>1. UNCHANGED <<reg, life, conns, lost, watch>>
    BY <1>7 DEF Visit, Check, metaVars
  <2>2. Stays \/ Moves(Sup)
    BY <1>0, <1>7, SupMoves
  <2> QED BY <2>1, <2>2 DEF Quiet
<1>8. ASSUME NEW o \in Operators,
             \/ FleetOn(o) \/ FleetOff(o)
             \/ \E c \in Cameras : CameraOn(o, c) \/ CameraOff(o, c)
             \/ \E c \in Cameras : StartNext(o, c) \/ ClearOne(o, c)
             \/ Snapshot(o)
      PROVE  Quiet
  <2>1. UNCHANGED <<reg, life, conns, lost, watch>>
    BY <1>8 DEF FleetOn, FleetOff, CameraOn, CameraOff, StopThose, StartNext, ClearOne,
                Snapshot, metaVars
  <2>2. Moves(o)
    BY <1>0, <1>8, OperatorMoves
  <2> QED BY <2>1, <2>2 DEF Quiet
<1>9. ASSUME NEW o \in Operators, PopOne(o) PROVE Cleans
  <2>1. Cleanup(job[o].cam) /\ job[o].cam \in Cameras /\ UNCHANGED watch
    BY <1>0, <1>9 DEF PopOne, JobsHaveCameras
  <2>2. Moves(o)
    BY <1>0, <1>9, OperatorMoves
  <2> QED BY <2>1, <2>2 DEF Cleans
<1>10. ASSUME NEW v \in Viewers, Vanish(v) \/ Leave(v) PROVE Quiet
  <2>1. UNCHANGED <<reg, life, pc, job>>
    BY <1>10 DEF Vanish, Leave
  <2> QED BY <1>10, <2>1 DEF Stays, Quiet
<1>11. ASSUME NEW g \in Gens, GoIdle(g) PROVE Quiet
  BY <1>11 DEF GoIdle, Stays, Quiet
<1>12. ASSUME UNCHANGED vars PROVE Quiet
  BY <1>12 DEF vars, Stays, Quiet, metaVars
<1> QED
  BY <1>1, <1>2, <1>3, <1>4, <1>5, <1>6, <1>7, <1>8, <1>9, <1>10, <1>11, <1>12
  DEF Next, EventLoop, Supervisor, Operator, Ensure

(* Every step of every thread keeps who holds what.                         *)
LEMMA HolderStep == Shapes /\ HolderInv /\ [Next]_vars => HolderInv'
<1> SUFFICES ASSUME Shapes, HolderInv, [Next]_vars PROVE HolderInv'
  OBVIOUS
<1>1. ASSUME Quiet PROVE HolderInv'
  BY <1>1, QuietStep DEF Quiet
<1>2. ASSUME Cleans PROVE HolderInv'
  BY <1>2, CleanupStep DEF Cleans
<1>3. ASSUME NEW g \in Gens, CaptureDies(g) PROVE HolderInv'
  <2>1. /\ UNCHANGED <<reg, pc, job>> /\ life[g] = "up" /\ Registered' = Registered
        /\ \A h \in Gens : life'[h] = IF h = g THEN "dead" ELSE life[h]
    BY <1>3 DEF CaptureDies, Shapes, Registered
  <2>2. JobsHaveCameras' /\ StartedByOne'
    BY <2>1 DEF HolderInv, JobsHaveCameras, StartedByOne
  <2>3. RegisteredIsRunning'
    <3>1. \A d \in Cameras : reg[d] # None => reg[d] \in Gens
      BY DEF Shapes
    <3> QED BY <2>1, <3>1 DEF HolderInv, RegisteredIsRunning
  <2>4. NoOrphanPipeline'
    BY <2>1 DEF HolderInv, NoOrphanPipeline
  <2> QED BY <2>2, <2>3, <2>4 DEF HolderInv
<1> QED BY <1>1, <1>2, <1>3, StepKinds, StartStep, RegisterStep

(* HolderInv throughout: an agent about to register a pipeline is its only  *)
(* holder, whatever sweeps, reloads and toggles do meanwhile.               *)
THEOREM OneHolder == Spec => [](Shapes /\ HolderInv)
<1>1. Init => Shapes /\ HolderInv
  <2> SUFFICES ASSUME Init PROVE Shapes /\ HolderInv
    OBVIOUS
  <2>1. Shapes
    <3>1. NoJob \in JobShape /\ NotWatching \in [cam : Cameras \cup {None}, gen : Gens \cup {None}]
      BY DEF NoJob, JobShape, NotWatching
    <3> QED BY <3>1, ActorsAssumption DEF Init, Shapes, JobShape
  <2>2. HolderInv
    BY DEF Init, HolderInv, JobsHaveCameras, StartedByOne, RegisteredIsRunning, NoOrphanPipeline
  <2> QED BY <2>1, <2>2
<1>2. HolderInv => JobsHaveCameras
  BY DEF HolderInv
<1> QED BY <1>1, <1>2, ShapesStep, HolderStep, PTL DEF Spec

(* NoOrphanPipeline for all cameras, agents and viewers: a pipeline whose   *)
(* stop event is not set is in _streams or on its way there.                *)
THEOREM PipelinesDoNotLeak == Spec => []NoOrphanPipeline
<1>1. HolderInv => NoOrphanPipeline
  BY DEF HolderInv
<1> QED BY <1>1, OneHolder, PTL

(* RegisteredIsRunning for all cameras, agents and viewers: _streams never  *)
(* hands out a pipeline with its stop event set, nor one pipeline twice.    *)
THEOREM RegistryIsSound == Spec => []RegisteredIsRunning
<1>1. HolderInv => RegisteredIsRunning
  BY DEF HolderInv
<1> QED BY <1>1, OneHolder, PTL

----------------------------------------------------------------------------
(* The cap.                                                                *)

Registering == {a \in Agents : pc[a] = "register"}

R == Cardinality(Registered)
P == Cardinality(Registering)
A == Cardinality(Agents)

(* There are finitely many agents.                                          *)
LEMMA AgentsFinite == IsFiniteSet(Agents) /\ A \in Nat
<1>1. IsFiniteSet({Loop} \cup {Sup})
  BY FS_Singleton, FS_AddElement
<1>2. {Loop, Sup} = {Loop} \cup {Sup}
  OBVIOUS
<1>3. IsFiniteSet(Agents)
  BY <1>1, <1>2, FS_Union, FiniteAssumption DEF Agents
<1> QED BY <1>3, FS_CardinalityType DEF A

(* Both counts of CapOvershootBounded are of finite sets.                   *)
LEMMA CapFinite ==
    ASSUME Shapes
    PROVE  /\ IsFiniteSet(Registered) /\ Cardinality(Registered) \in Nat
           /\ \A T \in SUBSET Agents :
                 IsFiniteSet(T) /\ Cardinality(T) \in Nat /\ Cardinality(T) <= Cardinality(Agents)
<1>1. reg \in Surjection(Cameras, {reg[c] : c \in Cameras})
  BY DEF Shapes, Surjection
<1>2. IsFiniteSet({reg[c] : c \in Cameras})
  BY <1>1, FS_Surjection, FiniteAssumption
<1>3. IsFiniteSet(Registered)
  BY <1>2, FS_RemoveElement DEF Registered
<1> QED BY <1>3, AgentsFinite, FS_CardinalityType, FS_Subset

(* The three ways the sum of two counts stays within a bound.               *)
LEMMA SumStays ==
    ASSUME NEW r \in Nat, NEW p \in Nat, NEW r2 \in Nat, NEW p2 \in Nat,
           NEW m \in Nat, NEW n \in Nat, r + p <= m + n - 1
    PROVE  /\ r2 <= r /\ p2 = p => r2 + p2 <= m + n - 1
           /\ r2 = r /\ r < m /\ p2 <= n => r2 + p2 <= m + n - 1
           /\ r2 <= r + 1 /\ p2 = p - 1 => r2 + p2 <= m + n - 1
OBVIOUS

(* One step of any thread keeps the bound: who passes the cap's check adds  *)
(* one to those about to register, who are no more than all agents.         *)
LEMMA CapStep ==
    Shapes /\ Shapes' /\ HolderInv /\ CapOvershootBounded /\ [Next]_vars => CapOvershootBounded'
<1> SUFFICES ASSUME Shapes, Shapes', HolderInv, CapOvershootBounded, [Next]_vars
             PROVE  CapOvershootBounded'
  OBVIOUS
<1>0. /\ R \in Nat /\ P \in Nat /\ A \in Nat /\ R' \in Nat /\ P' \in Nat /\ P' <= A
      /\ IsFiniteSet(Registered) /\ IsFiniteSet(Registering) /\ MaxStreams \in Nat
      /\ R + P <= MaxStreams + A - 1
  <2>1. Registering \in SUBSET Agents /\ Registering' \in SUBSET Agents
    BY DEF Registering
  <2>2. R' \in Nat
    <3>1. /\ reg' \in [Cameras -> Gens \cup {None}]
      BY DEF Shapes
    <3>2. reg' \in Surjection(Cameras, {reg'[c] : c \in Cameras})
      BY <3>1 DEF Surjection
    <3>3. IsFiniteSet({reg'[c] : c \in Cameras})
      BY <3>2, FS_Surjection, FiniteAssumption
    <3> QED BY <3>3, FS_RemoveElement, FS_CardinalityType DEF Registered, R
  <2> QED BY <2>1, <2>2, CapFinite, ActorsAssumption DEF CapOvershootBounded, Registering, R, P, A
<1>a. /\ R' <= R /\ P' = P => R' + P' <= MaxStreams + A - 1
      /\ R' = R /\ R < MaxStreams /\ P' <= A => R' + P' <= MaxStreams + A - 1
      /\ R' <= R + 1 /\ P' = P - 1 => R' + P' <= MaxStreams + A - 1
  <2>1. /\ R \in Nat /\ P \in Nat /\ A \in Nat /\ R' \in Nat /\ P' \in Nat
        /\ MaxStreams \in Nat /\ R + P <= MaxStreams + A - 1
    BY <1>0
  <2> QED BY <2>1, SumStays, Zenon
<1>1. SUFFICES R' + P' <= MaxStreams + A - 1
  BY DEF CapOvershootBounded, Registering, R, P, A
<1>2. ASSUME Registered' \subseteq Registered, Registering' = Registering
      PROVE  R' + P' <= MaxStreams + A - 1
  <2>1. R' <= R
    BY <1>0, <1>2, FS_Subset DEF R
  <2>2. P' = P
    BY <1>2 DEF P
  <2> QED BY <1>a, <2>1, <2>2, Zenon
<1>3. ASSUME Stays \/ \E x \in Agents : Moves(x) PROVE Registering' = Registering
  BY <1>3 DEF Stays, Moves, Registering
<1>4. CASE Quiet
  BY <1>2, <1>3, <1>4 DEF Quiet, Registered
<1>5. CASE Cleans
  <2>1. Registered' \subseteq Registered
    BY <1>5 DEF Cleans, Cleanup, Registered, Shapes
  <2> QED BY <1>2, <1>3, <1>5, <2>1 DEF Cleans
<1>6. ASSUME NEW g \in Gens, CaptureDies(g) PROVE R' + P' <= MaxStreams + A - 1
  BY <1>2, <1>6 DEF CaptureDies, Registered, Registering
<1>7. ASSUME NEW a \in Agents, EnsureStarts(a) PROVE R' + P' <= MaxStreams + A - 1
  <2>1. reg' = reg /\ R < MaxStreams
    BY <1>7 DEF EnsureStarts, StartPipeline, R
  <2>2. R' = R
    BY <2>1 DEF Registered, R
  <2>3. P' <= A
    BY <1>0
  <2> QED BY <1>a, <2>1, <2>2, <2>3, Zenon
<1>8. ASSUME NEW a \in Agents, Register(a) PROVE R' + P' <= MaxStreams + A - 1
  <2>1. /\ pc[a] = "register" /\ Return(a, TRUE)
        /\ reg' = reg \/ reg' = [reg EXCEPT ![job[a].cam] = job[a].gen]
    BY <1>8 DEF Register
  <2>2. Registering' = Registering \ {a} /\ a \in Registering
    BY <2>1, ReturnShapes DEF Registering
  <2>3. P' = P - 1
    BY <1>0, <2>2, FS_RemoveElement DEF P
  <2>4. Registered' \subseteq Registered \cup {job[a].gen}
    BY <2>1 DEF Registered, Shapes
  <2>5. R' <= R + 1
    <3>1. /\ IsFiniteSet(Registered \cup {job[a].gen})
          /\ Cardinality(Registered \cup {job[a].gen}) \in {R, R + 1}
      BY <1>0, FS_AddElement DEF R
    <3>2. R' <= Cardinality(Registered \cup {job[a].gen})
      BY <2>4, <3>1, FS_Subset DEF R
    <3> QED BY <1>0, <3>1, <3>2
  <2> QED BY <1>a, <2>3, <2>5, Zenon
<1> QED BY <1>4, <1>5, <1>6, <1>7, <1>8, StepKinds

(* CapOvershootBounded for all numbers of cameras and agents: the check of  *)
(* get_max_streams() before the start, and not at the registration, lets in *)
(* at most one pipeline for every other agent.                              *)
THEOREM CapIsNearlyKept == Spec => []CapOvershootBounded
<1>1. Init => CapOvershootBounded
  <2> SUFFICES ASSUME Init PROVE CapOvershootBounded
    OBVIOUS
  <2>1. Registered = {} /\ Registering = {}
    BY DEF Init, Registered, Registering
  <2>2. R = 0 /\ P = 0
    BY <2>1, FS_EmptySet DEF R, P
  <2> QED BY <2>2, AgentsFinite, ActorsAssumption DEF CapOvershootBounded, Registering, R, P, A
<1> QED BY <1>1, CapStep, OneHolder, PTL DEF Spec

----------------------------------------------------------------------------
(* Counting viewers.                                                       *)

(* The viewers of a pipeline are as many as a number says.                  *)
LEMMA WatchingFinite ==
    ASSUME NEW g
    PROVE  /\ IsFiniteSet(Watching(g)) /\ Cardinality(Watching(g)) \in Nat
           /\ Cardinality(Watching(g)) <= Cardinality(Viewers)
BY FS_Subset, FS_CardinalityType, FiniteAssumption DEF Watching

(* A step that leaves the viewers where they are, stops no pipeline without *)
(* clearing its count, and moves no camera away from one that runs.         *)
LEMMA UnwatchedStep ==
    ASSUME CountsInv, watch' = watch,
           \A g \in Gens :
              /\ life'[g] = "stopped" => conns'[g] = 0
              /\ conns'[g] = 0 \/ (conns'[g] = conns[g] /\ lost'[g] = lost[g])
              /\ lost'[g] \in Nat,
           \A v \in Viewers : watch[v] # NotWatching /\ life'[watch[v].gen] # "stopped" =>
              life[watch[v].gen] # "stopped" /\ reg'[watch[v].cam] = reg[watch[v].cam]
    PROVE  CountsInv'
<1>1. WatchedIsRegistered'
  BY DEF CountsInv, WatchedIsRegistered
<1>2. StoppedIsUncounted'
  BY DEF StoppedIsUncounted
<1>3. ASSUME NEW g \in Gens PROVE conns'[g] <= Cardinality(Watching(g)') + lost'[g]
  <2>1. Watching(g)' = Watching(g)
    BY DEF Watching
  <2>2. conns[g] <= Cardinality(Watching(g)) + lost[g] /\ Cardinality(Watching(g)) \in Nat
    BY WatchingFinite DEF CountsInv
  <2>3. /\ conns'[g] = 0 \/ (conns'[g] = conns[g] /\ lost'[g] = lost[g])
        /\ lost'[g] \in Nat
    OBVIOUS
  <2> QED BY <2>1, <2>2, <2>3
<1> QED BY <1>1, <1>2, <1>3 DEF CountsInv

(* A generator counted by _stream_generator's first section.                *)
LEMMA AttachStep ==
    ASSUME Shapes, HolderInv, CountsInv, Attach, UNCHANGED <<reg, life>>
    PROVE  CountsInv'
<1> DEFINE c == job[Loop].cam  g == reg[c]
<1>0. c \in Cameras /\ g \in Gens \cup {None}
  BY AgentsAre DEF Attach, HolderInv, JobsHaveCameras, Shapes
<1>1. CASE g = None
  <2>1. UNCHANGED <<conns, lost, watch>>
    BY <1>1 DEF Attach
  <2> QED BY <2>1, UnwatchedStep DEF CountsInv, StoppedIsUncounted, Shapes
<1>2. CASE g # None
  <2>1. PICK v \in Viewers :
          /\ watch[v] = NotWatching
          /\ watch' = [watch EXCEPT ![v] = [cam |-> c, gen |-> g]]
          /\ conns' = [conns EXCEPT ![g] = @ + 1]
          /\ lost' = lost
    BY <1>2 DEF Attach
  <2>2. g \in Gens /\ life[g] # "stopped"
    BY <1>0, <1>2 DEF HolderInv, RegisteredIsRunning
  <2> HIDE DEF g, c
  <2>3. \A u \in Viewers : watch'[u] = IF u = v THEN [cam |-> c, gen |-> g] ELSE watch[u]
    BY <2>1 DEF Shapes
  <2>4. \A h \in Gens : conns'[h] = IF h = g THEN conns[g] + 1 ELSE conns[h]
    BY <2>1, <2>2 DEF Shapes
  <2>5. WatchedIsRegistered'
    <3>1. reg'[c] = g
      BY DEF g
    <3> QED BY <1>0, <2>2, <2>3, <3>1 DEF CountsInv, WatchedIsRegistered
  <2>6. StoppedIsUncounted'
    BY <2>2, <2>4 DEF CountsInv, StoppedIsUncounted
  <2>7. ASSUME NEW h \in Gens PROVE conns'[h] <= Cardinality(Watching(h)') + lost'[h]
    <3>1. conns[h] \in Nat /\ conns[h] <= Cardinality(Watching(h)) + lost[h] /\ lost'[h] \in Nat
          /\ lost'[h] = lost[h]
          /\ IsFiniteSet(Watching(h)) /\ Cardinality(Watching(h)) \in Nat
      BY <2>1, WatchingFinite DEF CountsInv, Shapes
    <3>2. CASE h = g
      <4>1. Watching(h)' = Watching(h) \cup {v}
        BY <2>3, <3>2 DEF Watching
      <4>2. v \notin Watching(h)
        BY <2>1, ActorsAssumption DEF Watching, NotWatching
      <4>3. Cardinality(Watching(h)') = Cardinality(Watching(h)) + 1
        BY <3>1, <4>1, <4>2, FS_AddElement
      <4>4. conns'[h] = conns[h] + 1
        BY <2>4, <3>2
      <4> QED BY <3>1, <4>3, <4>4
    <3>3. CASE h # g
      <4>1. Watching(h)' = Watching(h)
        BY <2>1, <2>3, <3>3, ActorsAssumption DEF Watching, NotWatching
      <4>2. conns'[h] = conns[h]
        BY <2>4, <3>3
      <4> QED BY <3>1, <4>1, <4>2
    <3> QED BY <3>2, <3>3
  <2> QED BY <2>5, <2>6, <2>7 DEF CountsInv
<1> QED BY <1>1, <1>2

(* A generator's finally clause: what it discounts is what it was counted   *)
(* on, or that was stopped and counts nobody.                               *)
LEMMA LeaveStep ==
    ASSUME Shapes, HolderInv, CountsInv, NEW v \in Viewers, Leave(v)
    PROVE  CountsInv'
<1> DEFINE d == watch[v].cam  h == watch[v].gen  g == reg[d]
<1>1. /\ watch[v] # NotWatching /\ UNCHANGED <<reg, life>>
      /\ watch' = [watch EXCEPT ![v] = NotWatching]
      /\ g = None => conns' = conns
      /\ g # None => conns' = [conns EXCEPT ![g] = IF @ > 0 THEN @ - 1 ELSE 0]
  BY DEF Leave
<1>2. d \in Cameras /\ h \in Gens /\ (life[h] # "stopped" => g = h)
  BY <1>1 DEF CountsInv, WatchedIsRegistered
<1>3. g \in Gens \cup {None}
  BY <1>2 DEF Shapes
<1>4. g # h => conns[h] = 0
  BY <1>2 DEF CountsInv, StoppedIsUncounted
<1> HIDE DEF d, h, g
<1>5. \A u \in Viewers : watch'[u] = IF u = v THEN NotWatching ELSE watch[u]
  BY <1>1 DEF Shapes
<1>6. \A k \in Gens : /\ k # g => conns'[k] = conns[k]
                      /\ k = g /\ conns[k] > 0 => conns'[k] = conns[k] - 1
                      /\ k = g /\ ~ conns[k] > 0 => conns'[k] = 0
  BY <1>1, <1>3, ActorsAssumption DEF Shapes
<1>7. WatchedIsRegistered'
  BY <1>1, <1>5 DEF CountsInv, WatchedIsRegistered
<1>8. StoppedIsUncounted'
  <2> SUFFICES ASSUME NEW k \in Gens, life[k] = "stopped" PROVE conns'[k] = 0
    BY <1>1 DEF StoppedIsUncounted
  <2>1. conns[k] = 0
    BY DEF CountsInv, StoppedIsUncounted
  <2> QED BY <1>6, <2>1
<1>9. ASSUME NEW k \in Gens PROVE conns'[k] <= Cardinality(Watching(k)') + lost'[k]
  <2>1. conns[k] \in Nat /\ conns[k] <= Cardinality(Watching(k)) + lost[k] /\ lost[k] \in Nat
        /\ lost' = lost
        /\ IsFiniteSet(Watching(k)) /\ Cardinality(Watching(k)) \in Nat
    BY WatchingFinite DEF CountsInv, Shapes, Leave
  <2>2. CASE k = h
    <3>1. Watching(k)' = Watching(k) \ {v} /\ v \in Watching(k)
      BY <1>2, <1>5, <2>2, ActorsAssumption DEF Watching, NotWatching, h
    <3>2. Cardinality(Watching(k)') = Cardinality(Watching(k)) - 1
      BY <2>1, <3>1, FS_RemoveElement
    <3>3. Cardinality(Watching(k)) # 0
      BY <2>1, <3>1, FS_EmptySet
    <3>4. CASE k = g /\ conns[k] > 0
      <4>1. conns'[k] = conns[k] - 1
        BY <1>6, <3>4
      <4> QED BY <2>1, <3>2, <4>1
    <3>5. CASE ~ (k = g /\ conns[k] > 0)
      <4>1. conns'[k] = 0
        BY <1>4, <1>6, <2>1, <2>2, <3>5
      <4> QED BY <2>1, <3>2, <3>3, <4>1
    <3> QED BY <3>4, <3>5
  <2>3. CASE k # h
    <3>1. Watching(k)' = Watching(k)
      BY <1>5, <2>3, ActorsAssumption DEF Watching, NotWatching, h
    <3>2. conns'[k] <= conns[k]
      BY <1>6, <2>1
    <3>3. conns'[k] \in Nat
      BY <1>6, <2>1
    <3> QED BY <2>1, <3>1, <3>2, <3>3
  <2> QED BY <2>2, <2>3
<1> QED BY <1>7, <1>8, <1>9 DEF CountsInv

(* A client that goes before its generator begins leaves its count behind,  *)
(* on a pipeline that runs; a stopped one counts nobody.                    *)
LEMMA VanishStep ==
    ASSUME Shapes, CountsInv, NEW v \in Viewers, Vanish(v)
    PROVE  CountsInv'
<1> DEFINE h == watch[v].gen
<1>1. /\ watch[v] # NotWatching /\ UNCHANGED <<reg, life, conns>>
      /\ watch' = [watch EXCEPT ![v] = NotWatching]
      /\ life[h] = "stopped" => lost' = lost
      /\ life[h] # "stopped" => lost' = [lost EXCEPT ![h] = @ + 1]
  BY DEF Vanish
<1>2. h \in Gens
  BY <1>1 DEF CountsInv, WatchedIsRegistered
<1> HIDE DEF h
<1>3. \A u \in Viewers : watch'[u] = IF u = v THEN NotWatching ELSE watch[u]
  BY <1>1 DEF Shapes
<1>4. WatchedIsRegistered' /\ StoppedIsUncounted'
  BY <1>1, <1>3 DEF CountsInv, WatchedIsRegistered, StoppedIsUncounted
<1>5. ASSUME NEW k \in Gens PROVE conns'[k] <= Cardinality(Watching(k)') + lost'[k]
  <2>1. /\ conns[k] \in Nat /\ conns[k] <= Cardinality(Watching(k)) + lost[k] /\ lost[k] \in Nat
        /\ IsFiniteSet(Watching(k)) /\ Cardinality(Watching(k)) \in Nat
    BY WatchingFinite DEF CountsInv, Shapes
  <2>2. conns'[k] = conns[k]
    BY <1>1
  <2>3. CASE k = h
    <3>1. Watching(k)' = Watching(k) \ {v} /\ v \in Watching(k)
      BY <1>2, <1>3, <2>3, ActorsAssumption DEF Watching, NotWatching, h
    <3>2. Cardinality(Watching(k)') = Cardinality(Watching(k)) - 1
      BY <2>1, <3>1, FS_RemoveElement
    <3>3. Cardinality(Watching(k)) # 0
      BY <2>1, <3>1, FS_EmptySet
    <3>4. CASE life[h] = "stopped"
      <4>1. conns[k] = 0 /\ lost'[k] = lost[k]
        BY <1>1, <2>3, <3>4 DEF CountsInv, StoppedIsUncounted
      <4> QED BY <2>1, <2>2, <3>2, <3>3, <4>1
    <3>5. CASE life[h] # "stopped"
      <4>1. lost'[k] = lost[k] + 1
        BY <1>1, <2>3, <3>5 DEF Shapes
      <4> QED BY <2>1, <2>2, <3>2, <4>1
    <3> QED BY <3>4, <3>5
  <2>4. CASE k # h
    <3>1. Watching(k)' = Watching(k)
      BY <1>3, <2>4, ActorsAssumption DEF Watching, NotWatching, h
    <3>2. lost'[k] = lost[k]
      BY <1>1, <1>2, <2>4 DEF Shapes
    <3> QED BY <2>1, <2>2, <3>1, <3>2
  <2> QED BY <2>3, <2>4
<1> QED BY <1>4, <1>5 DEF CountsInv

(* Every step keeps the counts.                                             *)
LEMMA CountsStep == Shapes /\ HolderInv /\ CountsInv /\ [Next]_vars => CountsInv'
<1> SUFFICES ASSUME Shapes, HolderInv, CountsInv, [Next]_vars PROVE CountsInv'
  OBVIOUS
<1>1. \A v \in Viewers : watch[v] # NotWatching =>
         /\ watch[v].cam \in Cameras /\ watch[v].gen \in Gens
         /\ life[watch[v].gen] # "stopped" => reg[watch[v].cam] = watch[v].gen
  BY DEF CountsInv, WatchedIsRegistered
<1>2. \A g \in Gens : life[g] = "stopped" => conns[g] = 0
  BY DEF CountsInv, StoppedIsUncounted
<1>0. \A g \in Gens : lost[g] \in Nat /\ lost'[g] \in Nat
  BY ShapesStep DEF HolderInv, Shapes
<1>3. ASSUME Quiet PROVE CountsInv'
  <2>1. CASE UNCHANGED <<conns, lost, watch>>
    BY <1>0, <1>2, <1>3, <2>1, UnwatchedStep DEF Quiet
  <2> QED BY <1>3, <2>1, AttachStep, LeaveStep, VanishStep DEF Quiet
<1>4. ASSUME Cleans PROVE CountsInv'
  <2>1. PICK c \in Cameras : Cleanup(c) /\ watch' = watch
    BY <1>4 DEF Cleans
  <2>2. CASE reg[c] = None
    <3>1. UNCHANGED <<reg, life, conns, lost>>
      BY <2>1, <2>2 DEF Cleanup, metaVars
    <3> QED BY <1>0, <1>2, <2>1, <3>1, UnwatchedStep
  <2>3. CASE reg[c] # None
    <3>1. /\ \A g \in Gens : life'[g] = IF g = reg[c] THEN "stopped" ELSE life[g]
          /\ \A g \in Gens : conns'[g] = IF g = reg[c] THEN 0 ELSE conns[g]
          /\ \A g \in Gens : lost'[g] = IF g = reg[c] THEN 0 ELSE lost[g]
          /\ \A d \in Cameras : reg'[d] = IF d = c THEN None ELSE reg[d]
      BY <2>1, <2>3 DEF Cleanup, StopPipeline, Shapes
    <3>2. \A g \in Gens : /\ life'[g] = "stopped" => conns'[g] = 0
                          /\ conns'[g] = 0 \/ (conns'[g] = conns[g] /\ lost'[g] = lost[g])
                          /\ lost'[g] \in Nat
      BY <1>0, <1>2, <3>1
    <3>3. \A v \in Viewers : watch[v] # NotWatching /\ life'[watch[v].gen] # "stopped" =>
             life[watch[v].gen] # "stopped" /\ reg'[watch[v].cam] = reg[watch[v].cam]
      BY <1>1, <3>1
    <3> QED BY <2>1, <3>2, <3>3, UnwatchedStep
  <2> QED BY <2>2, <2>3
<1>5. ASSUME NEW g \in Gens, CaptureDies(g) PROVE CountsInv'
  <2>1. /\ UNCHANGED <<reg, conns, lost, watch>>
        /\ \A h \in Gens : life'[h] = IF h = g THEN "dead" ELSE life[h]
        /\ life[g] = "up"
    BY <1>5 DEF CaptureDies, Shapes, metaVars
  <2> QED BY <1>0, <1>1, <1>2, <2>1, UnwatchedStep
<1>6. ASSUME NEW a \in Agents, EnsureStarts(a) PROVE CountsInv'
  <2>1. PICK g \in Gens :
          /\ \A v \in Viewers : watch[v].gen # g
          /\ life' = [life EXCEPT ![g] = "up"] /\ conns' = [conns EXCEPT ![g] = 0]
          /\ lost' = [lost EXCEPT ![g] = 0]
    BY <1>6 DEF EnsureStarts, StartPipeline, Unused
  <2>2. /\ \A h \in Gens : life'[h] = IF h = g THEN "up" ELSE life[h]
        /\ \A h \in Gens : conns'[h] = IF h = g THEN 0 ELSE conns[h]
        /\ \A h \in Gens : lost'[h] = IF h = g THEN 0 ELSE lost[h]
    BY <2>1 DEF Shapes
  <2>3. reg' = reg /\ watch' = watch
    BY <1>6 DEF EnsureStarts, StartPipeline
  <2>4. \A h \in Gens : /\ life'[h] = "stopped" => conns'[h] = 0
                        /\ conns'[h] = 0 \/ (conns'[h] = conns[h] /\ lost'[h] = lost[h])
                        /\ lost'[h] \in Nat
    BY <1>0, <1>2, <2>2
  <2>5. \A v \in Viewers : watch[v] # NotWatching /\ life'[watch[v].gen] # "stopped" =>
         life[watch[v].gen] # "stopped" /\ reg'[watch[v].cam] = reg[watch[v].cam]
    BY <1>1, <2>1, <2>2, <2>3
  <2> QED BY <2>3, <2>4, <2>5, UnwatchedStep
<1>7. ASSUME NEW a \in Agents, Register(a) PROVE CountsInv'
  <2> DEFINE c == job[a].cam  g == job[a].gen
  <2>1. /\ watch' = watch
        /\ reg[c] = None => reg' = [reg EXCEPT ![c] = g] /\ UNCHANGED <<life, conns, lost>>
        /\ reg[c] # None => StopPipeline(g) /\ reg' = reg
    BY <1>7 DEF Register, metaVars
  <2>2. c \in Cameras /\ g \in Gens
    BY <1>7 DEF Register, HolderInv, JobsHaveCameras, StartedByOne
  <2> HIDE DEF c, g
  <2>3. CASE reg[c] = None
    <3>1. \A d \in Cameras : d # c => reg'[d] = reg[d]
      BY <2>1, <2>3 DEF Shapes
    <3> QED BY <1>0, <1>1, <1>2, <2>1, <2>3, <3>1, ActorsAssumption, UnwatchedStep
  <2>4. CASE reg[c] # None
    <3>1. /\ \A h \in Gens : life'[h] = IF h = g THEN "stopped" ELSE life[h]
          /\ \A h \in Gens : conns'[h] = IF h = g THEN 0 ELSE conns[h]
          /\ \A h \in Gens : lost'[h] = IF h = g THEN 0 ELSE lost[h]
      BY <2>1, <2>2, <2>4 DEF StopPipeline, Shapes
    <3>2. \A h \in Gens : /\ life'[h] = "stopped" => conns'[h] = 0
                          /\ conns'[h] = 0 \/ (conns'[h] = conns[h] /\ lost'[h] = lost[h])
                          /\ lost'[h] \in Nat
      BY <1>0, <1>2, <3>1
    <3>3. \A v \in Viewers : watch[v] # NotWatching /\ life'[watch[v].gen] # "stopped" =>
             life[watch[v].gen] # "stopped" /\ reg'[watch[v].cam] = reg[watch[v].cam]
      BY <1>1, <2>1, <2>4, <3>1
    <3> QED BY <2>1, <3>2, <3>3, UnwatchedStep
  <2> QED BY <2>3, <2>4
<1> QED BY <1>3, <1>4, <1>5, <1>6, <1>7, StepKinds

(* CountsInv throughout: no pipeline, registered or stopped, counts more    *)
(* connections than serve it or went before their generator began.          *)
THEOREM CountsAreWatched == Spec => []CountsInv
<1>1. Init => CountsInv
  <2> SUFFICES ASSUME Init PROVE CountsInv
    OBVIOUS
  <2>1. \A g \in Gens : conns[g] = 0 /\ 0 <= Cardinality(Watching(g)) + lost[g]
    BY WatchingFinite DEF Init
  <2> QED BY <2>1 DEF Init, CountsInv, WatchedIsRegistered, StoppedIsUncounted
<1> QED BY <1>1, CountsStep, OneHolder, PTL DEF Spec

(* ConnectionsAreWatched for all cameras, agents and viewers: the only      *)
(* connections counted beyond the generators are of clients that went       *)
(* before theirs began, although the finally clause looks the pipeline up   *)
(* by camera.                                                               *)
THEOREM ConnectionsAreReal == Spec => []ConnectionsAreWatched
<1>1. Shapes /\ CountsInv => ConnectionsAreWatched
  <2> SUFFICES ASSUME Shapes, CountsInv, NEW g \in Registered
               PROVE  conns[g] <= Cardinality({v \in Viewers : watch[v].gen = g}) + lost[g]
    BY DEF ConnectionsAreWatched
  <2>1. g \in Gens
    BY DEF Registered, Shapes
  <2> QED BY <2>1 DEF CountsInv, Watching
<1> QED BY <1>1, CountsAreWatched, OneHolder, PTL

(* Type correctness, with the bound on the counts.                          *)
THEOREM PipelineTypes == Spec => []TypeOK
<1>1. Shapes /\ CountsInv => TypeOK
  <2> SUFFICES ASSUME Shapes, CountsInv, NEW g \in Gens PROVE conns[g] <= Cardinality(Viewers) + lost[g]
    BY DEF TypeOK
  <2>1. conns[g] <= Cardinality(Watching(g)) + lost[g] /\ conns[g] \in Nat /\ lost[g] \in Nat
    BY DEF CountsInv, Shapes
  <2>2. Cardinality(Viewers) \in Nat
    BY FiniteAssumption, FS_CardinalityType
  <2> QED BY <2>1, <2>2, WatchingFinite
<1> QED BY <1>1, CountsAreWatched, OneHolder, PTL
=============================================================================
