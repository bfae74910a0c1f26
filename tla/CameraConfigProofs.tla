-------------------------- MODULE CameraConfigProofs --------------------------
(***************************************************************************)
(* What TLAPS proves of CameraConfig for every number of starting threads  *)
(* and of saves: that lanes which are saved are lanes which are served,    *)
(* and that a deleted camera has no pipeline but one that crossed it.      *)
(***************************************************************************)
EXTENDS CameraConfig, TLAPS

Places == {"idle", "request", "raw", "reopen", "write", "open", "close",
           "support", "fill", "cleanup", "unlink", "load", "lanes", "install"}

Stream == [on : BOOLEAN, lanes : Lanes, from : Content, ask : BOOLEAN,
           at : {"run", "load", "lanes", "swap", "over"}, seen : Lanes,
           why : SUBSET {"late", "failed", "filled"}, crossed : BOOLEAN]

(* The threads the next-state relation names, and the first two files.      *)
LEMMA ThreadsAre ==
    /\ Loop \in Threads /\ Metrics \in Threads /\ Starters \subseteq Threads
    /\ 0 \in Lanes /\ 1 \in Lanes /\ Off \in Stream
BY ConfigAssumption DEF Threads, Lanes, Off, Stream, Content

(* A step of a thread is its own.                                           *)
LEMMA StepShapes ==
    ASSUME pc \in [Threads -> Places], NEW t \in Threads, NEW there \in Places, Goto(t, there)
    PROVE  /\ pc' \in [Threads -> Places] /\ pc'[t] = there
           /\ \A u \in Threads \ {t} : pc'[u] = pc[u]
BY DEF Goto

(* Who opens, closes and lists, and where.                                  *)
Opens(t)  == Open(t, "open", "close") \/ (t = Loop /\ Open(Loop, "reopen", "write"))
Closes(t) == Close(t, "close", "support") \/ (t = Loop /\ Close(Loop, "write", "cleanup"))
Plain(t)  == Cleanup(t, "cleanup", "idle") \/ Cleanup(t, "idle", "idle")

(* A step is one of these, of one of the threads or of the capture thread.  *)
LEMMA StepKinds ==
    ASSUME [Next]_vars
    PROVE  \/ \E t \in Threads :
                 \/ Opens(t) \/ Closes(t) \/ Plain(t)
                 \/ List(t) \/ Support(t) \/ Fill(t)
                 \/ Ensure(t) \/ Load(t) \/ LoadLanes(t) \/ Install(t)
           \/ Create \/ Save \/ Request \/ Reload \/ ReloadRaw \/ Delete \/ Unlink
           \/ Capture \/ Block \/ UNCHANGED vars
<1>1. CASE Handlers
  BY <1>1, ThreadsAre
     DEF Handlers, Lists, ReloadPlain, ReloadEnds, ReloadWrites, Opens, Closes, Plain
<1>2. CASE Lists(Metrics)
  BY <1>2, ThreadsAre DEF Lists, Opens, Closes
<1>3. CASE \E t \in Starters \cup {Loop} : Starts(t)
  BY <1>3, ThreadsAre DEF Starts
<1> QED BY <1>1, <1>2, <1>3 DEF Next

----------------------------------------------------------------------------
(* Types.                                                                  *)

(* The files stay what they may be.                                         *)
LEMMA FileTypes ==
    ASSUME TypeOK, WritersInv, [Next]_vars
    PROVE  /\ camera' \in Content /\ lanes' \in Lanes /\ saves' \in 0 .. MaxSaves
           /\ blocked' \in BOOLEAN
<1> USE DEF TypeOK
<1>1. ASSUME NEW t \in Threads, Closes(t) PROVE camera' \in Content
  <2>1. handle[t] \in {"held", "torn", "adrift"}
    BY <1>1 DEF Closes, Close, Step, At, WritersInv
  <2>2. camera' \in CASE handle[t] = "held"   -> {mem[t]}
                      [] handle[t] = "torn"   -> {mem[t], "broken"}
                      [] handle[t] = "adrift" -> {camera}
    BY <1>1 DEF Closes, Close
  <2>3. mem[t] \in Content
    OBVIOUS
  <2> QED BY <2>1, <2>2, <2>3 DEF Content
<1>2. camera' \in Content
  BY <1>1, StepKinds
     DEF Opens, Open, Plain, Cleanup, List, Support, Fill, Ensure, Load, LoadLanes, Install,
         Create, Save, Request, Reload, ReloadRaw, Delete, Unlink, Capture, HotPop, HotLoad,
         HotLanes, HotSwap, GiveUp, Block, vars, fileVars, Content
<1>3. blocked' \in BOOLEAN
  BY StepKinds
     DEF Opens, Open, Closes, Close, Plain, Cleanup, List, Support, Fill, Ensure, Load,
         LoadLanes, Install, Create, Save, Request, Reload, ReloadRaw, Delete, Unlink, Capture,
         HotPop, HotLoad, HotLanes, HotSwap, GiveUp, Block, vars, fileVars
<1>4. CASE Save
  BY <1>2, <1>3, <1>4, ConfigAssumption DEF Save, Lanes
<1>5. CASE UNCHANGED saves /\ (lanes' = lanes \/ lanes' = 0 \/ lanes' = 1)
  BY <1>2, <1>3, <1>5, ThreadsAre
<1>6. ~Save => UNCHANGED saves /\ (lanes' = lanes \/ lanes' = 0 \/ lanes' = 1)
  BY StepKinds
     DEF Opens, Open, Closes, Close, Plain, Cleanup, List, Support, Fill, Ensure, Load,
         LoadLanes, Install, Create, Request, Reload, ReloadRaw, Delete, Unlink, Capture,
         HotPop, HotLoad, HotLanes, HotSwap, GiveUp, Block, vars, fileVars
<1> QED BY <1>3, <1>4, <1>5, <1>6

(* So do what the threads hold.                                             *)
LEMMA ThreadTypes ==
    ASSUME TypeOK, [Next]_vars
    PROVE  /\ pc' \in [Threads -> Places] /\ mem' \in [Threads -> Content]
           /\ got' \in [Threads -> Lanes]
           /\ handle' \in [Threads -> {"shut", "held", "torn", "adrift"}]
<1> USE ThreadsAre DEF TypeOK
<1>0. pc \in [Threads -> Places]
  BY DEF Places
<1>1. pc' = pc \/ \E t \in Threads, there \in Places : Goto(t, there)
  BY StepKinds
     DEF Opens, Open, Closes, Close, Plain, Cleanup, List, Support, Fill, Ensure, Load,
         LoadLanes, Install, Create, Save, Request, Reload, ReloadRaw, Delete, Unlink, Capture,
         HotPop, HotLoad, HotLanes, HotSwap, GiveUp, Block, vars, threadVars, Places, Step
<1>2. pc' \in [Threads -> Places]
  BY <1>0, <1>1, StepShapes
<1>3. mem' = mem \/ \E t \in Threads, c \in Content : mem' = [mem EXCEPT ![t] = c]
  BY StepKinds
     DEF Opens, Open, Closes, Close, Plain, Cleanup, List, Support, Fill, Ensure, Load,
         LoadLanes, Install, Create, Save, Request, Reload, ReloadRaw, Delete, Unlink, Capture,
         HotPop, HotLoad, HotLanes, HotSwap, GiveUp, Block, vars, threadVars, Content
<1>4. mem' \in [Threads -> Content]
  BY <1>3
<1>5. got' = got \/ \E t \in Threads, n \in Lanes : got' = [got EXCEPT ![t] = n]
  BY StepKinds
     DEF Opens, Open, Closes, Close, Plain, Cleanup, List, Support, Fill, Ensure, Load,
         LoadLanes, Install, Create, Save, Request, Reload, ReloadRaw, Delete, Unlink, Capture,
         HotPop, HotLoad, HotLanes, HotSwap, GiveUp, Block, vars, threadVars, Named
<1>6. got' \in [Threads -> Lanes]
  BY <1>5
<1>7. \/ handle' = handle \/ Unlink
      \/ \E t \in Threads : Opens(t) \/ Closes(t)
  BY StepKinds
     DEF Plain, Cleanup, List, Support, Fill, Ensure, Load,
         LoadLanes, Install, Create, Save, Request, Reload, ReloadRaw, Delete, Capture,
         HotPop, HotLoad, HotLanes, HotSwap, GiveUp, Block, vars, threadVars
<1>8. handle' \in [Threads -> {"shut", "held", "torn", "adrift"}]
  BY <1>7 DEF Unlink, Opens, Open, Closes, Close
<1> QED BY <1>2, <1>4, <1>6, <1>8

(* And the pipeline.                                                        *)
LEMMA StreamTypes ==
    ASSUME TypeOK, [Next]_vars
    PROVE  stream' \in Stream
<1> USE ThreadsAre DEF TypeOK
<1>0. stream \in Stream
  BY DEF Stream
<1>1. ASSUME NEW t \in Threads, Install(t) PROVE stream' \in Stream
  <2>1. mem[t] \in Content /\ got[t] \in Lanes
    OBVIOUS
  <2> DEFINE new == [Off EXCEPT !.on = TRUE, !.lanes = got[t], !.from = mem[t],
                       !.why = IF got[t] # lanes THEN {"late"} ELSE {},
                       !.crossed = camera = "none" \/ At(Loop, "unlink")]
  <2>2. new \in Stream
    BY <2>1 DEF Off, Stream
  <2>3. stream' = stream \/ stream' = new
    BY <1>1 DEF Install
  <2> QED BY <1>0, <2>2, <2>3
<1>2. CASE \E t \in Threads : Fill(t)
  BY <1>0, <1>2 DEF Fill, Stream
<1>3. CASE Request
  BY <1>0, <1>3 DEF Request, Stream
<1>4. CASE HotPop
  BY <1>0, <1>4 DEF HotPop, Stream
<1>5. HotFails \in Stream
  BY <1>0 DEF HotFails, Stream
<1>6. CASE HotLoad
  BY <1>0, <1>5, <1>6 DEF HotLoad, Stream
<1>7. CASE HotLanes
  <2>1. Named(stream.from) \in Lanes
    BY DEF Named
  <2> QED BY <1>0, <1>5, <1>7, <2>1 DEF HotLanes, Stream
<1>8. CASE HotSwap
  <2>1. [stream EXCEPT !.at = "run", !.lanes = stream.seen, !.seen = 0] \in Stream
    BY <1>0, <1>8 DEF HotSwap, Stream
  <2> QED BY <1>5, <1>8, <2>1 DEF HotSwap
<1>9. CASE stream' = stream \/ stream' = Off
  BY <1>0, <1>9
<1>10. CASE GiveUp
  BY <1>0, <1>10 DEF GiveUp, Stream
<1> QED
  BY <1>1, <1>2, <1>3, <1>4, <1>6, <1>7, <1>8, <1>9, <1>10, StepKinds
     DEF Opens, Open, Closes, Close, Plain, Cleanup, List, Support, Ensure, Load, LoadLanes,
         Create, Save, Reload, ReloadRaw, Delete, Unlink, Capture, Block, vars
----------------------------------------------------------------------------
(* Writers.                                                                *)

Writing == {"open", "close", "reopen", "write"}

(* A step after which nobody has come nearer to writing.                    *)
LEMMA NoNewWriter ==
    ASSUME TypeOK, WritersInv, UNCHANGED handle,
           \A t \in Threads : pc'[t] \in Writing => pc'[t] = pc[t] /\ mem'[t] = mem[t]
    PROVE  WritersInv'
BY DEF WritersInv, Writing

(* A thread has what to write before it opens the file, and keeps it, as it *)
(* keeps the file open, whatever others write, unlink or read meanwhile.    *)
LEMMA WritersStep ==
    ASSUME TypeOK, WritersInv, [Next]_vars
    PROVE  WritersInv'
<1> USE ThreadsAre
<1>0. /\ pc \in [Threads -> Places] /\ mem \in [Threads -> Content] /\ camera \in Content
      /\ handle \in [Threads -> {"shut", "held", "torn", "adrift"}]
  BY DEF TypeOK, Places
<1>1. ASSUME NEW t \in Threads, Opens(t) PROVE WritersInv'
  <2>1. /\ mem' = mem /\ handle' = [handle EXCEPT ![t] = "held"] /\ mem[t] # "none"
        /\ \E there \in Places : Goto(t, there)
    BY <1>1 DEF Opens, Open, WritersInv, Step, At, Places
  <2> QED BY <1>0, <2>1, StepShapes DEF WritersInv
<1>2. ASSUME NEW t \in Threads, Closes(t) PROVE WritersInv'
  <2>1. /\ mem' = [mem EXCEPT ![t] = "none"]
        /\ \E there \in {"support", "cleanup"} : Goto(t, there)
    BY <1>2 DEF Closes, Close, Step
  <2>2. \A u \in Threads : u # t /\ handle[u] # "shut" => handle'[u] # "shut"
    BY <1>0, <1>2 DEF Closes, Close
  <2>3. pc'[t] \in {"support", "cleanup"} /\ \A u \in Threads \ {t} : pc'[u] = pc[u]
    BY <1>0, <2>1, StepShapes DEF Places
  <2> QED BY <1>0, <2>1, <2>2, <2>3 DEF WritersInv
<1>3. ASSUME NEW t \in Threads, List(t) PROVE WritersInv'
  <2>1. handle' = handle /\ mem' = [mem EXCEPT ![t] = IF Mismatched THEN "preset" ELSE "none"]
        /\ Goto(t, IF Mismatched THEN "open" ELSE "support")
    BY <1>3 DEF List
  <2>2. CASE Mismatched
    BY <1>0, <2>1, <2>2, StepShapes DEF WritersInv, Places
  <2>3. CASE ~Mismatched
    BY <1>0, <2>1, <2>3, StepShapes DEF WritersInv, Places
  <2> QED BY <2>2, <2>3
<1>4. CASE Create
  <2>1. handle' = handle /\ mem' = [mem EXCEPT ![Loop] = "asked"] /\ Goto(Loop, "open")
    BY <1>4 DEF Create, Step
  <2> QED BY <1>0, <2>1, StepShapes DEF WritersInv, Places
<1>5. CASE ReloadRaw
  <2>1. CASE Goto(Loop, "idle") /\ UNCHANGED <<mem, handle>>
    BY <1>0, <2>1, StepShapes DEF WritersInv, Places
  <2>2. CASE Goto(Loop, "reopen") /\ handle' = handle
             /\ \E c \in {"stub", "asked"} : mem' = [mem EXCEPT ![Loop] = c]
    BY <1>0, <2>2, StepShapes DEF WritersInv, Places
  <2> QED BY <1>5, <2>1, <2>2 DEF ReloadRaw
<1>6. CASE Unlink
  <2>1. /\ Goto(Loop, "idle") /\ mem' = mem
        /\ \A u \in Threads : handle[u] # "shut" => handle'[u] # "shut"
    BY <1>6 DEF Unlink, Step
  <2> QED BY <1>0, <2>1, StepShapes DEF WritersInv, Places
<1>7. ASSUME NEW t \in Threads,
             \/ Plain(t) \/ Support(t) \/ Fill(t) \/ Ensure(t) \/ Load(t) \/ LoadLanes(t)
             \/ Install(t) \/ (t = Loop /\ (Save \/ Request \/ Reload \/ Delete))
      PROVE  WritersInv'
  <2>1. handle' = handle /\ (mem' = mem \/ \E c \in Content : mem' = [mem EXCEPT ![t] = c])
    BY <1>0, <1>7 DEF Plain, Cleanup, Support, Fill, Ensure, Load, LoadLanes, Install, Save,
                      Request, Reload, Delete, Content
  <2>2. \E there \in Places \ Writing : Goto(t, there)
    BY <1>7 DEF Plain, Cleanup, Support, Fill, Ensure, Load, LoadLanes, Install, Save,
                Request, Reload, Delete, Step, Places, Writing
  <2>3. pc'[t] \notin Writing /\ \A u \in Threads \ {t} : pc'[u] = pc[u] /\ mem'[u] = mem[u]
    BY <1>0, <2>1, <2>2, StepShapes
  <2> QED BY <2>1, <2>3, NoNewWriter
<1>8. CASE Capture \/ Block \/ UNCHANGED vars
  <2>1. UNCHANGED <<pc, mem, handle>>
    BY <1>8 DEF Capture, HotPop, HotLoad, HotLanes, HotSwap, GiveUp, Block, vars, threadVars
  <2> QED BY <2>1 DEF WritersInv
<1> QED BY <1>1, <1>2, <1>3, <1>4, <1>5, <1>6, <1>7, <1>8, StepKinds

(* Types, and writers that have what they write, throughout.                *)
THEOREM ConfigTypes == Spec => [](TypeOK /\ WritersInv)
<1>1. Init => TypeOK /\ WritersInv
  <2> SUFFICES ASSUME Init PROVE TypeOK /\ WritersInv
    OBVIOUS
  <2>1. /\ camera \in Content /\ lanes \in Lanes /\ saves \in 0 .. MaxSaves
        /\ blocked \in BOOLEAN
    <3>1. blocked \in BOOLEAN
      BY DEF Init
    <3> QED BY <3>1, ConfigAssumption DEF Init, Content, Lanes
  <2>2. /\ pc \in [Threads -> Places] /\ mem \in [Threads -> Content]
        /\ got \in [Threads -> Lanes]
        /\ handle \in [Threads -> {"shut", "held", "torn", "adrift"}]
    BY ThreadsAre DEF Init, Places, Content
  <2>3. stream \in Stream
    BY ThreadsAre DEF Init
  <2>4. TypeOK
    BY <2>1, <2>2, <2>3 DEF TypeOK, Places, Stream
  <2>5. WritersInv
    BY DEF Init, WritersInv
  <2> QED BY <2>4, <2>5
<1>2. TypeOK /\ WritersInv /\ [Next]_vars => TypeOK' /\ WritersInv'
  <2> SUFFICES ASSUME TypeOK, WritersInv, [Next]_vars PROVE TypeOK' /\ WritersInv'
    OBVIOUS
  <2>1. TypeOK'
    BY FileTypes, ThreadTypes, StreamTypes DEF TypeOK, Places, Stream
  <2> QED BY <2>1, WritersStep
<1> QED BY <1>1, <1>2, PTL DEF Spec

----------------------------------------------------------------------------
(* Deleted is stopped.                                                     *)

(* Only the delete itself takes the camera's file away, and only by way of  *)
(* the stop of its pipeline.                                                *)
LEMMA DeleteSteps ==
    ASSUME TypeOK, WritersInv, [Next]_vars
    PROVE  /\ camera' = "none" => camera = "none" \/ At(Loop, "unlink")
           /\ At(Loop, "unlink")' => At(Loop, "unlink") \/ stream' = Off
<1> USE ThreadsAre
<1>0. /\ pc \in [Threads -> Places] /\ camera \in Content /\ mem \in [Threads -> Content]
  BY DEF TypeOK, Places
<1>1. ASSUME NEW t \in Threads, Closes(t), camera' = "none" PROVE camera = "none"
  <2>1. handle[t] \in {"held", "torn", "adrift"} /\ mem[t] # "none"
    BY <1>1 DEF Closes, Close, Step, At, WritersInv, TypeOK
  <2>2. camera' \in CASE handle[t] = "held"   -> {mem[t]}
                      [] handle[t] = "torn"   -> {mem[t], "broken"}
                      [] handle[t] = "adrift" -> {camera}
    BY <1>1 DEF Closes, Close
  <2> QED BY <1>1, <2>1, <2>2
<1>2. camera' = "none" => camera = "none" \/ At(Loop, "unlink")
  BY <1>1, StepKinds
     DEF Opens, Open, Plain, Cleanup, List, Support, Fill, Ensure, Load, LoadLanes, Install,
         Create, Save, Request, Reload, ReloadRaw, Delete, Unlink, Capture, HotPop, HotLoad,
         HotLanes, HotSwap, GiveUp, Block, vars, fileVars, Step
<1>3. ASSUME At(Loop, "unlink")', ~At(Loop, "unlink") PROVE stream' = Off
  <2>1. ASSUME ~Delete PROVE \/ pc' = pc
                            \/ \E t \in Threads, there \in Places \ {"unlink"} : Goto(t, there)
    BY <2>1, StepKinds
     DEF Opens, Open, Closes, Close, Plain, Cleanup, List, Support, Fill, Ensure, Load,
         LoadLanes, Install, Create, Save, Request, Reload, ReloadRaw, Unlink, Capture,
         HotPop, HotLoad, HotLanes, HotSwap, GiveUp, Block, vars, threadVars, Places, Step
  <2>2. Delete
    BY <1>0, <1>3, <2>1, StepShapes DEF At
  <2> QED BY <2>2 DEF Delete, Cleanup
<1> QED BY <1>2, <1>3

(* What a step makes of the pipeline: nothing, an end, a start that records *)
(* whether it crossed a delete, or a change within the running one.         *)
LEMMA StreamSteps ==
    ASSUME TypeOK, [Next]_vars
    PROVE  \/ stream' = stream \/ stream' = Off
           \/ stream'.crossed = stream.crossed /\ stream.on
           \/ \E t \in Threads :
                 /\ At(Loop, "unlink") \/ camera = "none" => stream'.crossed
                 /\ Install(t)
<1> USE ThreadsAre
<1>0. stream \in Stream
  BY DEF TypeOK, Stream
<1>1. ASSUME NEW t \in Threads, Install(t), stream' # stream
      PROVE  At(Loop, "unlink") \/ camera = "none" => stream'.crossed
  BY <1>1 DEF Install, Off
<1>2. CASE \E t \in Threads : Install(t)
  BY <1>1, <1>2
<1>3. CASE ~ \E t \in Threads : Install(t)
  BY <1>0, <1>3, StepKinds
     DEF Opens, Open, Closes, Close, Plain, Cleanup, List, Support, Fill, Ensure, Load,
         LoadLanes, Create, Save, Request, Reload, ReloadRaw, Delete, Unlink, Capture,
         HotPop, HotLoad, HotLanes, HotSwap, HotFails, GiveUp, Block, vars, Stream
<1> QED BY <1>2, <1>3

(* StoppedInv holds throughout.                                             *)
LEMMA StoppedStep ==
    ASSUME TypeOK, WritersInv, StoppedInv, [Next]_vars
    PROVE  StoppedInv'
<1> SUFFICES ASSUME At(Loop, "unlink")' \/ camera' = "none", stream'.on
             PROVE  stream'.crossed
  BY DEF StoppedInv
<1>1. stream' # Off
  BY DEF Off
<1>2. At(Loop, "unlink") \/ camera = "none"
  BY <1>1, DeleteSteps
<1>3. CASE stream' = stream \/ (stream'.crossed = stream.crossed /\ stream.on)
  BY <1>2, <1>3 DEF StoppedInv
<1> QED BY <1>1, <1>2, <1>3, StreamSteps

(* DeletedIsStopped for any number of starters: a deleted camera's pipeline *)
(* is one whose start crossed the delete, whatever writes, reloads and      *)
(* listings went on beside it.                                              *)
THEOREM DeletedStaysStopped == Spec => []DeletedIsStopped
<1>1. Init => StoppedInv
  BY DEF Init, StoppedInv, Off
<1>2. StoppedInv => DeletedIsStopped
  BY DEF StoppedInv, DeletedIsStopped
<1>3. TypeOK /\ WritersInv /\ StoppedInv /\ [Next]_vars => StoppedInv'
  BY StoppedStep
<1> QED BY <1>1, <1>2, <1>3, ConfigTypes, PTL DEF Spec

----------------------------------------------------------------------------
(* Saved is served.                                                        *)

(* A save is over only when it has asked the running pipeline.              *)
LEMMA RequestEnds ==
    ASSUME TypeOK, [Next]_vars, At(Loop, "request"), ~At(Loop, "request")'
    PROVE  Request
<1> USE ThreadsAre
<1>0. pc \in [Threads -> Places]
  BY DEF TypeOK, Places
<1>1. ASSUME ~Request
      PROVE  pc' = pc \/ \E t \in Threads \ {Loop}, there \in Places : Goto(t, there)
  BY <1>1, StepKinds
     DEF Opens, Open, Closes, Close, Plain, Cleanup, List, Support, Fill, Ensure, Load,
         LoadLanes, Install, Create, Save, Reload, ReloadRaw, Delete, Unlink, Capture,
         HotPop, HotLoad, HotLanes, HotSwap, GiveUp, Block, vars, threadVars, Places, Step, At
<1> QED BY <1>0, <1>1, StepShapes DEF At

(* A reload has read what the file holds, unless a later save asks again,   *)
(* the lanes were emptied behind it, or it failed.                          *)
LEMMA HotStep ==
    ASSUME TypeOK, ServedInv, Capture
    PROVE  ServedInv'
<1>0. stream \in Stream /\ UNCHANGED <<lanes, pc>>
  BY DEF TypeOK, Stream, Capture, HotPop, HotLoad, HotLanes, HotSwap, GiveUp, fileVars, threadVars
<1>1. CASE HotPop
  <2>1. stream'.at = "load"
    BY <1>0, <1>1 DEF HotPop, Stream
  <2> QED BY <2>1 DEF ServedInv
<1>2. HotFails.why # {}
  BY <1>0 DEF HotFails, Stream
<1>3. CASE HotLoad
  <2>1. stream' = HotFails \/ stream'.at = "lanes"
    BY <1>0, <1>3 DEF HotLoad, Stream
  <2> QED BY <1>2, <2>1 DEF ServedInv
<1>4. CASE HotLanes
  <2>1. \/ stream' = HotFails
        \/ /\ stream'.at = "swap" /\ stream'.from = stream.from
           /\ stream'.seen = Named(stream.from)
    BY <1>0, <1>4 DEF HotLanes, Stream
  <2> QED BY <1>0, <1>2, <2>1 DEF ServedInv, Named
<1>5. CASE HotSwap
  <2>1. \/ stream' = HotFails
        \/ /\ stream'.at = "run" /\ stream'.lanes = stream.seen /\ stream.at = "swap"
           /\ stream'.on = stream.on /\ stream'.ask = stream.ask
           /\ stream'.from = stream.from /\ stream'.why = stream.why
    BY <1>0, <1>5 DEF HotSwap, Stream
  <2> QED BY <1>0, <1>2, <2>1 DEF ServedInv, At
<1>6. CASE GiveUp
  <2>1. stream'.at = "over"
    BY <1>0, <1>6 DEF GiveUp, Stream
  <2> QED BY <2>1 DEF ServedInv
<1> QED BY <1>1, <1>3, <1>4, <1>5, <1>6 DEF Capture

(* Every step keeps ServedInv.                                              *)
LEMMA ServedStep ==
    ASSUME TypeOK, ServedInv, [Next]_vars
    PROVE  ServedInv'
<1> USE ThreadsAre
<1>0. stream \in Stream /\ pc \in [Threads -> Places]
  BY DEF TypeOK, Stream, Places
<1>1. CASE Request
  <2>1. ~stream'.on \/ stream'.ask
    BY <1>0, <1>1 DEF Request, Stream
  <2> QED BY <2>1 DEF ServedInv
<1>2. CASE UNCHANGED <<stream, lanes>> /\ ~Request
  <2>1. At(Loop, "request") => At(Loop, "request")'
    BY <1>2, RequestEnds
  <2> QED BY <1>2, <2>1 DEF ServedInv
<1>3. CASE Save
  <2>1. At(Loop, "request")'
    BY <1>0, <1>3, StepShapes DEF Save, Step, At, Places
  <2> QED BY <2>1 DEF ServedInv
<1>4. ASSUME NEW t \in Threads, Fill(t) PROVE ServedInv'
  <2>1. ~stream'.on \/ stream'.why # {}
    BY <1>0, <1>4 DEF Fill, Stream
  <2> QED BY <2>1 DEF ServedInv
<1>5. CASE Unlink
  BY <1>5 DEF Unlink, ServedInv
<1>6. CASE stream' = Off
  <2>1. ~stream'.on
    BY <1>6 DEF Off
  <2> QED BY <2>1 DEF ServedInv
<1>7. ASSUME NEW t \in Threads, Install(t), stream' # stream PROVE ServedInv'
  <2>1. lanes' = lanes /\ stream'.at = "run"
        /\ (stream'.why = {} => stream'.lanes = lanes)
    BY <1>7 DEF Install, Off, fileVars
  <2> QED BY <2>1 DEF ServedInv
<1>8. \/ Request \/ Save \/ Unlink \/ Capture \/ stream' = Off
      \/ \E t \in Threads : Fill(t) \/ (Install(t) /\ stream' # stream)
      \/ UNCHANGED <<stream, lanes>>
  BY StepKinds
     DEF Opens, Open, Closes, Close, Plain, Cleanup, List, Support, Ensure, Load,
         LoadLanes, Install, Create, Reload, ReloadRaw, Delete, Block, vars, fileVars
<1> QED BY <1>1, <1>2, <1>3, <1>4, <1>5, <1>6, <1>7, <1>8, HotStep

(* SavedIsServed for any number of saves and starters: a pipeline without a *)
(* reload to do runs on the lanes of the file, or its record says why not.  *)
THEOREM SavedAreServed == Spec => []SavedIsServed
<1>1. Init => ServedInv
  BY DEF Init, ServedInv, Off
<1>2. ServedInv => SavedIsServed
  BY DEF ServedInv, SavedIsServed
<1>3. TypeOK /\ ServedInv /\ [Next]_vars => ServedInv'
  BY ServedStep
<1> QED BY <1>1, <1>2, <1>3, ConfigTypes, PTL DEF Spec
=============================================================================
