---------------------------- MODULE CameraWorker ----------------------------
(***************************************************************************)
(* packages/tf_worker/worker.py: the worker process around the pipeline    *)
(* runs of a camera.  The camera's thread calls run_camera, which builds a *)
(* pipeline and runs it, again and again if the source is live and once if *)
(* it is a file, until SIGTERM or SIGINT has set _stop_event; a run that   *)
(* has begun is not told.  The main thread joins the camera's thread for   *)
(* thirty seconds from the start and goes on, whether or not it is over,   *)
(* and the interpreter waits for the camera's thread before the process    *)
(* ends.                                                                   *)
(*                                                                         *)
(* A live source is one whose runs are over after LastFrame frames, as     *)
(* after a lost connection.  frames.jsonl is opened to append, the CSV     *)
(* files are begun anew by each run: disk is what this run has written.    *)
(***************************************************************************)
EXTENDS OfflineRun

CONSTANT MaxRuns    \* bound of the model: runs of the camera

ASSUME WorkerAssumption == MaxRuns \in Nat \ {0}

VARIABLES
    live,           \* _is_live
    thread,         \* the camera's thread
    exited,         \* the process has ended
    stopEvent,      \* _stop_event
    runs            \* history: runs begun

processVars == <<live, thread, exited, stopEvent, runs>>
workerVars == <<runVars, processVars>>

(* _build_pipeline_config turns the log of a live source off.              *)
LiveIsUnlogged == live => ~logs

WorkerInit ==
    /\ RunInit
    /\ live \in BOOLEAN /\ LiveIsUnlogged
    /\ thread = "loop" /\ exited = FALSE
    /\ stopEvent = FALSE /\ runs = 0

(* One type invariant.                                                      *)
WorkerTypeOK ==
    /\ RunTypeOK
    /\ thread \in {"loop", "running", "waiting", "ended"}
    /\ exited \in BOOLEAN /\ stopEvent \in BOOLEAN
    /\ live \in BOOLEAN /\ (live => ~logs)
    /\ runs \in 0..MaxRuns

----------------------------------------------------------------------------
(* The camera's thread.                                                    *)

(* TrafficFlowPipeline(...): a new core, new sinks, an empty tally.  The    *)
(* settings are the camera's.                                               *)
NewPipeline ==
    /\ CoreRebuilt
    /\ UNCHANGED logs
    /\ step' = "read" /\ sink' = FirstSink /\ index' = 0
    /\ given' = [p \in Tracks \X Lanes |-> 0]
    /\ rows' = {} /\ summary' = NotWritten
    /\ queue' = [s \in Sinks |-> <<>>] /\ life' = [s \in Sinks |-> "up"]
    /\ hand' = [s \in Sinks |-> Idle] /\ disk' = [s \in Sinks |-> <<>>]
    /\ dropped' = [s \in Sinks |-> {}] /\ broken' = 0 /\ cut' = {}

StopUnseen == TRUE
(* not _stop_event.is_set(): asked before and after every run.              *)
MayRun == ~stopEvent

(* while not _stop_event.is_set(): run_camera.                              *)
RunCamera ==
    /\ thread = "loop" /\ MayRun /\ runs < MaxRuns
    /\ NewPipeline
    /\ thread' = "running" /\ runs' = runs + 1
    /\ UNCHANGED <<live, exited, stopEvent>>

Running ==
    /\ thread = "running"
    /\ RunNext
    /\ UNCHANGED processVars

(* Where a run that is over leaves the thread: a file is not run again, a   *)
(* live source is unless the stop came.                                     *)
AfterRun == IF live /\ MayRun THEN "waiting" ELSE "ended"

(* run_camera returns, or raises an error the loop catches or one it does   *)
(* not: that ends the thread.                                               *)
RunReturns ==
    /\ thread = "running" /\ step = "done"
    /\ thread' \in {AfterRun, "ended"}
    /\ UNCHANGED <<runVars, live, exited, stopEvent, runs>>

(* ... and it may raise before the pipeline runs: no source, no reader.     *)
RunFails ==
    /\ thread = "loop" /\ MayRun
    /\ thread' \in {AfterRun, "ended"}
    /\ UNCHANGED <<runVars, live, exited, stopEvent, runs>>

(* Five seconds, or the stop.                                               *)
Waited ==
    /\ thread = "waiting"
    /\ thread' = "loop"
    /\ UNCHANGED <<runVars, live, exited, stopEvent, runs>>

LoopEnds ==
    /\ thread = "loop" /\ ~MayRun
    /\ thread' = "ended"
    /\ UNCHANGED <<runVars, live, exited, stopEvent, runs>>

CameraThread == RunCamera \/ RunReturns \/ RunFails \/ Waited \/ LoopEnds

----------------------------------------------------------------------------
(* The rest of the process.                                                *)

(* _handle_sigterm                                                          *)
Signalled ==
    /\ ~stopEvent /\ ~exited
    /\ stopEvent' = TRUE
    /\ UNCHANGED <<runVars, live, thread, exited, runs>>

(* The interpreter waits for the threads that are not daemons.  What was    *)
(* given to the run's storage worker and not stored is lost: nothing stops  *)
(* the pipeline.                                                            *)
Exits ==
    /\ thread = "ended" /\ ~exited
    /\ exited' = TRUE
    /\ UNCHANGED <<runVars, live, thread, stopEvent, runs>>

WorkerNext == CameraThread \/ Running \/ Signalled \/ Exits

WorkerSpec == WorkerInit /\ [][WorkerNext]_workerVars

(* The threads run.  Nothing makes the signal come.                         *)
FairWorker ==
    /\ WorkerSpec
    /\ WF_workerVars(CameraThread) /\ WF_workerVars(Exits)
    /\ WF_workerVars(thread = "running" /\ Main /\ UNCHANGED processVars)
    /\ \A s \in Sinks :
          /\ WF_workerVars(thread = "running" /\ Take(s) /\ UNCHANGED processVars)
          /\ WF_workerVars(thread = "running" /\ (Write(s) \/ Die(s)) /\ UNCHANGED processVars)

----------------------------------------------------------------------------
(* Properties.                                                             *)

(* "signals all loops to stop": after the signal the process exits once the *)
(* run it was in is over, if the run's sinks live; it is not kept by the    *)
(* loop over a live source or the wait between two runs.                     *)
StoppedWorkerExits ==
    [](\A s \in Sinks : life[s] # "dead") => (stopEvent ~> exited)
=============================================================================
