--------------------------- MODULE CaptureSignals ---------------------------
(***************************************************************************)
(* What the capture threads of one camera tell the rest of the process:    *)
(* its status in live_metrics.py, its alerts in alert_service.py, and its  *)
(* events through the publisher, of which a call succeeds or raises (the   *)
(* breaker behind it is in CircuitBreaker).                                *)
(* Pipelines of the camera follow one another as generations.  A thread    *)
(* runs before its pipeline is registered, two starters may race, and      *)
(* cleanup waits five seconds for a thread, so several may live at once.   *)
(* Viewers, operators and other threads take part.                         *)
(***************************************************************************)
EXTENDS Naturals, FiniteSets, Sequences

CONSTANTS Gens,          \* the generations: 1 .. n
          MaxAttempts,   \* _MAX_RECONNECT_ATTEMPTS
          HistoryLimit   \* alerts kept in memory

ASSUME GensAssumption == IsFiniteSet(Gens) /\ Gens = 1 .. Cardinality(Gens)
ASSUME LimitAssumption == MaxAttempts \in Nat /\ HistoryLimit \in Nat \ {0}

VARIABLES
    pc,        \* where the capture thread of a generation is
    attempt,   \* failed attempts to connect in a row
    seen,      \* stream_meta["source_failure_seen"]
    pending,   \* generations whose thread runs and whose starter has yet to register them
    current,   \* the registered generation, or 0
    stopped,   \* generations whose stop event is set
    cleaning,  \* generations whose cleanup has not yet recorded the stop
    late,      \* history: stopped threads that nobody waited for to the end
    told,      \* the camera's metrics: status, stream_active, and who told that it is on
    viewer,    \* a viewer's generator is about to serve a frame it has waited for
    alerts,    \* _alerts, oldest first
    active     \* _suppressed: key -> place of its alert in alerts, 0 if trimmed

capVars   == <<pc, attempt, seen>>
pipeVars  == <<pending, current, stopped, cleaning, late>>
alertVars == <<alerts, active>>
vars == <<capVars, pipeVars, told, viewer, alertVars>>

Keys    == {"source", "offline", "other"}
Speaks  == {"outer", "connect", "failed", "retry", "offline",
            "inner", "frame", "lost", "clear", "clear2", "publish"}
Ended   == {"none", "admitted", "dead", "escaped"}   \* no thread runs
Running == {"starting", "connecting", "active", "reconnecting"}
Alert   == [key : Keys, by : Gens \cup {0}, resolved : BOOLEAN]

TypeOK ==
    /\ pc \in [Gens -> Speaks \cup Ended]
    /\ attempt \in [Gens -> 0 .. MaxAttempts + 1] /\ seen \in [Gens -> BOOLEAN]
    /\ current \in Gens \cup {0} /\ viewer \in BOOLEAN
    /\ {pending, stopped, cleaning, late} \subseteq SUBSET Gens
    /\ told \in [status : Running \cup {"error", "stopped"}, on : BOOLEAN,
                 by : Gens \cup {0}]
    /\ told.on \/ told.by = 0
    /\ alerts \in Seq(Alert) /\ Len(alerts) <= HistoryLimit
    /\ DOMAIN active \subseteq Keys
    /\ \A k \in DOMAIN active : active[k] \in 0 .. Len(alerts)

Init ==
    /\ pc = [g \in Gens |-> "none"]
    /\ attempt = [g \in Gens |-> 0] /\ seen = [g \in Gens |-> FALSE]
    /\ pending = {} /\ current = 0 /\ viewer = FALSE /\ stopped = {} /\ cleaning = {} /\ late = {}
    /\ told = [status |-> "stopped", on |-> FALSE, by |-> 0]
    /\ alerts = <<>> /\ active = <<>>

Goto(g, from, to) == pc[g] = from /\ pc' = [pc EXCEPT ![g] = to]
Tell(g, status) ==
    told' = [status |-> status, on |-> status \in Running,
             by |-> IF status \in Running THEN g ELSE 0]

-----------------------------------------------------------------------------
(* alert_service.py; every caller leaves suppress_if_active on.            *)

Emit(key, by) ==
    IF key \in DOMAIN active
    THEN UNCHANGED alertVars
    ELSE LET all  == Append(alerts, [key |-> key, by |-> by, resolved |-> FALSE])
             from == [k \in DOMAIN active \cup {key} |->
                        IF k = key THEN Len(all) ELSE active[k]]
         IN  IF Len(all) <= HistoryLimit
             THEN alerts' = all /\ active' = from
             ELSE /\ alerts' = Tail(all)
                  /\ active' = [k \in DOMAIN from |-> IF from[k] = 0 THEN 0 ELSE from[k] - 1]

Unsuppress(key) == active' = [k \in DOMAIN active \ {key} |-> active[k]]

Resolve(key) ==
    IF key \notin DOMAIN active
    THEN UNCHANGED alertVars
    ELSE /\ Unsuppress(key)
         /\ alerts' = IF active[key] = 0 THEN alerts
                      ELSE [alerts EXCEPT ![active[key]].resolved = TRUE]

(* Wrong: an alert that is resolved already is resolved again.             *)
ResolveAnyById(place) ==
    /\ alerts' = [alerts EXCEPT ![place].resolved = TRUE]
    /\ Unsuppress(alerts[place].key)

ResolveById(place) ==
    /\ ~alerts[place].resolved
    /\ alerts' = [alerts EXCEPT ![place].resolved = TRUE]
    /\ Unsuppress(alerts[place].key)

(* An operator, a verification of the source that fails or succeeds, and   *)
(* the queue's watchdog and the health checks, which have keys of their    *)
(* own.                                                                    *)
Operate ==
    /\ \/ \E place \in 1 .. Len(alerts) : ResolveById(place)
       \/ Emit("source", 0) \/ Resolve("source")
       \/ Emit("other", 0) \/ Resolve("other")
    /\ UNCHANGED <<capVars, pipeVars, told, viewer>>

-----------------------------------------------------------------------------
(* The pipeline: ensure_live_pipeline, _start_pipeline, _cleanup_stream    *)
(* and a viewer's generator.                                               *)

(* A starter finds the camera not registered, and goes on without the lock *)
(* ...                                                                     *)
Admit(g) ==
    /\ current = 0 /\ \A h \in Gens : pc[h] = "none" => g <= h
    /\ Goto(g, "none", "admitted")
    /\ UNCHANGED <<attempt, seen, pipeVars, told, viewer, alertVars>>

(* ... to fail, for want of a configuration or with an exception, ...      *)
StartFails(g) ==
    /\ Goto(g, "admitted", "none")
    /\ UNCHANGED told \/ Tell(g, "error")
    /\ UNCHANGED <<attempt, seen, pipeVars, viewer, alertVars>>

(* ... or to come back with a capture thread that runs already; ...        *)
Start(g) ==
    /\ Goto(g, "admitted", "outer")
    /\ Tell(g, "starting")
    /\ pending' = pending \cup {g}
    /\ UNCHANGED <<attempt, seen, current, stopped, cleaning, late, viewer, alertVars>>

(* ... under the lock again it is registered, unless another starter was   *)
(* first: then its stop event is set, nobody waits for its thread, and its *)
(* end is not recorded.                                                    *)
Register(g) ==
    /\ g \in pending /\ pending' = pending \ {g}
    /\ IF current = 0
       THEN current' = g /\ UNCHANGED <<stopped, late>>
       ELSE /\ stopped' = stopped \cup {g} /\ late' = late \cup {g}
            /\ UNCHANGED current
    /\ UNCHANGED <<capVars, cleaning, told, viewer, alertVars>>

Pop(g) ==
    /\ current = g /\ current' = 0
    /\ stopped' = stopped \cup {g} /\ cleaning' = cleaning \cup {g}
    /\ UNCHANGED <<capVars, pending, late, told, viewer, alertVars>>

(* Wrong: only the entry is removed.                                       *)
StoppedSilently(g) ==
    /\ g \in cleaning /\ cleaning' = cleaning \ {g}
    /\ late' = IF pc[g] \in Ended THEN late ELSE late \cup {g}
    /\ UNCHANGED <<capVars, pending, current, stopped, told, viewer, alertVars>>

(* The joins are over: the thread has ended, or five seconds have passed.  *)
Stopped(g) ==
    /\ g \in cleaning /\ cleaning' = cleaning \ {g}
    /\ late' = IF pc[g] \in Ended THEN late ELSE late \cup {g}
    /\ Tell(0, "stopped")
    /\ UNCHANGED <<capVars, pending, current, stopped, viewer, alertVars>>

(* The generator of a viewer of the registered pipeline waits for a frame, *)
(* and may get it after the stop.                                          *)
Watch(g) ==
    /\ current = g /\ ~viewer /\ viewer' = TRUE
    /\ UNCHANGED <<capVars, pipeVars, told, alertVars>>

Serve ==
    /\ viewer /\ viewer' = FALSE
    /\ told' = [told EXCEPT !.on = TRUE,
                   !.status = IF @ \in {"starting", "connecting"} THEN "active" ELSE @]
    /\ UNCHANGED <<capVars, pipeVars, alertVars>>

-----------------------------------------------------------------------------
(* The capture thread.                                                     *)

Connect(g) ==
    /\ Goto(g, "connect", "inner")
    /\ attempt' = [attempt EXCEPT ![g] = 0]
    /\ Tell(g, "connecting")
    /\ UNCHANGED <<seen, pipeVars, viewer, alertVars>>

(* Wrong: as if it were not given the stream's meta data.                  *)
SourceFailsUnseen(g) ==
    /\ Goto(g, "connect", "failed") \/ Goto(g, "frame", "lost")
    /\ Tell(g, "reconnecting")
    /\ UNCHANGED <<attempt, seen, pipeVars, viewer, alertVars>>

(* _record_source_failure, up to its alert; after a failed connection and  *)
(* after too many failed reads.                                            *)
SourceFails(g) ==
    /\ Goto(g, "connect", "failed") \/ Goto(g, "frame", "lost")
    /\ seen' = [seen EXCEPT ![g] = TRUE]
    /\ Tell(g, "reconnecting")
    /\ UNCHANGED <<attempt, pipeVars, viewer, alertVars>>

RaiseAlarm(g) ==
    /\ Goto(g, "failed", "retry") \/ Goto(g, "lost", "outer")
    /\ Emit("source", g)
    /\ UNCHANGED <<attempt, seen, pipeVars, told, viewer>>

(* Another attempt after a pause, or none.                                 *)
Retry(g) ==
    /\ attempt' = [attempt EXCEPT ![g] = @ + 1]
    /\ IF attempt[g] + 1 > MaxAttempts
       THEN Goto(g, "retry", "offline") /\ Tell(g, "error")
       ELSE Goto(g, "retry", "outer") /\ Tell(g, "reconnecting")
    /\ UNCHANGED <<seen, pipeVars, viewer, alertVars>>

GiveUp(g) ==
    /\ Goto(g, "offline", "dead") /\ Emit("offline", g)
    /\ UNCHANGED <<attempt, seen, pipeVars, told, viewer>>

(* A reload swaps the core, or cannot.                                     *)
Reload(g) ==
    /\ pc[g] = "frame"
    /\ \E status \in {"connecting", "error"} : Tell(g, status)
    /\ UNCHANGED <<capVars, pipeVars, viewer, alertVars>>

(* A frame is inferred and its metrics recorded.                           *)
Infer(g) ==
    /\ Goto(g, "frame", IF seen[g] THEN "clear" ELSE "publish")
    /\ seen' = [seen EXCEPT ![g] = FALSE]
    /\ Tell(g, "active")
    /\ UNCHANGED <<attempt, pipeVars, viewer, alertVars>>

Clear(g) ==
    /\ \/ Goto(g, "clear", "clear2") /\ Resolve("source")
       \/ Goto(g, "clear2", "publish") /\ Resolve("offline")
    /\ UNCHANGED <<attempt, seen, pipeVars, told, viewer>>

(* Occupancy is published inside a try, crossings and lane changes are not:*)
(* the errors of Redis and CircuitBreakerOpen are none that                *)
(* publish_live_state catches, and end the thread.                         *)
Publish(g) ==
    /\ Goto(g, "publish", "inner") \/ Goto(g, "publish", "escaped")
    /\ UNCHANGED <<attempt, seen, pipeVars, told, viewer, alertVars>>

(* Any other exception ends the thread: of opening a source, other than    *)
(* OSError, ValueError and RuntimeError, or of a read, a resize, a crop or *)
(* the detection, which nothing catches.                                   *)
Escape(g) ==
    /\ Goto(g, "connect", "escaped") \/ Goto(g, "frame", "escaped")
    /\ UNCHANGED <<attempt, seen, pipeVars, told, viewer, alertVars>>

(* The stop event is looked at between two attempts and between two reads, *)
(* so whatever is under way is finished, and told, after a stop.           *)
CheckStop(g) ==
    /\ \E loop \in {<<"outer", "connect">>, <<"inner", "frame">>} :
          Goto(g, loop[1], IF g \in stopped THEN "dead" ELSE loop[2])
    /\ UNCHANGED <<attempt, seen, pipeVars, told, viewer, alertVars>>

(* A read that fails, or a frame that nobody watches.                      *)
Skip(g) ==
    /\ Goto(g, "frame", "inner")
    /\ UNCHANGED <<attempt, seen, pipeVars, told, viewer, alertVars>>

Capture(g) ==
    \/ Connect(g) \/ SourceFails(g) \/ RaiseAlarm(g) \/ Retry(g) \/ GiveUp(g) \/ Reload(g)
    \/ Infer(g) \/ Clear(g) \/ Publish(g) \/ Escape(g) \/ CheckStop(g) \/ Skip(g)

Next ==
    \/ \E g \in Gens : Admit(g) \/ StartFails(g) \/ Start(g) \/ Register(g)
    \/ \E g \in Gens : Pop(g) \/ Stopped(g) \/ Watch(g) \/ Capture(g)
    \/ Serve \/ Operate

Spec == Init /\ [][Next]_vars

-----------------------------------------------------------------------------
(* What the operator sees as active is what is suppressed: an unresolved   *)
(* alert in the history is the one its key points to, and no key points to *)
(* a resolved one -- through generations, verification, operators and a    *)
(* history that forgets.                                                   *)
ActiveAreSuppressed ==
    {p \in 1 .. Len(alerts) : ~alerts[p].resolved}
        = {active[k] : k \in DOMAIN active} \ {0}

(* A thread that delivers frames has no alert of its own left, whatever    *)
(* others have resolved, verified or trimmed.  (Alerts of an earlier       *)
(* generation stay: the mark that clears them was in its meta data.)       *)
DeliveringClearsAlerts ==
    \A g \in Gens : pc[g] = "publish" =>
        \A p \in 1 .. Len(alerts) : alerts[p].by = g => alerts[p].resolved

(* The camera is shown as on only while the thread that said so runs, or   *)
(* its cleanup is under way; or nobody waited for that thread to the end,  *)
(* because five seconds passed or it lost the race of starters; or an      *)
(* exception ended it; or it was a viewer's last frame.                    *)
ShownOnIsRunning ==
    told.on =>
        \/ told.by = 0
        \/ pc[told.by] \notin {"none", "admitted", "dead"}
        \/ told.by \in cleaning \cup late

(* Each key points to its own alert, which is not resolved, and each alert  *)
(* that is not resolved is the one its key points to.                       *)
PointersInv ==
    /\ \A k \in DOMAIN active : active[k] # 0 =>
          ~alerts[active[k]].resolved /\ alerts[active[k]].key = k
    /\ \A p \in 1 .. Len(alerts) : ~alerts[p].resolved =>
          alerts[p].key \in DOMAIN active /\ active[alerts[p].key] = p

(* An alert of a thread that is not resolved is marked in its meta data, or *)
(* about to be cleared, or the thread's last.                               *)
OwnAlertsInv ==
    /\ \A g \in Gens : /\ pc[g] \in {"failed", "lost"} => seen[g]
                       /\ pc[g] \in {"clear", "clear2", "publish"} => ~seen[g]
    /\ \A p \in 1 .. Len(alerts) :
          ~alerts[p].resolved /\ alerts[p].by # 0 =>
             \/ alerts[p].key = "source" /\ (seen[alerts[p].by] \/ pc[alerts[p].by] = "clear")
             \/ alerts[p].key = "offline" /\ pc[alerts[p].by] = "dead"

(* A thread that is stopped, and neither ended nor late, is being cleaned   *)
(* up; one that told the camera is on has not given up, and has ended only  *)
(* for a stop or by an exception.                                           *)
ShownInv ==
    /\ \A g \in Gens :
          /\ pc[g] \in {"none", "admitted"} => g \notin stopped \cup pending /\ current # g
          /\ g \in stopped \ (cleaning \cup late) => pc[g] \in Ended
    /\ told.on /\ told.by # 0 =>
          /\ pc[told.by] \notin {"none", "admitted", "offline"}
          /\ pc[told.by] = "dead" \/ told.by \in stopped => told.by \in cleaning \cup late

(* Only a thread that gives up has used up its attempts.                    *)
AttemptsInv ==
    \A g \in Gens : attempt[g] <= MaxAttempts \/ pc[g] \in {"offline", "dead"}
=============================================================================
