-------------------------------- MODULE Jobs --------------------------------
(***************************************************************************)
(* The jobs API of routes_jobs.py: a request is admitted under the cap,    *)
(* compiled and recorded; its thread runs the pipeline, imports the log    *)
(* the pipeline has written, and reports the outcome in memory and in the  *)
(* job's row.  submit_video never awaits, so the event loop handles one    *)
(* request at a time; threads, crashes and database faults interleave with *)
(* it.  A job's log is one bit (did a vehicle cross a line?) and a number  *)
(* of lane changes.                                                        *)
(***************************************************************************)
EXTENDS Naturals, FiniteSets

CONSTANTS Jobs,        \* the ids that requests draw; an id is never reused
          Caps,        \* values max_workers may have in the settings
          MaxChanges   \* lane changes in a log, at most

ASSUME JobsAssumption == IsFiniteSet(Jobs)
ASSUME CapsAssumption == Caps \subseteq Nat \ {0} /\ Caps # {}
ASSUME MaxChangesAssumption == MaxChanges \in Nat

VARIABLES
    cap,       \* get_max_workers(), clamped
    pc,        \* where the request, then the thread, of a job is
    jobs,      \* _JOBS: the status in memory
    active,    \* _active_jobs: the slots taken
    row,       \* the status in inference_jobs
    old,       \* jobs created before the retention period
    endless,   \* jobs whose pipeline need not come to an end
    log,       \* what the pipeline of a job has written
    pending,   \* lane-change rows of a job in its open transaction
    stored,    \* committed rows of a job
    mishaps    \* history: what went wrong with a job

vars == <<cap, pc, jobs, active, row, old, endless, log, pending, stored, mishaps>>

InRequest == {"admitted", "recorded"}
InThread  == {"run", "insert", "commit", "again", "tell", "save", "fail", "mark", "end"}
Rested    == {"none", "refused", "escaped", "done", "gone"}
Statuses  == {"absent", "running", "completed", "failed"}
Finished  == {"completed", "failed"}
Mishaps   == {"raised",    \* something the job depends on has raised
              "leaked",    \* the request ended with its slot taken
              "locked",    \* a lock rolled its rows out of the transaction
              "orphaned"}  \* its row says running and nobody will change it

Rows(j) == 1 .. log[j].changes

TypeOK ==
    /\ cap \in Caps
    /\ pc \in [Jobs -> InRequest \cup InThread \cup Rested]
    /\ jobs \in [Jobs -> Statuses] /\ row \in [Jobs -> Statuses]
    /\ active \subseteq Jobs /\ old \subseteq Jobs
    /\ endless \subseteq {j \in Jobs : pc[j] = "run"}
    /\ log \in [Jobs -> [crossed : BOOLEAN, changes : 0 .. MaxChanges]]
    /\ pending \in [Jobs -> SUBSET (1 .. MaxChanges)]
    /\ stored \in [Jobs -> SUBSET (1 .. MaxChanges)]
    /\ mishaps \in [Jobs -> SUBSET Mishaps]

Init ==
    /\ cap \in Caps
    /\ pc = [j \in Jobs |-> "none"]
    /\ jobs = [j \in Jobs |-> "absent"] /\ row = jobs
    /\ active = {} /\ old = {} /\ endless = {}
    /\ log = [j \in Jobs |-> [crossed |-> FALSE, changes |-> 0]]
    /\ pending = [j \in Jobs |-> {}] /\ stored = pending
    /\ mishaps = [j \in Jobs |-> {}]

At(j, place)      == pc[j] = place
Goto(j, place)    == pc' = [pc EXCEPT ![j] = place]
Suffer(j, what)   == mishaps' = [mishaps EXCEPT ![j] = @ \cup what]
OrphanIf(j, stat) == IF stat = "running" THEN {"orphaned"} ELSE {}

(* _cleanup_old_jobs: what remains in memory.                              *)
Retained == [j \in Jobs |-> IF jobs[j] \in Finished /\ j \in old THEN "absent" ELSE jobs[j]]

-----------------------------------------------------------------------------
(* submit_video.                                                           *)

Admit(j) ==
    /\ At(j, "none") /\ \A k \in Jobs : pc[k] \notin InRequest
    /\ Cardinality(active) < cap
    /\ jobs' = Retained /\ active' = active \cup {j} /\ Goto(j, "admitted")
    /\ UNCHANGED <<cap, endless, row, old, log, pending, stored, mishaps>>

TurnAway ==
    /\ \A k \in Jobs : pc[k] \notin InRequest
    /\ Cardinality(active) >= cap
    /\ jobs' = Retained
    /\ UNCHANGED <<cap, endless, pc, active, row, old, log, pending, stored, mishaps>>

(* Wrong: the slot of an unknown model is kept.                            *)
RefuseKeepingSlot(j) ==
    /\ At(j, "admitted") /\ Goto(j, "refused")
    /\ UNCHANGED <<cap, endless, jobs, active, row, old, log, pending, stored, mishaps>>

(* The configuration does not compile, or the model is unknown.            *)
Refuse(j) ==
    /\ At(j, "admitted") /\ Goto(j, "refused")
    /\ active' = active \ {j}
    /\ UNCHANGED <<cap, endless, jobs, row, old, log, pending, stored, mishaps>>

(* An error that no clause of the handler catches: a model without a path, *)
(* an unreadable registry, an output directory that cannot be written, a   *)
(* thread that cannot start.                                               *)
RequestEscapes(j) ==
    /\ pc[j] \in InRequest /\ Goto(j, "escaped")
    /\ Suffer(j, {"raised", "leaked"} \cup OrphanIf(j, row[j]))
    /\ UNCHANGED <<cap, endless, jobs, active, row, old, log, pending, stored>>

(* _persist_job, and the entry in _JOBS.                                   *)
Record(j) ==
    /\ At(j, "admitted") /\ Goto(j, "recorded")
    /\ row' = [row EXCEPT ![j] = "running"]
    /\ jobs' = [jobs EXCEPT ![j] = "running"]
    /\ UNCHANGED <<cap, endless, active, old, log, pending, stored, mishaps>>

(* create() commits and then reads the row back; either may raise.         *)
RecordFails(j) ==
    /\ At(j, "admitted") /\ Goto(j, "refused")
    /\ active' = active \ {j}
    /\ \E stat \in {"absent", "running"} :
          row' = [row EXCEPT ![j] = stat] /\ Suffer(j, {"raised"} \cup OrphanIf(j, stat))
    /\ UNCHANGED <<cap, endless, jobs, old, log, pending, stored>>

(* submit_video takes any camera: the reader of a live source does not end. *)
Launch(j) ==
    /\ At(j, "recorded") /\ Goto(j, "run")
    /\ endless' \in {endless, endless \cup {j}}
    /\ UNCHANGED <<cap, jobs, active, row, old, log, pending, stored, mishaps>>

-----------------------------------------------------------------------------
(* The job's thread: the pipeline.                                         *)

(* run() waits for room in the queue of a writer that has died.            *)
Hangs(j) ==
    /\ At(j, "run") /\ endless' = endless \cup {j}
    /\ UNCHANGED <<cap, pc, jobs, active, row, old, log, pending, stored, mishaps>>

PipelineEnds(j) ==
    /\ At(j, "run") /\ Goto(j, "insert") /\ endless' = endless \ {j}
    /\ \E crossed \in BOOLEAN, changes \in 0 .. MaxChanges :
          log' = [log EXCEPT ![j] = [crossed |-> crossed, changes |-> changes]]
    /\ UNCHANGED <<cap, jobs, active, row, old, pending, stored, mishaps>>

PipelineRaises(j) ==
    /\ At(j, "run") /\ Goto(j, "fail") /\ endless' = endless \ {j} /\ Suffer(j, {"raised"})
    /\ UNCHANGED <<cap, jobs, active, row, old, log, pending, stored>>

-----------------------------------------------------------------------------
(* _auto_ingest.  Crossings come first.  Their timestamp is the number of  *)
(* seconds that OutputWriter.write_frame has written, and _buckets asks it *)
(* for its minutes: a log with a crossing always raises.                   *)

InsertChange(j) ==
    /\ At(j, "insert") /\ ~log[j].crossed
    /\ \E next \in Rows(j) :
          /\ next = Cardinality(pending[j]) + 1
          /\ pending' = [pending EXCEPT ![j] = @ \cup {next}]
    /\ UNCHANGED <<cap, endless, pc, jobs, active, row, old, log, stored, mishaps>>

InsertsEnd(j) ==
    /\ At(j, "insert") /\ ~log[j].crossed
    /\ pending[j] = Rows(j) /\ Goto(j, "commit")
    /\ UNCHANGED <<cap, endless, jobs, active, row, old, log, pending, stored, mishaps>>

(* Wrong: the session is committed on the way out, not rolled back.        *)
IngestRaisesCommitting(j) ==
    /\ pc[j] \in {"insert", "commit", "again"} /\ Goto(j, "fail")
    /\ Suffer(j, IF At(j, "insert") /\ log[j].crossed THEN {} ELSE {"raised"})
    /\ stored' = [stored EXCEPT ![j] = @ \cup pending[j]]
    /\ pending' = [pending EXCEPT ![j] = {}]
    /\ UNCHANGED <<cap, endless, jobs, active, row, old, log>>

IngestRaises(j) ==
    /\ pc[j] \in {"insert", "commit", "again"} /\ Goto(j, "fail")
    /\ Suffer(j, IF At(j, "insert") /\ log[j].crossed THEN {} ELSE {"raised"})
    /\ pending' = [pending EXCEPT ![j] = {}]
    /\ UNCHANGED <<cap, endless, jobs, active, row, old, log, stored>>

(* events.commit(), then aggregates.commit() on the same session.          *)
CommitEvents(j) ==
    /\ At(j, "commit") /\ Goto(j, "again")
    /\ stored' = [stored EXCEPT ![j] = @ \cup pending[j]]
    /\ pending' = [pending EXCEPT ![j] = {}]
    /\ UNCHANGED <<cap, endless, jobs, active, row, old, log, mishaps>>

(* commit_with_retry meets a lock: it rolls back and will commit again.    *)
CommitLocked(j) ==
    /\ At(j, "commit") /\ pending[j] # {}
    /\ pending' = [pending EXCEPT ![j] = {}] /\ Suffer(j, {"locked"})
    /\ UNCHANGED <<cap, endless, pc, jobs, active, row, old, log, stored>>

CommitAggregates(j) ==
    /\ At(j, "again") /\ Goto(j, "tell")
    /\ UNCHANGED <<cap, endless, jobs, active, row, old, log, pending, stored, mishaps>>

-----------------------------------------------------------------------------
(* Completion in memory, then in the row; or failure in both.              *)

Tell(j) ==
    /\ At(j, "tell") /\ Goto(j, "save")
    /\ jobs' = [jobs EXCEPT ![j] = "completed"]
    /\ UNCHANGED <<cap, endless, active, row, old, log, pending, stored, mishaps>>

Save(j) ==
    /\ At(j, "save") /\ Goto(j, "end")
    /\ row' = [row EXCEPT ![j] = "completed"]
    /\ UNCHANGED <<cap, endless, jobs, active, old, log, pending, stored, mishaps>>

(* update() raises before its commit, or when it reads the row back.       *)
SaveRaises(j) ==
    /\ At(j, "save") /\ Goto(j, "fail") /\ Suffer(j, {"raised"})
    /\ \E stat \in {row[j], "completed"} : row' = [row EXCEPT ![j] = stat]
    /\ UNCHANGED <<cap, endless, jobs, active, old, log, pending, stored>>

(* The entry may be gone: completed in memory, and past its retention.     *)
Fail(j) ==
    /\ At(j, "fail")
    /\ IF jobs[j] = "absent"
       THEN /\ Goto(j, "end") /\ Suffer(j, OrphanIf(j, row[j]))
            /\ UNCHANGED jobs
       ELSE /\ Goto(j, "mark") /\ jobs' = [jobs EXCEPT ![j] = "failed"]
            /\ UNCHANGED mishaps
    /\ UNCHANGED <<cap, endless, active, row, old, log, pending, stored>>

Mark(j) ==
    /\ At(j, "mark") /\ Goto(j, "end")
    /\ row' = [row EXCEPT ![j] = "failed"]
    /\ UNCHANGED <<cap, endless, jobs, active, old, log, pending, stored, mishaps>>

MarkRaises(j) ==
    /\ At(j, "mark") /\ Goto(j, "end")
    /\ \E stat \in {row[j], "failed"} :
          row' = [row EXCEPT ![j] = stat] /\ Suffer(j, {"raised"} \cup OrphanIf(j, stat))
    /\ UNCHANGED <<cap, endless, jobs, active, old, log, pending, stored>>

(* Wrong: the slot is given back only by a thread that still has an entry. *)
EndIfPresent(j) ==
    /\ At(j, "end") /\ Goto(j, "done")
    /\ active' = IF jobs[j] = "absent" THEN active ELSE active \ {j}
    /\ UNCHANGED <<cap, endless, jobs, row, old, log, pending, stored, mishaps>>

(* The finally clause: pipeline.stop() and the slot.                       *)
End(j) ==
    /\ At(j, "end") /\ Goto(j, "done")
    /\ active' = active \ {j}
    /\ UNCHANGED <<cap, endless, jobs, row, old, log, pending, stored, mishaps>>

-----------------------------------------------------------------------------
(* The environment: time, an operator's settings, the end of the process.  *)

Ages(j) ==
    /\ j \notin old /\ jobs[j] # "absent" /\ old' = old \cup {j}
    /\ UNCHANGED <<cap, endless, pc, jobs, active, row, log, pending, stored, mishaps>>

SetCap ==
    /\ \E n \in Caps : cap' = n
    /\ UNCHANGED <<endless, pc, jobs, active, row, old, log, pending, stored, mishaps>>

(* Memory, threads and open transactions are lost; rows remain, and no     *)
(* start-up code looks at them.                                            *)
Restart ==
    LET cut(j) == pc[j] \in InRequest \cup InThread
    IN  /\ \E j \in Jobs : cut(j)
        /\ pc' = [j \in Jobs |-> IF cut(j) THEN "gone" ELSE pc[j]]
        /\ jobs' = [j \in Jobs |-> "absent"] /\ active' = {} /\ endless' = {}
        /\ pending' = [j \in Jobs |-> {}]
        /\ mishaps' = [j \in Jobs |-> (mishaps[j] \ {"leaked"})
                \cup IF cut(j) THEN {"raised"} \cup OrphanIf(j, row[j]) ELSE {}]
        /\ UNCHANGED <<cap, row, old, log, stored>>

Request(j) == Admit(j) \/ Refuse(j) \/ RequestEscapes(j) \/ Record(j) \/ RecordFails(j)
                 \/ Launch(j)
Thread(j) ==
    \/ PipelineEnds(j) \/ PipelineRaises(j)
    \/ InsertChange(j) \/ InsertsEnd(j) \/ IngestRaises(j)
    \/ CommitEvents(j) \/ CommitLocked(j) \/ CommitAggregates(j)
    \/ Tell(j) \/ Save(j) \/ SaveRaises(j) \/ Fail(j) \/ Mark(j) \/ MarkRaises(j) \/ End(j)

Next ==
    \/ \E j \in Jobs : Request(j) \/ Hangs(j) \/ Thread(j) \/ Ages(j)
    \/ TurnAway \/ SetCap \/ Restart

Spec == Init /\ [][Next]_vars

(* A thread is scheduled, and its pipeline is finite unless it is one of   *)
(* the endless; a request is not obliged to arrive, nor the process to     *)
(* last.                                                                   *)
FairSpec ==
    Spec /\ \A j \in Jobs : WF_vars(j \notin endless /\ Thread(j)) /\ WF_vars(Launch(j))

-----------------------------------------------------------------------------
(* get_job_stats: from the rows, or from memory when there is no database. *)
JobStats(connected) ==
    LET count(f, S) == Cardinality({j \in Jobs : f[j] \in S})
    IN  IF connected
        THEN [total  |-> count(row, Statuses \ {"absent"}), active |-> count(row, {"running"}),
              completed |-> count(row, {"completed"}), failed |-> count(row, {"failed"})]
        ELSE [total  |-> count(jobs, Statuses \ {"absent"}), active |-> Cardinality(active),
              completed |-> count(jobs, {"completed"}), failed |-> count(jobs, {"failed"})]

(* A job's log is imported as a whole or not at all, whatever fails and    *)
(* whenever the process ends, and a job that is reported as completed has  *)
(* all of it stored -- unless a lock rolled the rows back before the       *)
(* commit that went through.  (_auto_ingest: "atomically".)                *)
StoredAsReported ==
    \A j \in Jobs :
        /\ stored[j] \in {{}, Rows(j)}
        /\ "completed" \in {row[j], jobs[j]} /\ "locked" \notin mishaps[j] => stored[j] = Rows(j)

(* The two answers of get_job_stats differ, in the number of jobs at work, *)
(* by no more than the rows that were orphaned: by a restart, or by a      *)
(* database fault in the last write of a job.                              *)
StatsAgree ==
    JobStats(TRUE).active
        <= JobStats(FALSE).active + Cardinality({j \in Jobs : "orphaned" \in mishaps[j]})

(* The slots taken are those of the request being handled, of the threads  *)
(* that live, and of requests that ended in an uncaught error: no failure, *)
(* retention or restart on any other path eats into the cap, and what is   *)
(* told of the jobs at work agrees.                                        *)
SlotsAreUsed ==
    /\ active = {j \in Jobs : pc[j] \in InRequest \cup InThread \/ "leaked" \in mishaps[j]}
    /\ StatsAgree

-----------------------------------------------------------------------------
(* The inductive invariants.  ImportInv follows the rows of a job through  *)
(* its thread: nothing is committed before the first commit, a transaction *)
(* that is open there has all the rows or lost all of them to a lock, and  *)
(* "completed" is said only past the second commit.                        *)
Unimported == {"none", "admitted", "recorded", "run", "insert", "commit"}

Imported(j) ==
    /\ stored[j] \in {{}, Rows(j)}
    /\ pc[j] \in Unimported => stored[j] = {}
    /\ pending[j] # {} => (pc[j] \in {"insert", "commit"} /\ pending[j] \subseteq Rows(j))
    /\ pc[j] = "commit" =>
          pending[j] = Rows(j) \/ (pending[j] = {} /\ "locked" \in mishaps[j])
    /\ pc[j] \in {"again", "tell", "save"} /\ "locked" \notin mishaps[j] => stored[j] = Rows(j)
    /\ "completed" \in {row[j], jobs[j]} =>
          /\ pc[j] \notin Unimported \cup {"again", "tell"}
          /\ "locked" \notin mishaps[j] => stored[j] = Rows(j)

ImportInv == \A j \in Jobs : Imported(j)

(* A slot is lost only by a request that escaped, and until a restart.     *)
SlotsInv ==
    /\ active = {j \in Jobs : pc[j] \in InRequest \cup InThread \/ "leaked" \in mishaps[j]}
    /\ \A j \in Jobs : "leaked" \in mishaps[j] => pc[j] = "escaped"

(* A row is written when the request is recorded; it says running while    *)
(* there is somebody to change it, or it is an orphan.                     *)
Watched(j) ==
    /\ pc[j] \in {"none", "admitted"} => row[j] = "absent"
    /\ pc[j] \in InThread \cup {"recorded", "done"} => row[j] # "absent"
    /\ row[j] = "running" =>
          pc[j] \in InRequest \cup (InThread \ {"end"}) \/ "orphaned" \in mishaps[j]

RowsInv == \A j \in Jobs : Watched(j)

(* What LaunchedJobSettles leads to, as a matter of safety: a job that is  *)
(* done holds no slot and is not left at running unless it was orphaned.   *)
DoneIsSettled ==
    \A j \in Jobs :
        At(j, "done") => /\ j \notin active
                         /\ row[j] \in Finished \/ "orphaned" \in mishaps[j]

(* A job at work comes to be settled: its slot is free again, and its row  *)
(* has a final status unless it was orphaned.  The exception is a pipeline *)
(* without end, of a live camera or behind a dead writer: it keeps slot    *)
(* and row until the process ends.                                         *)
LaunchedJobSettles ==
    \A j \in Jobs :
        pc[j] \in InThread \ {"run"} \/ (At(j, "run") /\ j \notin endless) ~>
            \/ j \notin active /\ (row[j] \in Finished \/ "orphaned" \in mishaps[j])
            \/ j \in endless

(* A job none of whose dependencies has failed is completed: the ingest    *)
(* "return[s] the inserted event count".  It does not hold: see the        *)
(* timestamps above.                                                       *)
FaultlessJobCompletes ==
    \A j \in Jobs : At(j, "done") /\ "raised" \notin mishaps[j] => row[j] = "completed"
=============================================================================
