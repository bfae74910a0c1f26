--------------------------- MODULE StorageWorker ---------------------------
(***************************************************************************)
(* packages/tf_worker/storage/storage_worker.py: the bounded queue between *)
(* an inference loop and the database, the daemon thread that drains it in *)
(* batches, and the stop() of a third thread.                              *)
(*                                                                         *)
(* Three threads take steps.  The producer (one capture or frame loop per  *)
(* worker) calls enqueue and enqueue_lane_change; the worker runs          *)
(* _worker_loop; the owner calls stop once.  A step of the worker ends     *)
(* wherever the producer or the owner can see or change what it shares     *)
(* with them: at each queue operation, and at commit and publish.          *)
(*                                                                         *)
(* The database session, the publisher and the adapter factory are         *)
(* outside: each call may succeed or fail in every way the code tells      *)
(* apart.  Frames, crops and log lines are left out.                       *)
(***************************************************************************)
EXTENDS Naturals, Sequences, FiniteSets, Functions

CONSTANTS
    Crossings,      \* line-crossing events, each offered once
    LaneChanges,    \* lane-change events, each offered once
    Sentinel,       \* the None that stop() puts on the queue
    NoEvent,        \* the producer is between two calls
    QMax,           \* queue_maxsize
    QCrit,          \* _QUEUE_CRIT_THRESHOLD
    BatchMax,       \* _BATCH_MAX
    DeadMax         \* _DEAD_LETTER_MAX

Events == Crossings \cup LaneChanges

ASSUME EventsAssumption ==
    /\ Crossings \cap LaneChanges = {}
    /\ Sentinel \notin Events
    /\ NoEvent \notin Events

ASSUME BoundsAssumption ==
    /\ QMax \in Nat \ {0}
    /\ QCrit \in Nat \ {0}
    /\ BatchMax \in Nat \ {0}
    /\ DeadMax \in Nat \ {0}

VARIABLES
    unsent,         \* events the pipeline has not offered yet
    pending,        \* the crossing whose qsize() check passed, not yet put
    queue,          \* self._queue
    adapter,        \* "absent": to be made by the factory; "files": there is none
    wpc,            \* where _worker_loop is
    draining,       \* the loop has met the sentinel
    batch,          \* the worker's local batch (or drain) list
    session,        \* rows added to the session and not committed
    rollups,        \* crossings whose bucket upserts ran in the open transaction
    durable,        \* committed event rows, in commit order
    rolled,         \* crossings counted in committed aggregate buckets
    published,      \* events that reached traffic:events
    deadLetter,     \* self._dead_letter
    dropped,        \* self.dropped_events
    processed,      \* self.total_processed
    errors,         \* self.total_errors
    expunged,       \* history: rows a commit retry rolled back
    owner           \* the thread that calls stop()

producerVars == <<unsent, pending>>
workerVars   == <<adapter, wpc, draining, batch>>
dbVars       == <<session, rollups, durable, rolled, expunged>>
outcomeVars  == <<published, deadLetter, dropped, processed, errors>>
vars == <<producerVars, queue, workerVars, dbVars, outcomeVars, owner>>

(* One type invariant.  The dead-letter list and the queue never outgrow    *)
(* their limits, and every counter is a natural number.                     *)
TypeOK ==
    /\ unsent \in SUBSET Events
    /\ pending \in Crossings \cup {NoEvent}
    /\ queue \in Seq(Events \cup {Sentinel}) /\ Len(queue) <= QMax
    /\ adapter \in {"absent", "ready", "files"}
    /\ wpc \in {"get", "ensure", "collect", "resignal", "insert", "commit",
                "publish", "drain", "stopped"}
    /\ draining \in BOOLEAN
    /\ batch \in Seq(Events)
    /\ session \in SUBSET Events
    /\ rollups \in SUBSET Crossings
    /\ durable \in Seq(Events)
    /\ rolled \in SUBSET Crossings
    /\ published \in SUBSET Events
    /\ deadLetter \in Seq(Events) /\ Len(deadLetter) <= DeadMax
    /\ dropped \in Nat /\ processed \in Nat /\ errors \in Nat
    /\ expunged \in SUBSET Events
    /\ owner \in {"running", "joining"}

(* The constructor starts the thread at once.  The live registry and the    *)
(* camera worker pass a factory; an offline job passes neither adapter nor  *)
(* factory.                                                                 *)
Init ==
    /\ unsent = Events /\ pending = NoEvent
    /\ queue = <<>>
    /\ adapter \in {"absent", "files"}
    /\ wpc = "get" /\ draining = FALSE /\ batch = <<>>
    /\ session = {} /\ rollups = {}
    /\ durable = <<>> /\ rolled = {} /\ expunged = {}
    /\ published = {} /\ deadLetter = <<>>
    /\ dropped = 0 /\ processed = 0 /\ errors = 0
    /\ owner = "running"

----------------------------------------------------------------------------
(* The queue and the dead-letter list.                                     *)

HasRoom == Len(queue) < QMax

(* _append_dead_letter: what arrives at a full list is let go.              *)
Lettered(s) ==
    LET all == deadLetter \o s
    IN  IF Len(all) <= DeadMax THEN all ELSE SubSeq(all, 1, DeadMax)

(* The list as _process writes it: the oldest entry makes way.              *)
LetteredEvicting(e) ==
    Append(IF Len(deadLetter) < DeadMax THEN deadLetter ELSE Tail(deadLetter), e)

(* A refused event is counted and dead-lettered, never lost silently.       *)
RefuseNoLetter(e) == dropped' = dropped + 1 /\ UNCHANGED deadLetter
Refuse(e) == dropped' = dropped + 1 /\ deadLetter' = Lettered(<<e>>)

----------------------------------------------------------------------------
(* The producer.                                                           *)

(* enqueue, first half: qsize() is read without the queue's lock.           *)
ReadDepth(e) ==
    /\ pending = NoEvent
    /\ e \in unsent \cap Crossings
    /\ unsent' = unsent \ {e}
    /\ IF Len(queue) >= QCrit
       THEN Refuse(e) /\ UNCHANGED pending
       ELSE pending' = e /\ UNCHANGED <<dropped, deadLetter>>
    /\ UNCHANGED <<queue, workerVars, dbVars, published, processed, errors, owner>>

(* enqueue, second half: put_nowait, or the Full branch.                    *)
PutCrossing ==
    /\ pending # NoEvent
    /\ pending' = NoEvent
    /\ IF HasRoom
       THEN queue' = Append(queue, pending) /\ UNCHANGED <<dropped, deadLetter>>
       ELSE Refuse(pending) /\ UNCHANGED queue
    /\ UNCHANGED <<unsent, workerVars, dbVars, published, processed, errors, owner>>

(* enqueue_lane_change: no depth check, only Full.                          *)
PutLaneChange(e) ==
    /\ pending = NoEvent
    /\ e \in unsent \cap LaneChanges
    /\ unsent' = unsent \ {e}
    /\ IF HasRoom
       THEN queue' = Append(queue, e) /\ UNCHANGED <<dropped, deadLetter>>
       ELSE Refuse(e) /\ UNCHANGED queue
    /\ UNCHANGED <<pending, workerVars, dbVars, published, processed, errors, owner>>

Producer ==
    \/ \E e \in Crossings : ReadDepth(e)
    \/ PutCrossing
    \/ \E e \in LaneChanges : PutLaneChange(e)

----------------------------------------------------------------------------
(* stop().                                                                 *)

(* The sentinel is put without waiting, and Full is suppressed.  The stop   *)
(* event itself changes nothing: both branches of the loop's Empty handler  *)
(* continue.  The join that follows has a timeout and changes nothing.      *)
Stop ==
    /\ owner = "running"
    /\ owner' = "joining"
    /\ queue' = IF HasRoom THEN Append(queue, Sentinel) ELSE queue
    /\ UNCHANGED <<producerVars, workerVars, dbVars, outcomeVars>>

----------------------------------------------------------------------------
(* The worker: taking work.                                                *)

(* The blocking get of _worker_loop; the sentinel ends the loop.            *)
Take ==
    /\ wpc = "get" /\ queue # <<>>
    /\ queue' = Tail(queue)
    /\ IF Head(queue) = Sentinel
       THEN wpc' = "drain" /\ draining' = TRUE /\ UNCHANGED batch
       ELSE wpc' = "ensure" /\ batch' = <<Head(queue)>> /\ UNCHANGED draining
    /\ UNCHANGED <<producerVars, adapter, dbVars, outcomeVars, owner>>

(* _ensure_adapter: the factory is called once it is first needed.          *)
EnsureAdapter ==
    /\ wpc = "ensure"
    /\ adapter' = IF adapter = "absent" THEN "ready" ELSE adapter
    /\ wpc' = IF draining THEN "insert" ELSE "collect"
    /\ UNCHANGED <<producerVars, queue, draining, batch, dbVars, outcomeVars, owner>>

(* The factory raises.  The loop dead-letters its one item; the drain gives *)
(* up on its whole list, which nothing counts or keeps.                     *)
AdapterFails ==
    /\ wpc = "ensure" /\ adapter = "absent"
    /\ IF draining
       THEN wpc' = "stopped" /\ UNCHANGED <<batch, errors, deadLetter>>
       ELSE /\ wpc' = "get"
            /\ batch' = <<>>
            /\ errors' = errors + 1
            /\ deadLetter' = Lettered(batch)
    /\ UNCHANGED <<producerVars, queue, adapter, draining, dbVars, published,
                   dropped, processed, owner>>

CollectItem ==
    /\ wpc = "collect" /\ Len(batch) < BatchMax
    /\ queue # <<>>
    /\ queue' = Tail(queue)
    /\ IF Head(queue) = Sentinel
       THEN wpc' = "resignal" /\ UNCHANGED batch
       ELSE batch' = Append(batch, Head(queue)) /\ UNCHANGED wpc
    /\ UNCHANGED <<producerVars, adapter, draining, dbVars, outcomeVars, owner>>

CollectEndsWhenFull ==
    /\ wpc = "collect" /\ Len(batch) = BatchMax
    /\ wpc' = "insert"
    /\ UNCHANGED <<producerVars, queue, adapter, draining, batch, dbVars, outcomeVars, owner>>
(* The batch is full, the queue empty, or the deadline past.                *)
CollectEnds ==
    /\ wpc = "collect"
    /\ wpc' = "insert"
    /\ UNCHANGED <<producerVars, queue, adapter, draining, batch, dbVars, outcomeVars, owner>>

(* The sentinel met while collecting goes to the back of the queue, unless  *)
(* the producer has filled it meanwhile.                                    *)
ResignalForgets == wpc = "resignal" /\ wpc' = "insert"
                   /\ UNCHANGED <<producerVars, queue, adapter, draining, batch,
                                  dbVars, outcomeVars, owner>>
Resignal ==
    /\ wpc = "resignal"
    /\ wpc' = "insert"
    /\ queue' = IF HasRoom THEN Append(queue, Sentinel) ELSE queue
    /\ UNCHANGED <<producerVars, adapter, draining, batch, dbVars, outcomeVars, owner>>

----------------------------------------------------------------------------
(* The worker: _process_batch and _process.                                *)

AfterBatch == IF draining THEN "stopped" ELSE "get"

FinishBatch ==
    /\ processed' = processed + Len(batch)
    /\ batch' = <<>>
    /\ wpc' = AfterBatch

(* Anything _process_batch raises: the loop dead-letters the batch and      *)
(* rolls back; the drain only counts it, and closes the session.            *)
FailBatchUncounted ==
    /\ batch' = <<>> /\ session' = {} /\ rollups' = {}
    /\ wpc' = AfterBatch
    /\ deadLetter' = IF draining THEN deadLetter ELSE Lettered(batch)
    /\ UNCHANGED <<errors, queue>>
FailBatch ==
    /\ errors' = errors + Len(batch)
    /\ batch' = <<>> /\ session' = {} /\ rollups' = {}
    /\ wpc' = AfterBatch
    /\ deadLetter' = IF draining THEN deadLetter ELSE Lettered(batch)
    /\ UNCHANGED queue

(* Every payload becomes a row of the session and, when the upsert works,   *)
(* a count in the open transaction; an OSError, KeyError or ValueError of   *)
(* the upsert is logged and the row kept.                                   *)
Insert ==
    /\ wpc = "insert" /\ adapter = "ready"
    /\ session' = Range(batch)
    /\ rollups' \in SUBSET (Range(batch) \cap Crossings)
    /\ wpc' = "commit"
    /\ UNCHANGED <<producerVars, queue, adapter, draining, batch, durable, rolled,
                   expunged, outcomeVars, owner>>

(* Without an adapter there is nothing to write.                            *)
SkipDatabase ==
    /\ wpc = "insert" /\ adapter = "files"
    /\ wpc' = "publish"
    /\ UNCHANGED <<producerVars, queue, adapter, draining, batch, dbVars, outcomeVars, owner>>

(* An open breaker, a missing key or a bad value on the path of a single    *)
(* crossing: _process dead-letters it and returns, so the loop goes on to   *)
(* count it as processed.                                                   *)
RejectSingle ==
    /\ wpc = "insert" /\ adapter = "ready"
    /\ Len(batch) = 1 /\ batch[1] \in Crossings
    /\ deadLetter' = LetteredEvicting(batch[1])
    /\ FinishBatch
    /\ UNCHANGED <<producerVars, queue, adapter, draining, dbVars, published,
                   dropped, errors, owner>>

(* Any other failure of the inserts, a locked database included.            *)
InsertFails ==
    /\ wpc = "insert" /\ adapter = "ready"
    /\ FailBatch
    /\ UNCHANGED <<producerVars, adapter, draining, durable, rolled, expunged,
                   published, dropped, processed, owner>>

(* session.commit() of commit_with_retry: rows and counts together.         *)
Commit ==
    /\ wpc = "commit"
    /\ durable' = IF session = {} THEN durable ELSE durable \o batch
    /\ rolled' = rolled \cup rollups
    /\ session' = {} /\ rollups' = {}
    /\ wpc' = "publish"
    /\ UNCHANGED <<producerVars, queue, adapter, draining, batch, expunged,
                   outcomeVars, owner>>

(* The commit finds the database locked: commit_with_retry rolls back,      *)
(* which expunges the rows the session held, and loops to commit again.     *)
(* Only a transaction that has executed nothing can still meet the lock: an *)
(* upsert would have taken it.                                              *)
CommitLockedKeepsRollups ==
    /\ wpc = "commit" /\ session # {}
    /\ session' = {} /\ expunged' = expunged \cup session
    /\ UNCHANGED <<producerVars, queue, workerVars, rollups, durable, rolled,
                   outcomeVars, owner>>
CommitLocked ==
    /\ wpc = "commit" /\ session # {} /\ rollups = {}
    /\ session' = {}
    /\ expunged' = expunged \cup session
    /\ UNCHANGED <<producerVars, queue, workerVars, rollups, durable, rolled,
                   outcomeVars, owner>>

(* Any other commit error is raised.                                        *)
CommitErrorIgnored ==
    /\ wpc = "commit"
    /\ session' = {} /\ rollups' = {} /\ wpc' = "publish"
    /\ UNCHANGED <<producerVars, queue, adapter, draining, batch, durable, rolled,
                   expunged, outcomeVars, owner>>
CommitFails ==
    /\ wpc = "commit"
    /\ FailBatch
    /\ UNCHANGED <<producerVars, adapter, draining, durable, rolled, expunged,
                   published, dropped, processed, owner>>

(* One publish per event, after the commit.  Connection, OS and value       *)
(* errors are swallowed, so any part of the batch may have been published.  *)
Publish ==
    /\ wpc = "publish"
    /\ \E sent \in SUBSET Range(batch) : published' = published \cup sent
    /\ FinishBatch
    /\ UNCHANGED <<producerVars, queue, adapter, draining, dbVars, deadLetter,
                   dropped, errors, owner>>

(* An error of another class (an open breaker, the client library's own)    *)
(* leaves _process_batch at the k-th event, with the rows committed.        *)
PublishRaises ==
    /\ wpc = "publish"
    /\ \E k \in 1..Len(batch) :
         \E sent \in SUBSET Range(SubSeq(batch, 1, k - 1)) :
            published' = published \cup sent
    /\ FailBatch
    /\ UNCHANGED <<producerVars, adapter, draining, durable, rolled, expunged,
                   dropped, processed, owner>>

----------------------------------------------------------------------------
(* The worker: the drain after the sentinel.                               *)

DrainItemPrepends ==
    /\ wpc = "drain" /\ queue # <<>>
    /\ queue' = Tail(queue)
    /\ batch' = IF Head(queue) = Sentinel THEN batch ELSE <<Head(queue)>> \o batch
    /\ UNCHANGED <<producerVars, adapter, wpc, draining, dbVars, outcomeVars, owner>>
DrainItem ==
    /\ wpc = "drain" /\ queue # <<>>
    /\ queue' = Tail(queue)
    /\ batch' = IF Head(queue) = Sentinel THEN batch ELSE Append(batch, Head(queue))
    /\ UNCHANGED <<producerVars, adapter, wpc, draining, dbVars, outcomeVars, owner>>

DrainEnds ==
    /\ wpc = "drain" /\ queue = <<>>
    /\ wpc' = IF batch = <<>> THEN "stopped" ELSE "ensure"
    /\ UNCHANGED <<producerVars, queue, adapter, draining, batch, dbVars, outcomeVars, owner>>

Worker ==
    \/ Take \/ EnsureAdapter \/ AdapterFails
    \/ CollectItem \/ CollectEnds \/ Resignal
    \/ Insert \/ SkipDatabase \/ RejectSingle \/ InsertFails
    \/ Commit \/ CommitLocked \/ CommitFails
    \/ Publish \/ PublishRaises
    \/ DrainItem \/ DrainEnds

Next == Producer \/ Stop \/ Worker

Spec == Init /\ [][Next]_vars

(* The worker thread runs whenever it can; the pipeline may stop offering   *)
(* events and stop() may never be called.  A put follows the depth check of *)
(* the same call.                                                           *)
FairSpec == Spec /\ WF_vars(Worker) /\ WF_vars(PutCrossing)

----------------------------------------------------------------------------
(* Properties.                                                             *)

Queued == Range(queue) \ {Sentinel}
Accepted == Events \ unsent

(* Backpressure never loses an event silently (the module's "dead-letter    *)
(* list instead of silent drop"): until the worker has stopped, an accepted *)
(* event is still in hand, or durable, or dead-lettered.  Three ways out    *)
(* are named: a full dead-letter list, a worker without a database, and a   *)
(* commit retry that has expunged rows.                                     *)
NoSilentLoss ==
    (wpc # "stopped" /\ Len(deadLetter) < DeadMax /\ adapter # "files" /\ expunged = {})
      => Accepted \subseteq Queued \cup Range(batch) \cup {pending}
                              \cup Range(durable) \cup Range(deadLetter)

(* The counters of the final log line, with what is still queued or in      *)
(* hand, add up to the events offered, in every state: nothing is counted   *)
(* twice or not at all, whichever way a batch ends.  What a drain without   *)
(* adapter gives up on is the only thing left in hand when the worker ends. *)
CountersAddUp ==
    Cardinality(Accepted) =
        dropped + processed + errors + Len(batch) + Cardinality(Queued)
        + (IF pending = NoEvent THEN 0 ELSE 1)

(* An event is stored at most once, and never while it could be stored      *)
(* again: a failure after the commit must not put it back on the queue.     *)
StoredOnce ==
    /\ IsInjective(durable)
    /\ Range(durable) \cap (Queued \cup {pending} \cup unsent) = {}
    /\ wpc \in {"insert", "commit"} => Range(durable) \cap Range(batch) = {}

(* Subscribers never learn of an event that the database does not hold,     *)
(* unless a commit retry expunged it.                                       *)
PublishedAfterStored ==
    adapter # "files" => published \subseteq Range(durable) \cup expunged

(* The count of a crossing is committed with its row or not at all, through *)
(* failures and retries: aggregates never run ahead of the events.          *)
RollupsMatchRows == rolled \subseteq Range(durable)

(* The loop holds nothing between two batches.                              *)
EmptyHanded == wpc = "get" => batch = <<>>

(* Nothing is collected or inserted before the adapter is settled.          *)
AdapterSettled ==
    wpc \in {"collect", "resignal", "insert", "commit", "publish"}
        => adapter # "absent"

(* The open transaction holds the whole batch, or nothing of it any more.   *)
SessionHoldsBatch ==
    /\ wpc # "commit" => session = {} /\ rollups = {}
    /\ wpc = "commit" =>
          /\ adapter = "ready"
          /\ rollups \subseteq session
          /\ \/ session = Range(batch)
             \/ session = {} /\ Range(batch) \subseteq expunged

(* What is being published was committed, or expunged by a retry.           *)
PublishingStored ==
    (wpc = "publish" /\ adapter # "files")
        => Range(batch) \subseteq Range(durable) \cup expunged

(* Where the worker's batch stands towards the adapter, the session and the *)
(* store at each place of its loop: the argument of the proofs.             *)
HandInv ==
    EmptyHanded /\ AdapterSettled /\ SessionHoldsBatch /\ PublishingStored

(* stop() ends the worker as long as no lane change was ever queued: the    *)
(* depth check keeps the queue of crossings short of its limit, so that the *)
(* sentinel always fits.                                                    *)
StopEndsCrossingWorker ==
    [](LaneChanges \subseteq unsent) => ((owner = "joining") ~> (wpc = "stopped"))

(* A queued event does not stay in the queue or in the worker's hands for   *)
(* ever, whatever fails, unless the worker ends before it gets there.       *)
QueuedIsSettled ==
    \A e \in Events :
        (e \in Queued) ~> (wpc = "stopped" \/ e \notin Queued \cup Range(batch))

(* Each event is in one place at most, and there once: not offered yet, in  *)
(* the producer's hand, queued, in the worker's hand or stored.  What is    *)
(* being published is in the worker's hand and stored.                      *)
NoDuplicates == IsInjective(queue) /\ IsInjective(batch) /\ IsInjective(durable)

Apart ==
    /\ pending \notin Queued \cup unsent
    /\ Queued \cap unsent = {}
    /\ Range(batch) \cap (Queued \cup {pending} \cup unsent) = {}
    /\ Range(durable) \cap (Queued \cup {pending} \cup unsent) = {}
    /\ wpc # "publish" => Range(durable) \cap Range(batch) = {}

(* The sentinel is put once, by stop(), and is either on its way through    *)
(* the queue, or in the hand of a worker about to put it back, or has begun *)
(* the drain.                                                               *)
OneSentinel ==
    /\ draining \/ wpc = "resignal" => owner = "joining"
    /\ wpc \in {"collect", "resignal"} => ~draining
    /\ wpc = "drain" => draining
    /\ Sentinel \in Range(queue) =>
          owner = "joining" /\ ~draining /\ wpc # "resignal"

(* The loop ensures its adapter for a single item; the drain for its list.  *)
OneTaken == wpc = "ensure" /\ ~draining => Len(batch) = 1

(* Where an event and the sentinel can be: with OneTaken, the argument of   *)
(* the proofs of StoredOnce, CountersAddUp and the ledger.                  *)
PlaceInv == NoDuplicates /\ Apart /\ OneSentinel

(* As long as no lane change was queued, the depth check holds the queue,   *)
(* with the crossing in the producer's hand, to the critical depth; only    *)
(* the sentinel can come on top of it.                                      *)
CrossingsWithinDepth ==
    LaneChanges \subseteq unsent =>
        Len(queue) + (IF pending = NoEvent THEN 0 ELSE 1)
            <= QCrit + (IF Sentinel \in Range(queue) THEN 1 ELSE 0)

(* stop() reaches the worker of a camera without lane changes, when the     *)
(* queue is longer than the critical depth: the sentinel it put is in the   *)
(* queue, in the hand of a worker about to put it back, or has been met.    *)
(* Neither stop() nor the putting back ever finds the queue full.           *)
StopReachesWorker ==
    QCrit < QMax /\ LaneChanges \subseteq unsent /\ owner = "joining" =>
        draining \/ wpc = "resignal" \/ Sentinel \in Range(queue)

(* What waits in a queue that holds the sentinel once or not at all.        *)
WithoutSentinel(s) ==
    IF Sentinel \in Range(s)
    THEN LET k == CHOOSE k \in DOMAIN s : s[k] = Sentinel
         IN  [i \in 1 .. Len(s) - 1 |-> IF i < k THEN s[i] ELSE s[i + 1]]
    ELSE s

(* The promise of the ledger: batches are stored whole, in order.           *)
Ledger == INSTANCE EventLedger WITH
    held <- (IF wpc = "publish" THEN <<>> ELSE batch) \o WithoutSentinel(queue),
    stored <- durable

ImplementsLedger == Ledger!LedgerSpec

(* "Graceful shutdown: drains queue fully before exit" and "Signal stop,    *)
(* drain queue, then join": after stop() the worker drains and ends.        *)
StopEndsWorker == (owner = "joining") ~> (wpc = "stopped")

(* "queues dropped events to a dead-letter list instead of silent drop":    *)
(* what a commit retry rolled back is kept somewhere.                       *)
RetryLosesNothing ==
    expunged \subseteq Range(batch) \cup Range(durable) \cup Range(deadLetter)
=============================================================================
