----------------------------- MODULE IngestQueue -----------------------------
(***************************************************************************)
(* The durable ingest queue of the backend (ingest/sync-queue.service.ts): *)
(* POST /sync/ingest is answered 202 as soon as the batch is in a Redis    *)
(* list; a drain loop moves it to a second list and starts a worker that   *)
(* runs IngestService.processIngest; a status hash keyed by batch answers  *)
(* repeated posts.                                                         *)
(*                                                                         *)
(* Node is single threaded, so every action below is the code between two  *)
(* awaits.  The Redis structures and the telemetry rows survive a restart, *)
(* activeTenants, draining, stopped and every running handler do not.      *)
(***************************************************************************)
EXTENDS Naturals, Sequences, FiniteSets

CONSTANTS
  Batch,        \* job ids: tenant:module:syncRunId:batchIndex
  Tenant,
  Run,          \* sync run ids
  TenantOf,     \* [Batch -> Tenant]
  RunOf,        \* [Batch -> Run]
  LastBatch,    \* the batches with batchIndex = totalBatches - 1
  Unsafe,       \* inventory batches whose source metadata is refused
  Handler,      \* concurrent HTTP requests in enqueue()
  Drain,        \* concurrent invocations of drain()
  Worker,       \* concurrent invocations of process()
  None,         \* no batch
  MaxDepth,     \* SYNC_QUEUE_MAX_DEPTH
  ScanLimit,    \* entries takeNextJob looks at (101 in the code)
  MaxAttempts,  \* executions of one processIngest call (maxRetryAttempts)
  MaxPosts,     \* bound: posts received
  MaxRestarts   \* bound: process restarts

ASSUME QueueAssumption ==
  /\ TenantOf \in [Batch -> Tenant]
  /\ RunOf \in [Batch -> Run]
  /\ LastBatch \subseteq Batch
  /\ Unsafe \subseteq Batch
  /\ None \notin Batch
  /\ IsFiniteSet(Handler) /\ IsFiniteSet(Tenant)
  /\ MaxDepth \in Nat \ {0}
  /\ ScanLimit \in Nat \ {0}
  /\ MaxAttempts \in Nat \ {0}
  /\ MaxPosts \in Nat
  /\ MaxRestarts \in Nat

VARIABLES
  queue,       \* Redis list sync:ingest:queue
  processing,  \* Redis list sync:ingest:queue:processing
  status,      \* Redis hash sync:ingest:queue:status
  runStatus,   \* sync_runs.status
  batchRow,    \* sync_run_batches.status
  active,      \* activeTenants
  draining,    \* the draining flag
  stopped,     \* the stopped flag
  handler,     \* [Handler -> what the request is about to do]
  drain,       \* [Drain -> what the loop is about to do]
  worker,      \* [Worker -> what the job execution is about to do]
  posts, restarts,
  applied,     \* history: commits of each batch's rows
  stranded,    \* history: batches a restart took out of every list
  redo         \* history: batches that were given a reason to run again

redis     == <<queue, processing, status>>
telemetry == <<runStatus, batchRow>>
loop      == <<active, draining, drain>>
history   == <<applied, stranded, redo>>
vars == <<redis, telemetry, loop, stopped, handler, worker, posts, restarts, history>>

QueueStatus == {"none", "queued", "processing", "ok", "failed"}
RunStates   == {"none", "queued", "running", "ok", "failed"}
TerminalRun == {"ok", "failed"}

HandlerIdle == [pc |-> "idle", batch |-> None, read |-> "none", depth |-> 0]
DrainOff    == [pc |-> "off", seen |-> 0, index |-> 0, job |-> None]
WorkerIdle  == [pc |-> "idle", job |-> None, attempt |-> 0]

Init ==
  /\ queue = <<>> /\ processing = <<>>
  /\ status = [b \in Batch |-> "none"]
  /\ runStatus = [r \in Run |-> "none"]
  /\ batchRow = [b \in Batch |-> "none"]
  /\ active = {} /\ draining = FALSE /\ stopped = FALSE
  /\ handler = [h \in Handler |-> HandlerIdle]
  /\ drain = [d \in Drain |-> DrainOff]
  /\ worker = [w \in Worker |-> WorkerIdle]
  /\ posts = 0 /\ restarts = 0
  /\ applied = [b \in Batch |-> 0]
  /\ stranded = {} /\ redo = {}

-----------------------------------------------------------------------------
(* Helpers.                                                                *)

MinOf(a, b) == IF a <= b THEN a ELSE b

\* removeQueuedIndex: LSET marker; LREM marker in one MULTI.
RemoveQueuedIndex(s, i) ==
  IF i \in 1 .. Len(s) THEN SubSeq(s, 1, i - 1) \o SubSeq(s, i + 1, Len(s)) ELSE s

\* LREM key 1 raw: drop the first equal entry.
RemoveFirst(s, b) ==
  LET first == {i \in 1 .. Len(s) : s[i] = b /\ \A j \in 1 .. i - 1 : s[j] # b}
  IN IF first = {} THEN s ELSE RemoveQueuedIndex(s, CHOOSE i \in first : TRUE)

Elements(s) == {s[i] : i \in 1 .. Len(s)}

\* Fault: the CASE of the upsert is lost.
RunRecorded_Always(r) == "queued"

\* recordBatch's upsert of sync_runs: anything but a terminal run becomes queued.
RunRecorded(r) == IF runStatus[r] \in TerminalRun THEN runStatus[r] ELSE "queued"

\* Fault: no test of the draining flag.
DrainSoon_NoFlag(ds) ==
  /\ draining' = TRUE
  /\ IF \E d \in Drain : ds[d].pc = "off"
     THEN \E d \in Drain : ds[d].pc = "off" /\ drain' = [ds EXCEPT ![d].pc = "loop"]
     ELSE drain' = ds

\* drainSoon on the loop state ds: schedules one drain() unless one is draining.
DrainSoon(ds) ==
  IF draining \/ stopped
  THEN drain' = ds /\ UNCHANGED draining
  ELSE /\ draining' = TRUE
       /\ \E d \in Drain : /\ ds[d].pc = "off"
                           /\ drain' = [ds EXCEPT ![d].pc = "loop"]

\* Somebody is still going to settle the batch: it waits in the queue, is between
\* two lists, or its worker has not reached the finally block.
Posting(h, b)  == handler[h].pc = "push" /\ handler[h].batch = b
Moving(d, b)   == drain[d].pc = "push" /\ drain[d].job = b
Settling(w, b) == worker[w].pc \notin {"idle", "release"} /\ worker[w].job = b

PendingApart(H, b) ==
  \/ b \in Elements(queue)
  \/ \E h \in H : Posting(h, b)
  \/ \E d \in Drain : Moving(d, b)
  \/ \E w \in Worker : Settling(w, b)

Pending(b) == PendingApart(Handler, b)

\* The batches whose only holder is the memory of the process.
InHand == {b \in Batch : \/ \E h \in Handler : Posting(h, b)
                         \/ \E d \in Drain : Moving(d, b)}

-----------------------------------------------------------------------------
(* enqueue(body, conn).                                                    *)

\* Fault: the status hash is not asked.
Lookup_NoStatus(h, b) ==
  /\ handler[h].pc = "idle" /\ posts < MaxPosts
  /\ posts' = posts + 1
  /\ handler' = [handler EXCEPT ![h] = [pc |-> "depth", batch |-> b, read |-> status[b],
                                          depth |-> 0]]
  /\ UNCHANGED <<redis, telemetry, loop, stopped, worker, restarts, history>>

\* HGET status: a batch that is already known and did not fail is answered 202
\* "duplicate" at once, the others go on to the depth check.
Lookup(h, b) ==
  /\ handler[h].pc = "idle" /\ posts < MaxPosts
  /\ posts' = posts + 1
  /\ IF status[b] \in {"none", "failed"}
     THEN handler' = [handler EXCEPT ![h] = [pc |-> "depth", batch |-> b, read |-> status[b],
                                               depth |-> 0]]
     ELSE UNCHANGED handler
  /\ UNCHANGED <<redis, telemetry, loop, stopped, worker, restarts, history>>

\* The first LLEN of the depth expression.
MeasureQueue(h) ==
  /\ handler[h].pc = "depth"
  /\ handler' = [handler EXCEPT ![h].pc = "measure", ![h].depth = Len(queue)]
  /\ UNCHANGED <<redis, telemetry, loop, stopped, worker, posts, restarts, history>>

\* Fault: the depth is measured and not compared.
MeasureRest_NoLimit(h) ==
  /\ handler[h].pc = "measure"
  /\ handler' = [handler EXCEPT ![h].pc = "mark"]
  /\ UNCHANGED <<redis, telemetry, loop, stopped, worker, posts, restarts, history>>

\* The second LLEN and activeTenants.size; at maxDepth the request ends with 503.
MeasureRest(h) ==
  /\ handler[h].pc = "measure"
  /\ LET depth == handler[h].depth + Len(processing) + Cardinality(active)
     IN handler' = [handler EXCEPT ![h] =
                      IF depth >= MaxDepth THEN HandlerIdle
                      ELSE [@ EXCEPT !.pc = "mark"]]
  /\ UNCHANGED <<redis, telemetry, loop, stopped, worker, posts, restarts, history>>

\* HSET status queued, and recordBatch(queued).
MarkQueued(h) ==
  LET b == handler[h].batch IN
  /\ handler[h].pc = "mark"
  /\ status' = [status EXCEPT ![b] = "queued"]
  /\ batchRow' = [batchRow EXCEPT ![b] = "queued"]
  /\ runStatus' = [runStatus EXCEPT ![RunOf[b]] = RunRecorded(RunOf[b])]
  /\ handler' = [handler EXCEPT ![h].pc = "push"]
  /\ redo' = IF status[b] = handler[h].read THEN redo ELSE redo \cup {b}
  /\ UNCHANGED <<queue, processing, loop, stopped, worker, posts, restarts,
                 applied, stranded>>

\* RPUSH to the queue, drainSoon, answer 202.
PushQueued(h) ==
  /\ handler[h].pc = "push"
  /\ queue' = Append(queue, handler[h].batch)
  /\ handler' = [handler EXCEPT ![h] = HandlerIdle]
  /\ DrainSoon(drain)
  /\ UNCHANGED <<processing, status, telemetry, active, stopped, worker, posts,
                 restarts, history>>

\* The RPUSH fails: the request ends with an error, the status stays queued.
PushFails(h) ==
  LET b == handler[h].batch IN
  /\ handler[h].pc = "push"
  /\ handler' = [handler EXCEPT ![h] = HandlerIdle]
  /\ stranded' = IF PendingApart(Handler \ {h}, b) THEN stranded ELSE stranded \cup {b}
  /\ UNCHANGED <<redis, telemetry, loop, stopped, worker, posts, restarts, applied, redo>>

-----------------------------------------------------------------------------
(* drain() and takeNextJob().                                              *)

\* The finally block of drain(): the flag is cleared before the LLEN is awaited.
LeaveLoop(d) ==
  /\ draining' = FALSE
  /\ drain' = [drain EXCEPT ![d] = [DrainOff EXCEPT !.pc = "recheck"]]

\* while (!stopped), then LLEN as Redis answers it; the loop goes on later, with a
\* length that may be stale.  Redis answers one connection in order, so the LLEN of
\* an earlier drain's recheck is answered first.
DrainLength(d) ==
  /\ drain[d].pc = "loop"
  /\ stopped \/ \A e \in Drain : drain[e].pc # "recheck"
  /\ IF stopped
     THEN LeaveLoop(d)
     ELSE /\ drain' = [drain EXCEPT ![d].pc = "scan", ![d].seen = MinOf(Len(queue), ScanLimit)]
          /\ UNCHANGED draining
  /\ UNCHANGED <<redis, telemetry, active, stopped, handler, worker, posts, restarts, history>>

\* Fault: the running tenants are not skipped.
Takeable_Any(d) == 1 .. MinOf(drain[d].seen, Len(queue))

\* The entries of the scanned prefix whose tenant has no job running.
Takeable(d) == {i \in 1 .. MinOf(drain[d].seen, Len(queue)) : TenantOf[queue[i]] \notin active}

\* Fault: the scan takes the newest entry.
DrainScan_Newest(d) ==
  /\ drain[d].pc = "scan"
  /\ IF Takeable(d) = {}
     THEN LeaveLoop(d)
     ELSE /\ \E i \in Takeable(d) :
               /\ \A j \in Takeable(d) : i >= j
               /\ drain' = [drain EXCEPT ![d] = [pc |-> "remove", seen |-> 0, index |-> i, job |-> queue[i]]]
          /\ UNCHANGED draining
  /\ UNCHANGED <<redis, telemetry, active, stopped, handler, worker, posts, restarts, history>>

\* LRANGE and the for loop over its answer, as far as the first await in it.  A
\* length of zero, like a prefix of busy tenants only, ends the drain loop.
DrainScan(d) ==
  /\ drain[d].pc = "scan"
  /\ IF Takeable(d) = {}
     THEN LeaveLoop(d)
     ELSE /\ \E i \in Takeable(d) :
               /\ \A j \in Takeable(d) : i <= j
               /\ drain' = [drain EXCEPT ![d] = [pc |-> "remove", seen |-> 0, index |-> i, job |-> queue[i]]]
          /\ UNCHANGED draining
  /\ UNCHANGED <<redis, telemetry, active, stopped, handler, worker, posts, restarts, history>>

\* removeQueuedIndex(index).
DrainRemove(d) ==
  /\ drain[d].pc = "remove"
  /\ queue' = RemoveQueuedIndex(queue, drain[d].index)
  /\ drain' = [drain EXCEPT ![d].pc = "push"]
  /\ UNCHANGED <<processing, status, telemetry, active, draining, stopped, handler, worker,
                 posts, restarts, history>>

\* RPUSH to the processing list, activeTenants.add, void process(job).
DrainPush(d) ==
  /\ drain[d].pc = "push"
  /\ processing' = Append(processing, drain[d].job)
  /\ active' = active \cup {TenantOf[drain[d].job]}
  /\ \E w \in Worker :
       /\ worker[w].pc = "idle"
       /\ worker' = [worker EXCEPT ![w] = [pc |-> "begin", job |-> drain[d].job, attempt |-> 1]]
  /\ drain' = [drain EXCEPT ![d] = [DrainOff EXCEPT !.pc = "loop"]]
  /\ UNCHANGED <<queue, status, telemetry, draining, stopped, handler, posts, restarts, history>>

\* Fault: the finally block does not look at the queue again.
DrainRecheck_Never(d) ==
  /\ drain[d].pc = "recheck"
  /\ drain' = [drain EXCEPT ![d] = DrainOff]
  /\ UNCHANGED <<redis, telemetry, active, draining, stopped, handler, worker, posts,
                 restarts, history>>

\* The end of the finally block: drainSoon again if something is waiting.
DrainRecheck(d) ==
  /\ drain[d].pc = "recheck"
  /\ LET ds == [drain EXCEPT ![d] = DrainOff]
     IN IF queue # <<>> THEN DrainSoon(ds) ELSE drain' = ds /\ UNCHANGED draining
  /\ UNCHANGED <<redis, telemetry, active, stopped, handler, worker, posts, restarts, history>>

-----------------------------------------------------------------------------
(* process(job) around IngestService.processIngest.                        *)

Continue(w, pc) == worker' = [worker EXCEPT ![w].pc = pc]

\* HSET status processing, recordBatch(processing), and the UPDATE that turns a
\* queued run into a running one.
WorkerBegin(w) ==
  LET b == worker[w].job
      r == RunOf[b]
  IN
  /\ worker[w].pc = "begin"
  /\ status' = [status EXCEPT ![b] = "processing"]
  /\ batchRow' = [batchRow EXCEPT ![b] = "processing"]
  /\ runStatus' = [runStatus EXCEPT ![r] = IF @ \in TerminalRun THEN @ ELSE "running"]
  /\ Continue(w, "ingest")
  /\ UNCHANGED <<queue, processing, loop, stopped, handler, posts, restarts, history>>

\* completeSyncRun on the last batch.
RunAfterOk(b) ==
  runStatus' = IF b \in LastBatch THEN [runStatus EXCEPT ![RunOf[b]] = "ok"] ELSE runStatus

\* The transaction commits and everything after it succeeds.
IngestOk(w) ==
  LET b == worker[w].job IN
  /\ worker[w].pc = "ingest" /\ b \notin Unsafe
  /\ applied' = [applied EXCEPT ![b] = @ + 1]
  /\ batchRow' = [batchRow EXCEPT ![b] = "ok"]
  /\ RunAfterOk(b)
  /\ Continue(w, "succeeded")
  /\ UNCHANGED <<redis, loop, stopped, handler, posts, restarts, stranded, redo>>

\* assertInventoryMetadataSafe throws before the run is even looked up.
IngestRefused(w) ==
  /\ worker[w].pc = "ingest" /\ worker[w].job \in Unsafe
  /\ Continue(w, "failed")
  /\ UNCHANGED <<redis, telemetry, loop, stopped, handler, posts, restarts, history>>

\* An error that is not retried, or comes in the last attempt.  It rolls back,
\* unless it came after the commit (syncLogRepo.save), when the rows stay.  It is
\* written down, unless there is no connection, or the log entry cannot be saved.
IngestFails(w, committed) ==
  LET b == worker[w].job IN
  /\ worker[w].pc = "ingest" /\ b \notin Unsafe
  /\ applied' = IF committed THEN [applied EXCEPT ![b] = @ + 1] ELSE applied
  /\ redo' = IF committed THEN redo \cup {b} ELSE redo
  /\ \/ /\ batchRow' = [batchRow EXCEPT ![b] = "failed"]
        /\ runStatus' = [runStatus EXCEPT ![RunOf[b]] = "failed"]
     \/ UNCHANGED <<batchRow, runStatus>>
  /\ Continue(w, "failed")
  /\ UNCHANGED <<redis, loop, stopped, handler, posts, restarts, stranded>>

\* A retryable error: processIngest calls itself, even when the transaction had
\* committed before the error.
IngestRetries(w, committed) ==
  LET b == worker[w].job IN
  /\ worker[w].pc = "ingest" /\ b \notin Unsafe
  /\ worker[w].attempt < MaxAttempts
  /\ applied' = IF committed THEN [applied EXCEPT ![b] = @ + 1] ELSE applied
  /\ redo' = IF committed THEN redo \cup {b} ELSE redo
  /\ worker' = [worker EXCEPT ![w].attempt = @ + 1]
  /\ UNCHANGED <<redis, telemetry, loop, stopped, handler, posts, restarts, stranded>>

\* processIngest returned, and saving the connection's last_success_* failed.
SuccessNotSaved(w) ==
  /\ worker[w].pc = "succeeded"
  /\ redo' = redo \cup {worker[w].job}
  /\ Continue(w, "failed")
  /\ UNCHANGED <<redis, telemetry, loop, stopped, handler, posts, restarts, applied, stranded>>

\* HSET status ok.
SettleOk(w) ==
  /\ worker[w].pc = "succeeded"
  /\ status' = [status EXCEPT ![worker[w].job] = "ok"]
  /\ Continue(w, "release")
  /\ UNCHANGED <<queue, processing, telemetry, loop, stopped, handler, posts, restarts, history>>

\* The catch block: HSET status failed, recordBatch(failed).
SettleFailed(w) ==
  LET b == worker[w].job IN
  /\ worker[w].pc = "failed"
  /\ status' = [status EXCEPT ![b] = "failed"]
  /\ batchRow' = [batchRow EXCEPT ![b] = "failed"]
  /\ runStatus' = [runStatus EXCEPT ![RunOf[b]] = RunRecorded(RunOf[b])]
  /\ Continue(w, "release")
  /\ UNCHANGED <<queue, processing, loop, stopped, handler, posts, restarts, history>>

\* Fault: the tenant stays in activeTenants.
WorkerRelease_KeepActive(w) ==
  LET b == worker[w].job IN
  /\ worker[w].pc = "release"
  /\ processing' = RemoveFirst(processing, b)
  /\ worker' = [worker EXCEPT ![w] = WorkerIdle]
  /\ DrainSoon(drain)
  /\ UNCHANGED <<queue, status, telemetry, active, stopped, handler, posts, restarts, history>>

\* The finally block: LREM processing, activeTenants.delete, drainSoon.
WorkerRelease(w) ==
  LET b == worker[w].job IN
  /\ worker[w].pc = "release"
  /\ processing' = RemoveFirst(processing, b)
  /\ active' = active \ {TenantOf[b]}
  /\ worker' = [worker EXCEPT ![w] = WorkerIdle]
  /\ DrainSoon(drain)
  /\ UNCHANGED <<queue, status, telemetry, stopped, handler, posts, restarts, history>>

-----------------------------------------------------------------------------
(* The life of the process.                                                *)

\* onModuleDestroy: the loop ends at its next test, what runs goes on.
Shutdown ==
  /\ ~stopped /\ restarts < MaxRestarts
  /\ stopped' = TRUE
  /\ UNCHANGED <<redis, telemetry, loop, handler, worker, posts, restarts, history>>

\* Fault: the processing list is deleted, not recovered.
Reboot_NoRecovery(kept, gone) ==
  /\ restarts < MaxRestarts
  /\ restarts' = restarts + 1
  /\ processing' = <<>>
  /\ stranded' = stranded \cup (gone \ (Elements(queue) \cup Elements(kept)))
  /\ redo' = redo \cup Elements(kept)
  /\ active' = {} /\ stopped' = FALSE
  /\ handler' = [h \in Handler |-> HandlerIdle]
  /\ worker' = [w \in Worker |-> WorkerIdle]
  /\ draining' = TRUE
  /\ \E d \in Drain : drain' = [[e \in Drain |-> DrainOff] EXCEPT ![d].pc = "loop"]
  /\ UNCHANGED <<queue, status, telemetry, posts, applied>>

\* The process dies with the entries "kept" in the processing list and the batches
\* "gone" in nobody's, PM2 starts it again, and onModuleInit puts the list behind
\* the queue and calls drainSoon.
Reboot(kept, gone) ==
  /\ restarts < MaxRestarts
  /\ restarts' = restarts + 1
  /\ queue' = queue \o kept
  /\ processing' = <<>>
  /\ stranded' = stranded \cup (gone \ (Elements(queue) \cup Elements(kept)))
  /\ redo' = redo \cup Elements(kept)
  /\ active' = {} /\ stopped' = FALSE
  /\ handler' = [h \in Handler |-> HandlerIdle]
  /\ worker' = [w \in Worker |-> WorkerIdle]
  /\ draining' = TRUE
  /\ \E d \in Drain : drain' = [[e \in Drain |-> DrainOff] EXCEPT ![d].pc = "loop"]
  /\ UNCHANGED <<status, telemetry, posts, applied>>

\* A kill, the memory limit, or a Redis error that escapes from drain().
Restart == Reboot(processing, InHand)

\* The catch block of process() reads the connection row first; when the database
\* is what failed, that throws too: the finally block removes the job from the
\* processing list, and the unhandled rejection ends the process.
DieInCatch(w) ==
  /\ worker[w].pc = "failed"
  /\ Reboot(RemoveFirst(processing, worker[w].job), InHand \cup {worker[w].job})

Enqueue(h) == \/ \E b \in Batch : Lookup(h, b)
              \/ MeasureQueue(h) \/ MeasureRest(h) \/ MarkQueued(h) \/ PushQueued(h) \/ PushFails(h)

DrainStep(d) == DrainLength(d) \/ DrainScan(d) \/ DrainRemove(d) \/ DrainPush(d) \/ DrainRecheck(d)

WorkerStep(w) ==
  \/ WorkerBegin(w) \/ IngestOk(w) \/ IngestRefused(w)
  \/ \E committed \in BOOLEAN : IngestFails(w, committed) \/ IngestRetries(w, committed)
  \/ SuccessNotSaved(w) \/ SettleOk(w) \/ SettleFailed(w) \/ WorkerRelease(w)

Next ==
  \/ \E h \in Handler : Enqueue(h)
  \/ \E d \in Drain : DrainStep(d)
  \/ \E w \in Worker : WorkerStep(w)
  \/ \E w \in Worker : DieInCatch(w)
  \/ Shutdown \/ Restart

Spec == Init /\ [][Next]_vars

\* What the event loop promises: a request that passed its lookup, a drain and a
\* worker go on, and a process that is shutting down is started again.
FairSpec ==
  /\ Spec
  /\ \A h \in Handler : WF_vars(Enqueue(h) /\ handler[h].pc # "idle")
  /\ \A d \in Drain : WF_vars(DrainStep(d))
  /\ \A w \in Worker : WF_vars(WorkerStep(w))
  /\ WF_vars(stopped /\ Restart)

-----------------------------------------------------------------------------
(* Properties.                                                             *)

HandlerState == [pc : {"idle", "depth", "measure", "mark", "push"},
                 batch : Batch \cup {None}, read : QueueStatus, depth : Nat]
DrainState   == [pc : {"off", "loop", "scan", "remove", "push", "recheck"},
                 seen : Nat, index : Nat, job : Batch \cup {None}]
WorkerState  == [pc : {"idle", "begin", "ingest", "succeeded", "failed", "release"},
                 job : Batch \cup {None}, attempt : Nat]

StoreOK ==
  /\ queue \in Seq(Batch) /\ processing \in Seq(Batch)
  /\ status \in [Batch -> QueueStatus]
  /\ runStatus \in [Run -> RunStates] /\ batchRow \in [Batch -> QueueStatus]
HistoryOK ==
  /\ posts \in Nat /\ restarts \in Nat
  /\ applied \in [Batch -> Nat]
  /\ stranded \in SUBSET Batch /\ redo \in SUBSET Batch
HandlersOK ==
  /\ handler \in [Handler -> HandlerState]
  /\ \A h \in Handler : handler[h].pc # "idle" => handler[h].batch \in Batch
DrainsOK ==
  /\ active \in SUBSET Tenant /\ draining \in BOOLEAN /\ stopped \in BOOLEAN
  /\ drain \in [Drain -> DrainState]
  /\ \A d \in Drain : drain[d].pc \in {"remove", "push"} => drain[d].job \in Batch
WorkersOK ==
  /\ worker \in [Worker -> WorkerState]
  /\ \A w \in Worker : worker[w].pc # "idle" => worker[w].job \in Batch

\* Every variable holds a value of its kind, and whoever needs a batch has one.
TypeOK == StoreOK /\ HistoryOK /\ HandlersOK /\ DrainsOK /\ WorkersOK

Busy(w) == worker[w].pc # "idle"
InLoop(d) == drain[d].pc \in {"loop", "scan", "remove", "push"}

\* Batches of one tenant are never ingested at the same time: activeTenants is
\* tested two awaits before it is added to, and only the single loop saves that.
TenantExclusive ==
  \A v, w \in Worker :
    Busy(v) /\ Busy(w) /\ v # w => TenantOf[worker[v].job] # TenantOf[worker[w].job]

\* There is one drain loop at a time, and the index a loop is about to remove
\* still holds the job it read there, whatever was pushed in the meantime.
OneLoop == \A c, d \in Drain : InLoop(c) /\ InLoop(d) => c = d
IndexFresh ==
  \A d \in Drain : drain[d].pc = "remove" =>
    drain[d].index \in 1 .. Len(queue) /\ queue[drain[d].index] = drain[d].job
SingleDrain == OneLoop /\ IndexFresh

\* No lost wakeup: while the queue holds a job somebody is still going to look at
\* it, a loop, a drain about to recheck, or a worker whose finally block wakes it.
NoLostWakeup ==
  queue # <<>> /\ ~stopped =>
    \/ \E d \in Drain : drain[d].pc # "off"
    \/ \E w \in Worker : Busy(w)

\* The strengthening these need: the flag covers the loop, the loop carries a job of
\* an idle tenant, a running job keeps its tenant in activeTenants, and until it is
\* released its entry in the processing list.
FlagCovers   == \A d \in Drain : InLoop(d) => draining
CarriesIdle  == \A d \in Drain :
                  drain[d].pc \in {"remove", "push"} => TenantOf[drain[d].job] \notin active
BusyIsActive == \A w \in Worker : Busy(w) => TenantOf[worker[w].job] \in active
BusyIsListed == \A w \in Worker : Busy(w) => worker[w].job \in Elements(processing)

\* A batch whose status still promises an ingest is on its way to it.  The only
\* exceptions are the batches a failure caught between two lists, whose posts are
\* then answered "duplicate" for ever.
PromiseKept ==
  \A b \in Batch : status[b] \in {"queued", "processing"} /\ b \notin stranded => Pending(b)

\* Inductive; what the proofs carry from state to state.
IInv == /\ TypeOK /\ SingleDrain /\ FlagCovers /\ CarriesIdle /\ TenantExclusive
        /\ BusyIsActive /\ BusyIsListed /\ PromiseKept

\* The rows of a batch are committed once, unless its job was interrupted, an
\* error followed the commit, or a post overtook the status it had read.
CommittedOnce == \A b \in Batch : applied[b] > 1 => b \in redo

\* The depth test is not atomic with the push: the queue can exceed maxDepth, but
\* by no more than one batch per concurrent request and one per recovered tenant.
DepthBounded ==
  Len(queue) <= (MaxDepth - 1) + Cardinality(Handler)
                  + (IF restarts = 0 THEN 0 ELSE Cardinality(Tenant))

\* Telemetry of a later batch never reopens a run that ended.
RunStaysEnded ==
  [][\A r \in Run : runStatus[r] \in TerminalRun => runStatus'[r] \in TerminalRun]_vars

\* Within a tenant the jobs leave the queue in the order they entered it, even
\* when jobs of other tenants overtake them.
TenantFifo ==
  [][\A d \in Drain : drain[d].pc = "remove" /\ drain'[d].pc = "push" =>
       \A i \in 1 .. Len(queue) :
         i < drain[d].index => TenantOf[queue[i]] # TenantOf[drain[d].job]]_vars

\* Every accepted batch is settled, or was stranded by a failure.
EventuallySettled ==
  \A b \in Batch :
    (status[b] \in {"queued", "processing"}) ~> (status[b] \in {"ok", "failed"} \/ b \in stranded)

=============================================================================
