------------------------------ MODULE RowIngest ------------------------------
(***************************************************************************)
(* What the batches of a synchronization mean for the rows: the agent cuts *)
(* a run into batches (RunPaginatedSyncAsync), the queue executes them one *)
(* at a time (TenantExclusive of IngestQueue), and processIngest turns     *)
(* them into rows.  Three things span the batches of a run: its last batch *)
(* deactivates the products the run did not see, swaps the staged stock    *)
(* in, and computes the figures of the customers.  The backend never       *)
(* learns which batches a run had; "last" is a number the agent computed.  *)
(*                                                                         *)
(* One tenant, one kind of rows at a time.  A row of JTL is its version; 0 *)
(* is no row.  The version of a row of inventory is its stock plus one.    *)
(***************************************************************************)
EXTENDS Integers, Sequences, FiniteSets

CONSTANTS
  ItemCount,    \* rows 1 .. ItemCount of JTL, in the order the pages have
  Kind,         \* the modules looked at, a subset of {"orders", "products", "inventory"}
  Cancelled,    \* the versions of an order that are cancelled or returned
  ZeroAllowed,  \* INVENTORY_ZERO_STOCK_POLICY = allow
  BatchSize, MinBatchSize,
  MaxAttempts,  \* INGEST_RETRY_MAX_ATTEMPTS
  Sources,      \* what JTL may have at first: versions 0, 1 and 2
  Windows,      \* what the timers' windows of time may select, sets of rows
  MaxRuns,      \* bound: runs of the agent
  MaxTroubles   \* bound: changes in JTL, cancels, failing posts, lost answers, failing statements, restarts

ASSUME RowAssumption ==
  /\ ItemCount \in Nat /\ Kind \subseteq {"orders", "products", "inventory"}
  /\ Cancelled \subseteq Nat /\ ZeroAllowed \in BOOLEAN
  /\ BatchSize \in Nat \ {0} /\ MinBatchSize \in Nat \ {0} /\ MaxAttempts \in Nat \ {0}
  /\ Sources \subseteq [1 .. ItemCount -> 0 .. 2] /\ Windows \subseteq SUBSET (1 .. ItemCount)
  /\ MaxRuns \in Nat /\ MaxTroubles \in Nat

Item == 1 .. ItemCount
Run  == 1 .. MaxRuns
Flaw == {"resumed", "shrunk", "split", "edited", "overlap", "cancelled", "lost", "failed", "repeated",
         "reordered", "swallowed", "unrecorded"}

VARIABLES
  kind,      \* the module this behaviour is about
  clock,     \* counts the starts of runs
  source,    \* [Item -> version JTL has]
  agent,     \* the run of the agent
  saved,     \* its file: the checkpoint, and whether no run succeeded yet
  accepted,  \* the jobs the status hash knows, and not as failed: <<run, index>>
  queue,     \* the jobs that wait
  exec,      \* the job processIngest works on
  row,       \* the table: [Item -> version, is_active, synced_at]
  stats,     \* the orders the customer figures count
  staging,   \* inventory_staging: [Run -> stock of the staged rows]
  stock,     \* inventory: [Item -> stock, or -1: no row]
  status,    \* sync_runs.status
  troublesLeft, \* what is left of the bound
  taken,     \* history: [Run -> the versions the run set out to read]
  flaws,     \* history: [Run -> what happened to the run]
  done,      \* history: the runs the agent took for successful
  basis      \* history: the run whose last batch products or stock rest on, the rows stored since

agentVars == <<agent, saved, done>>
tableVars == <<row, stats, staging, stock, basis>>
rowVars == <<kind, clock, source, agent, saved, accepted, queue, exec, row, stats, staging, stock,
             status, troublesLeft, taken, flaws, done, basis>>

Idle == [run |-> 0, full |-> FALSE, window |-> {}, start |-> 0, total |-> 0, offset |-> 0,
         size |-> BatchSize, first |-> 0]
NoJob == [run |-> 0, index |-> 0, total |-> 0, full |-> FALSE, start |-> 0, rows |-> [i \in {} |-> 0]]
NoExec == [job |-> NoJob, pc |-> "none", attempt |-> 0]
NoBasis == [run |-> 0, flaws |-> {}, later |-> {}]
NoStock == [i \in Item |-> -1]

\* A tenant without rows, whose agent synchronizes for the first time.
Init ==
  /\ kind \in Kind
  /\ clock = 1
  /\ source \in Sources
  /\ agent = Idle /\ saved = [offset |-> 0, initial |-> TRUE] /\ done = {}
  /\ accepted = {} /\ queue = <<>> /\ exec = NoExec
  /\ row = [i \in Item |-> [ver |-> 0, active |-> FALSE, synced |-> 0]]
  /\ stats = {}
  /\ staging = [r \in Run |-> NoStock] /\ stock = NoStock /\ basis = NoBasis
  /\ status = [r \in Run |-> "none"]
  /\ troublesLeft = MaxTroubles
  /\ taken = [r \in Run |-> [i \in Item |-> 0]] /\ flaws = [r \in Run |-> {}]

Trouble == troublesLeft > 0 /\ troublesLeft' = troublesLeft - 1

\* The flaws F are noted of the runs R.
Note(R, F) == flaws' = [r \in Run |-> IF r \in R THEN flaws[r] \cup F ELSE flaws[r]]

-----------------------------------------------------------------------------
(* JTL and the agent.                                                      *)

\* JTL changes, adds or removes a row: a new version, or another stock.
Edit(i, v) ==
  /\ v # source[i]
  /\ v \in IF kind = "inventory" THEN {0, 1, 2} ELSE {0, 3 + MaxTroubles - troublesLeft}
  /\ Trouble
  /\ source' = [source EXCEPT ![i] = v]
  /\ Note({agent.run}, {"edited"})
  /\ UNCHANGED <<kind, clock, agentVars, accepted, queue, exec, tableVars, status, taken>>

\* The rows a run asks for: all of them, or those its window of time selects.
Selected(full, window) == {i \in Item : source[i] > 0 /\ (full \/ i \in window)}

IsFull(requested) == requested \/ kind = "inventory" \/ saved.initial

\* A run begins: a requested full one at the first row, one of the timers at the checkpoint.
\* Everything is read as long as no run succeeded, and always of inventory.
Begin(requested, window) ==
  LET r == clock
      full == IsFull(requested)
      selected == Selected(full, window)
      resume == ~requested /\ 0 < saved.offset /\ saved.offset < Cardinality(selected)
      offset == IF resume THEN saved.offset ELSE 0
      busy == queue # <<>> \/ exec # NoExec
  IN /\ agent = Idle /\ selected # {} /\ r \in Run
     /\ full => window = {}
     /\ clock' = clock + 1
     /\ agent' = [run |-> r, full |-> full, window |-> window, start |-> clock + 1,
                  total |-> Cardinality(selected), offset |-> offset, size |-> BatchSize,
                  first |-> offset]
     /\ saved' = IF resume \/ requested THEN saved ELSE [saved EXCEPT !.offset = 0]
     /\ taken' = [taken EXCEPT ![r] = [i \in Item |-> IF i \in selected THEN source[i] ELSE 0]]
     /\ Note({r}, (IF resume THEN {"resumed"} ELSE {}) \cup (IF busy THEN {"overlap"} ELSE {}))
     /\ UNCHANGED <<kind, source, accepted, queue, exec, tableVars, status, troublesLeft, done>>

\* Nothing to read: a success without a batch.
BeginEmpty(requested, window) ==
  /\ agent = Idle /\ Selected(IsFull(requested), window) = {}
  /\ saved' = [offset |-> 0, initial |-> FALSE]
  /\ UNCHANGED <<kind, clock, source, agent, accepted, queue, exec, tableVars, status, troublesLeft, taken,
                 flaws, done>>

Page ==
  LET S == Selected(agent.full, agent.window)
      Rank(i) == Cardinality({j \in S : j < i})
  IN {i \in S : agent.offset <= Rank(i) /\ Rank(i) < agent.offset + agent.size}

\* Fault: the incomplete chunk at the end is not counted.
Chunks_Floor(n, size) == n \div size

Chunks(n, size) == (n + size - 1) \div size

\* The batch that is sent; its index and total count in chunks of the present size.
Batch == [run |-> agent.run, index |-> agent.offset \div agent.size,
          total |-> Chunks(agent.total, agent.size), full |-> agent.full, start |-> agent.start,
          rows |-> [i \in Page |-> source[i]]]

JobId(job) == <<job.run, job.index>>

\* A job the queue knows, and has not failed, is answered like a new one and dropped.  The entry that
\* makes it known is written before the job is pushed, and stays if the push does not happen.
Enqueue(job, pushed) ==
  /\ queue' = IF pushed /\ JobId(job) \notin accepted THEN Append(queue, job) ELSE queue
  /\ accepted' = accepted \cup {JobId(job)}
  /\ status' = [status EXCEPT ![job.run] = IF @ = "none" THEN "open" ELSE @]

Sending == agent.run > 0 /\ agent.offset < agent.total /\ Page # {}

\* The page counts as sent.
GoOn == agent' = [agent EXCEPT !.offset = @ + Cardinality(Page)]

SendOk ==
  /\ Sending
  /\ Enqueue(Batch, TRUE) /\ GoOn
  /\ UNCHANGED <<kind, clock, source, saved, exec, tableVars, troublesLeft, taken, flaws, done>>

\* The push failed, or the process ended before it: the client's next attempt finds the job known
\* and is answered 202.
SendLost ==
  /\ Sending /\ Trouble /\ JobId(Batch) \notin accepted
  /\ Enqueue(Batch, FALSE) /\ GoOn
  /\ Note({agent.run}, {"lost"})
  /\ UNCHANGED <<kind, clock, source, saved, exec, tableVars, taken, done>>

\* The last attempt ended with an error, or without an answer; the job may be queued, or only
\* known.  The agent goes on in smaller chunks, or gives the run up and saves the offset.
SendFails(arrival) ==
  LET lost == IF arrival = "known" THEN {"lost"} ELSE {} IN
  /\ Sending /\ Trouble
  /\ arrival = "known" => JobId(Batch) \notin accepted
  /\ IF arrival = "none" THEN UNCHANGED <<queue, accepted, status>> ELSE Enqueue(Batch, arrival = "queued")
  /\ \/ /\ agent.size > MinBatchSize
        /\ agent' = [agent EXCEPT !.size = IF @ \div 2 < MinBatchSize THEN MinBatchSize ELSE @ \div 2]
        /\ Note({agent.run}, lost \cup {IF arrival = "queued" THEN "split" ELSE "shrunk"})
        /\ UNCHANGED saved
     \/ /\ agent' = Idle
        /\ saved' = [saved EXCEPT !.offset = agent.offset]
        /\ Note({agent.run}, lost)
  /\ UNCHANGED <<kind, clock, source, exec, tableVars, taken, done>>

\* The loop is left: a success if anything was sent; a resumed run that sent nothing changes nothing.
Leave ==
  /\ agent' = Idle
  /\ IF agent.offset > agent.first
     THEN saved' = [offset |-> 0, initial |-> FALSE] /\ done' = done \cup {agent.run}
     ELSE saved' = (IF agent.first > 0 THEN saved ELSE [saved EXCEPT !.offset = 0]) /\ UNCHANGED done

\* All is sent, or a page is empty.
EndRun ==
  /\ agent.run > 0 /\ ~Sending
  /\ Leave
  /\ UNCHANGED <<kind, clock, source, accepted, queue, exec, tableVars, status, troublesLeft, taken, flaws>>

\* The command is cancelled or overdue.  Between two pages the loop is left as if all were sent;
\* in the pause after a page the exception of the delay ends the run with nothing saved.
CancelRun ==
  /\ agent.run > 0 /\ agent.offset < agent.total /\ Trouble
  /\ Leave \/ (agent' = Idle /\ UNCHANGED <<saved, done>>)
  /\ Note({agent.run}, {"cancelled"})
  /\ UNCHANGED <<kind, clock, source, accepted, queue, exec, tableVars, status, taken>>

-----------------------------------------------------------------------------
(* The tables.                                                             *)

\* Fault: the batch with the first index counts as the last one.
IsLast_First(job) == job.index = 0

IsLast(job) == job.index = job.total - 1

\* Products and orders: what JTL sent replaces what is there; a product that was seen is active,
\* and its synced_at is the time of the transaction.
Upserted(job) ==
  [i \in Item |-> IF i \in DOMAIN job.rows
                  THEN [ver |-> job.rows[i], active |-> TRUE, synced |-> clock] ELSE row[i]]

\* Fault: a row touched at the start of the run counts as not seen.
Deactivated_Inclusive(table, job) ==
  [i \in Item |-> IF table[i].synced <= job.start THEN [table[i] EXCEPT !.active = FALSE]
                  ELSE table[i]]

\* deactivateStaleProducts: the products not touched since the run began.
Deactivated(table, job) ==
  [i \in Item |-> IF table[i].synced < job.start THEN [table[i] EXCEPT !.active = FALSE]
                  ELSE table[i]]

LiveOrders(table) == {i \in Item : table[i].ver > 0 /\ table[i].ver \notin Cancelled}

\* recomputeCustomerStats: a customer without any live order is not in the join.
Recomputed(table) == IF LiveOrders(table) = {} THEN stats ELSE LiveOrders(table)

\* Fault: staged rows are found by the tenant; a run goes on with what the one before it left.
Staged_Left(job) ==
  LET before == IF job.index = 0 THEN NoStock
                ELSE IF staging[job.run] = NoStock /\ job.run > 1 THEN staging[job.run - 1]
                ELSE staging[job.run]
  IN [i \in Item |-> IF i \notin DOMAIN job.rows THEN before[i]
                     ELSE IF before[i] = -1 THEN job.rows[i] - 1 ELSE before[i] + job.rows[i] - 1]

\* The rows of an inventory batch are added; the first batch of a run begins anew.
Staged(job) ==
  LET before == IF job.index = 0 THEN NoStock ELSE staging[job.run]
  IN [i \in Item |-> IF i \notin DOMAIN job.rows THEN before[i]
                     ELSE IF before[i] = -1 THEN job.rows[i] - 1 ELSE before[i] + job.rows[i] - 1]

\* assertInventorySwapSafe.
SwapSafe(staged) ==
  /\ \E i \in Item : staged[i] > -1
  /\ ZeroAllowed \/ (\E i \in Item : staged[i] > 0) \/ ~(\E i \in Item : stock[i] > 0)

RestsOn(job) == basis' = [run |-> job.run, flaws |-> flaws[job.run], later |-> {}]

StoreOrders(job) ==
  /\ kind = "orders"
  /\ row' = Upserted(job)
  /\ stats' = IF IsLast(job) THEN Recomputed(Upserted(job)) ELSE stats
  /\ UNCHANGED <<staging, stock, basis>>

StoreProducts(job) ==
  /\ kind = "products"
  /\ IF IsLast(job) /\ job.full
     THEN row' = Deactivated(Upserted(job), job) /\ RestsOn(job)
     ELSE row' = Upserted(job) /\ basis' = [basis EXCEPT !.later = @ \cup DOMAIN job.rows]
  /\ UNCHANGED <<stats, staging, stock>>

StoreInventory(job) ==
  /\ kind = "inventory"
  /\ IF IsLast(job)
     THEN /\ SwapSafe(Staged(job))
          /\ stock' = Staged(job)
          /\ staging' = [staging EXCEPT ![job.run] = NoStock]
          /\ RestsOn(job)
     ELSE /\ staging' = [staging EXCEPT ![job.run] = Staged(job)]
          /\ UNCHANGED <<stock, basis>>
  /\ UNCHANGED <<row, stats>>

-----------------------------------------------------------------------------
(* The queue and processIngest.                                            *)

\* Fault: the newest job is taken.
Take_Newest ==
  /\ exec = NoExec /\ queue # <<>>
  /\ exec' = [job |-> queue[Len(queue)], pc |-> "open", attempt |-> 1]
  /\ queue' = SubSeq(queue, 1, Len(queue) - 1)
  /\ UNCHANGED <<kind, clock, source, agentVars, accepted, tableVars, status, troublesLeft, taken, flaws>>

Take ==
  /\ exec = NoExec /\ queue # <<>>
  /\ exec' = [job |-> Head(queue), pc |-> "open", attempt |-> 1]
  /\ queue' = Tail(queue)
  /\ UNCHANGED <<kind, clock, source, agentVars, accepted, tableVars, status, troublesLeft, taken, flaws>>

\* The process ends, or the push fails, after the job has left the queue and before it is in the
\* list of those at work: it is in neither.
TakeLost ==
  /\ exec = NoExec /\ queue # <<>> /\ Trouble
  /\ queue' = Tail(queue)
  /\ Note({Head(queue).run}, {"lost"})
  /\ UNCHANGED <<kind, clock, source, agentVars, accepted, exec, tableVars, status, taken>>

\* The transaction.
Commit ==
  /\ exec.pc = "open"
  /\ StoreOrders(exec.job) \/ StoreProducts(exec.job) \/ StoreInventory(exec.job)
  /\ exec' = [exec EXCEPT !.pc = "committed"]
  /\ UNCHANGED <<kind, clock, source, agentVars, accepted, queue, status, troublesLeft, taken, flaws>>

\* The statement of recomputeCustomerStats fails and its error is caught: Postgres has aborted
\* the transaction, and the COMMIT that follows rolls it back without an error.
CommitNothing ==
  /\ exec.pc = "open" /\ kind = "orders" /\ IsLast(exec.job)
  /\ Trouble
  /\ exec' = [exec EXCEPT !.pc = "committed"]
  /\ Note({exec.job.run}, {"swallowed"})
  /\ UNCHANGED <<kind, clock, source, agentVars, accepted, queue, tableVars, status, taken>>

\* What records the end of the last batch in sync_runs did not happen.
Unrecorded(told) == IF IsLast(exec.job) /\ ~told THEN {"unrecorded"} ELSE {}

\* The job's error is final.  The statements that say so may fail as well: told, failSyncRun is
\* reached and takes effect; marked, the queue's catch block comes as far as the status of the job.
GiveUp(told, marked, F) ==
  /\ exec' = NoExec
  /\ accepted' = IF marked THEN accepted \ {JobId(exec.job)} ELSE accepted
  /\ status' = IF told THEN [status EXCEPT ![exec.job.run] = "failed"] ELSE status
  /\ Note({exec.job.run}, F \cup Unrecorded(told))

TryAgain ==
  /\ exec.attempt < MaxAttempts
  /\ exec' = [exec EXCEPT !.pc = "open", !.attempt = @ + 1]
  /\ UNCHANGED <<accepted, status>>

\* A statement of the transaction fails, or the connection for it.
TransactionFails ==
  /\ exec.pc = "open" /\ Trouble
  /\ \/ TryAgain /\ UNCHANGED flaws
     \/ \E told, marked \in BOOLEAN : GiveUp(told, marked, {"failed"})
  /\ UNCHANGED <<kind, clock, source, agentVars, queue, tableVars, taken>>

\* The swap would replace good stock by nothing.
Refuse ==
  /\ exec.pc = "open" /\ kind = "inventory" /\ IsLast(exec.job) /\ ~SwapSafe(Staged(exec.job))
  /\ GiveUp(TRUE, TRUE, {"failed"})
  /\ UNCHANGED <<kind, clock, source, agentVars, queue, tableVars, troublesLeft, taken>>

\* Fault: the run is over with its first batch.
Finish_AnyBatch ==
  /\ exec.pc = "committed"
  /\ exec' = NoExec
  /\ status' = [status EXCEPT ![exec.job.run] = "ok"]
  /\ UNCHANGED <<kind, clock, source, agentVars, accepted, queue, tableVars, troublesLeft, taken, flaws>>

\* Fault: a run that has failed stays so, and one without a last batch stays open.
Finish_Never ==
  /\ exec.pc = "committed"
  /\ exec' = NoExec
  /\ UNCHANGED <<kind, clock, source, agentVars, accepted, queue, tableVars, status, troublesLeft, taken, flaws>>

\* The log entry, the batch, the totals and, with the last batch, the run.
Finish ==
  /\ exec.pc = "committed"
  /\ exec' = NoExec
  /\ status' = IF IsLast(exec.job) THEN [status EXCEPT ![exec.job.run] = "ok"] ELSE status
  /\ UNCHANGED <<kind, clock, source, agentVars, accepted, queue, tableVars, troublesLeft, taken, flaws>>

\* The same with a failure on the way: completeSyncRun has none of its effect, only a line in the
\* log (told is false), or the queue cannot save the connection and marks the job failed.
FinishBadly(told, marked) ==
  /\ exec.pc = "committed" /\ Trouble /\ ~(told /\ marked)
  /\ exec' = NoExec
  /\ status' = IF IsLast(exec.job) /\ told THEN [status EXCEPT ![exec.job.run] = "ok"] ELSE status
  /\ accepted' = IF marked THEN accepted ELSE accepted \ {JobId(exec.job)}
  /\ Note({exec.job.run}, Unrecorded(told))
  /\ UNCHANGED <<kind, clock, source, agentVars, queue, tableVars, taken>>

\* The log entry cannot be saved: the catch block runs the committed batch again, or fails it.
FinishFails ==
  /\ exec.pc = "committed" /\ Trouble
  /\ \/ TryAgain /\ Note({exec.job.run}, {"repeated"})
     \/ \E told, marked \in BOOLEAN : GiveUp(told, marked, {})
  /\ UNCHANGED <<kind, clock, source, agentVars, queue, tableVars, taken>>

\* The process ends; recoverProcessingJobs puts the job behind the ones that wait.
Restart ==
  /\ exec # NoExec /\ Trouble
  /\ queue' = Append(queue, exec.job)
  /\ exec' = NoExec
  /\ LET behind == {queue[n].run : n \in 1 .. Len(queue)} \cup {exec.job.run}
         again == IF exec.pc = "committed" THEN {exec.job.run} ELSE {}
     IN flaws' = [r \in Run |-> flaws[r]
                    \cup (IF queue # <<>> /\ r \in behind THEN {"reordered"} ELSE {})
                    \cup (IF r \in again THEN {"repeated"} ELSE {})]
  /\ UNCHANGED <<kind, clock, source, agentVars, accepted, tableVars, status, taken>>

-----------------------------------------------------------------------------
AgentStep == SendOk \/ SendLost \/ (\E arrival \in {"none", "known", "queued"} : SendFails(arrival))
             \/ EndRun \/ CancelRun
Work == Commit \/ CommitNothing \/ TransactionFails \/ Refuse \/ Finish \/ FinishFails
        \/ \E told, marked \in BOOLEAN : FinishBadly(told, marked)

Next ==
  \/ \E i \in Item, v \in 0 .. 2 + MaxTroubles : Edit(i, v)
  \/ \E requested \in BOOLEAN, window \in Windows \cup {{}} :
       Begin(requested, window) \/ BeginEmpty(requested, window)
  \/ AgentStep \/ Take \/ TakeLost \/ Work \/ Restart

Spec == Init /\ [][Next]_rowVars

\* Every step of a run and of a job comes to an end; arrivals, changes and restarts need not come.
FairSpec == Spec /\ WF_rowVars(AgentStep) /\ WF_rowVars(Take \/ Work)

-----------------------------------------------------------------------------
(* Properties.                                                             *)

IsJob(job) == job.run \in Run /\ 0 <= job.index /\ job.index < job.total /\ DOMAIN job.rows \subseteq Item

\* The types, and: the run of a job is in the books, and no batch is behind the last one.
TypeOK ==
  /\ kind \in Kind /\ clock \in 1 .. MaxRuns + 1 /\ source \in [Item -> 0 .. 2 + MaxTroubles]
  /\ agent.run \in Run \cup {0} /\ agent.offset \in 0 .. ItemCount /\ agent.size \in 1 .. BatchSize
  /\ saved.offset \in 0 .. ItemCount /\ saved.initial \in BOOLEAN
  /\ \A n \in 1 .. Len(queue) : IsJob(queue[n]) /\ status[queue[n].run] # "none"
  /\ exec # NoExec => /\ IsJob(exec.job) /\ exec.pc \in {"open", "committed"}
                      /\ exec.attempt \in 1 .. MaxAttempts
  /\ \A i \in Item : row[i].ver \in Nat /\ row[i].active \in BOOLEAN /\ row[i].synced \in 0 .. clock
  /\ stats \subseteq Item /\ stock \in [Item -> Int] /\ staging \in [Run -> [Item -> Int]]
  /\ status \in [Run -> {"none", "open", "ok", "failed"}] /\ done \subseteq Run
  /\ flaws \in [Run -> SUBSET Flaw] /\ basis.run \in Run \cup {0}

\* The stock that is shown is JTL's at the start of the run that was swapped in, of every row,
\* each counted once; unless the run was resumed (its first rows are in another run's staging),
\* sent a row in two batches, read changing pages, lost or failed a batch, or had one executed twice
\* or out of order.
StockIsSnapshot ==
  kind = "inventory" /\ basis.run # 0 /\ basis.flaws \subseteq {"overlap", "shrunk", "cancelled", "unrecorded"}
    => stock = [i \in Item |-> taken[basis.run][i] - 1]

\* A number that is shown as stock is JTL's at the start of the run that was swapped in, and no sum
\* or older run's, also when the run was resumed or batches of it were lost, failed or came out of
\* order, and rows are missing; unless it sent a row in two batches, had a batch executed twice or
\* read changing pages.
StockIsGenuine ==
  kind = "inventory" /\ basis.flaws \cap {"split", "repeated", "edited"} = {}
    => \A i \in Item : stock[i] # -1 => stock[i] = taken[basis.run][i] - 1

\* A full run of products ends with JTL's products active and the others not: unless it was
\* resumed (it deactivates what the interrupted run sent), lost or failed a batch or read changing
\* pages, no product it was to read is inactive or old; and what is active was read by it or came later.
ProductsMatch ==
  LET r == basis.run IN
  kind = "products" /\ r # 0 =>
    /\ basis.flaws \cap {"resumed", "lost", "failed", "edited", "reordered"} = {}
         => \A i \in Item : taken[r][i] > 0 => row[i].active /\ row[i].ver >= taken[r][i]
    /\ basis.flaws \cap {"overlap", "edited", "reordered"} = {}
         => \A i \in Item : row[i].active => taken[r][i] > 0 \/ i \in basis.later

\* A row never goes back to an older version, unless a restart put a job behind newer ones.
NewestWins ==
  [][(\A r \in Run : "reordered" \notin flaws[r]) => \A i \in Item : row'[i].ver >= row[i].ver]_rowVars

\* What the dashboard lists as ok is stored: every row the run was to read is there in that version
\* or a newer one, unless an accepted batch was lost, one failed, a statement's failure was swallowed,
\* the run was resumed, read changing pages, or a restart reordered its batches.
OkMeansStored ==
  kind # "inventory" => \A r \in Run :
    status[r] = "ok" /\ flaws[r] \cap {"resumed", "edited", "lost", "failed", "swallowed", "reordered"} = {}
      => \A i \in Item : row[i].ver >= taken[r][i]

\* The dashboard agrees with itself: whenever it lists every run as ok, the figures of the customers
\* count exactly the live orders that are stored, whatever is under way and whatever runs were
\* abandoned; unless a statement's failure was swallowed, a restart reordered batches, or a last
\* batch was followed by one that is not (it was split, or JTL changed under the run).  When no live
\* order is left the old figures stay.
FiguresSettle ==
  kind = "orders" /\ (\A r \in Run : status[r] \in {"none", "ok"}) /\ LiveOrders(row) # {}
    /\ (\A r \in Run : flaws[r] \cap {"swallowed", "reordered", "split", "edited"} = {})
    => stats = LiveOrders(row)

\* The books of a run the agent takes for successful: it has an end, unless it was cancelled, lost
\* a batch that was accepted, the statement that ends it failed, or its chunks do not start at
\* multiples of their size (then none of them has the number of a last one).
Ended(r) ==
  r \in done /\ flaws[r] \cap {"resumed", "shrunk", "split", "edited", "cancelled"} = {}
    => status[r] \in {"ok", "failed"} \/ flaws[r] \cap {"lost", "unrecorded"} # {}

\* Whatever fails, every run the agent takes for successful comes to an end in the books as well,
\* up to the causes Ended names; a later run does not keep an earlier one from it.
RunEnds == []<>(\A r \in Run : Ended(r))

\* "Non-fatal: log and continue - stats will be refreshed on next sync" (ingest.service.ts:1429):
\* a failure of the customer figures does not cost the orders.
StatsFailureIsHarmless ==
  kind # "inventory" => \A r \in Run :
    status[r] = "ok" /\ flaws[r] \subseteq {"swallowed"} => \A i \in Item : row[i].ver >= taken[r][i]

=============================================================================
