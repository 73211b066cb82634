------------------------------ MODULE AgentSync ------------------------------
(***************************************************************************)
(* The agent's synchronization of one module: RunPaginatedSyncAsync        *)
(* (SyncOrchestrator) reads the rows JTL changed since the watermark, page *)
(* by page, posts them as batches (ApiClient.SendBatchAsync), and moves    *)
(* the watermark file (WatermarkService) when the run ends.  JTL goes on   *)
(* changing rows meanwhile.                                                *)
(*                                                                         *)
(* A time is a number; 0 is the epoch of the code, the year 2000.          *)
(***************************************************************************)
EXTENDS Naturals, FiniteSets

CONSTANTS
  RowCount,     \* rows 1 .. RowCount of JTL, in the order the pages have
  Module,       \* the modules of the agent that are looked at
  Windowed,     \* useSyncWindow: the modules read by time; inventory is read whole
  Lookback,     \* [Module -> OrdersStatusLookbackDays for orders, 0 for the others]
  BatchSize, MinBatchSize,
  MaxTime,      \* bound: the clock, which starts at 2
  MaxEdits,     \* bound: rows changed while the agent can be in a run
  MaxFaults,    \* bound: failing reads, posts and file writes
  MaxCancels, MaxCrashes, MaxFulls, MaxResets  \* bounds: what users and machines do

ASSUME AgentAssumption ==
  /\ RowCount \in Nat /\ Windowed \subseteq Module /\ Lookback \in [Module -> Nat]
  /\ BatchSize \in Nat \ {0} /\ MinBatchSize \in Nat \ {0}
  /\ MaxTime \in Nat \ {0, 1}
  /\ MaxEdits \in Nat /\ MaxFaults \in Nat /\ MaxCancels \in Nat /\ MaxCrashes \in Nat
  /\ MaxFulls \in Nat /\ MaxResets \in Nat

Row == 1 .. RowCount

VARIABLES
  module,    \* the module this behaviour is about
  now,       \* the clock of JTL and the agent
  mtime,     \* [Row -> when JTL changed the row last]
  file,      \* the module's watermark file
  run,       \* the run of the module
  cancelled, \* its cancellation token
  budget,    \* what is left of the bounds
  accepted,  \* history: the newest version of each row the backend accepted
  excused    \* history: rows a known defect may leave behind

agentVars == <<module, now, mtime, file, run, cancelled, budget, accepted, excused>>

\* GetWatermark without a file.  "synced": TotalRowsSynced > 0.
NoFile == [last |-> 0, offset |-> 0, end |-> 0, synced |-> FALSE]

NoPage == [r \in {} |-> 0]

\* "sent": totalRowsSynced > 0.
Idle == [pc |-> "idle", last |-> 0, end |-> 0, total |-> 0, offset |-> 0, size |-> BatchSize,
         resume |-> FALSE, sent |-> FALSE, page |-> NoPage]

\* An agent that has synchronized all rows up to time "last", or never any.
Init ==
  /\ module \in Module
  /\ \E last \in {0, 1} :
       /\ file = [NoFile EXCEPT !.last = last, !.synced = (last = 1)]
       /\ mtime \in [Row -> {0, 1}]
       /\ accepted = [r \in Row |-> 0]
       /\ last = 0 => mtime = [r \in Row |-> 1]
  /\ now = 2
  /\ run = Idle /\ cancelled = FALSE
  /\ budget = [edits |-> MaxEdits, faults |-> MaxFaults, cancels |-> MaxCancels,
               crashes |-> MaxCrashes, fulls |-> MaxFulls, resets |-> MaxResets]
  /\ excused = {}

Spend(what) == budget[what] > 0 /\ budget' = [budget EXCEPT ![what] = @ - 1]

-----------------------------------------------------------------------------
(* The source.                                                             *)

\* GetOrdersWindowStart.
WindowStart(last) == IF last <= Lookback[module] THEN 0 ELSE last - Lookback[module]

\* Fault: a row changed at the very time of the watermark is taken for done.
Window_After(time, last, end) ==
  IF module \in Windowed THEN {r \in Row : WindowStart(last) < time[r] /\ time[r] < end} ELSE Row

\* What a query of the module selects, by the times of the rows.
Window(time, last, end) ==
  IF module \in Windowed THEN {r \in Row : WindowStart(last) <= time[r] /\ time[r] < end} ELSE Row

Rank(S, r) == Cardinality({q \in S : q < r})

\* ORDER BY ... OFFSET offset ROWS FETCH NEXT size ROWS ONLY.
PageOf(S, offset, size) == {r \in S : offset <= Rank(S, r) /\ Rank(S, r) < offset + size}

\* The row a reader of S that has passed "offset" rows takes next.
NextRow(S, offset) == {r \in S : Rank(S, r) = offset}

\* The rows that slip under "offset" when row r leaves the window behind it.
Slipping(r, last, end, offset) ==
  LET S == Window(mtime, last, end)
  IN IF module \in Windowed /\ r \in S /\ Rank(S, r) < offset /\ now >= end
     THEN NextRow(S, offset) ELSE {}

\* The positions in a window the agent goes on from: behind the page a run has in hand,
\* before it when the page fails, and at the checkpoint.
Positions ==
  {<<file.last, file.end, file.offset>>}
    \cup (IF run.pc \notin {"count", "page", "send"} THEN {}
          ELSE {<<run.last, run.end, run.offset>>,
                <<run.last, run.end, run.offset + Cardinality(DOMAIN run.page)>>})

\* JTL changes a row, which leaves the windows of these positions.
Edit(r) ==
  /\ mtime[r] # now /\ now < MaxTime
  /\ Spend("edits")
  /\ mtime' = [mtime EXCEPT ![r] = now]
  /\ excused' = excused \cup UNION {Slipping(r, p[1], p[2], p[3]) : p \in Positions}
  /\ UNCHANGED <<module, now, file, run, cancelled, accepted>>

Tick ==
  /\ now < MaxTime
  /\ now' = now + 1
  /\ UNCHANGED <<module, mtime, file, run, cancelled, budget, accepted, excused>>

-----------------------------------------------------------------------------
(* WatermarkService: every operation reads the file, changes it and writes *)
(* it back; an operation that fails is only logged.                        *)

Faults(n) == budget.faults >= n /\ budget' = [budget EXCEPT !.faults = @ - n]

\* The file is written, after n other faults.
Written(data, n) ==
  \/ Faults(n) /\ file' = data
  \/ Faults(n + 1) /\ UNCHANGED file

SaveCheckpoint(offset, end, n) == Written([file EXCEPT !.offset = offset, !.end = end], n)

ClearCheckpoint ==
  IF file.offset > 0 THEN Written([file EXCEPT !.offset = 0, !.end = 0], 0)
  ELSE UNCHANGED <<file, budget>>

UpdateWatermark(end, rows) == Written([file EXCEPT !.last = end, !.synced = @ \/ rows], 0)

-----------------------------------------------------------------------------
(* RunPaginatedSyncAsync.                                                  *)

Ends == run' = Idle /\ cancelled' = FALSE

\* The timer, or a request for a full synchronization.  A checkpoint with an offset
\* is resumed, unless a full synchronization was requested.
Begin(full) ==
  LET resume == ~full /\ file.offset > 0
      last == IF full /\ module \in Windowed THEN 0 ELSE file.last
  IN
  /\ run.pc = "idle"
  /\ IF full THEN Spend("fulls") ELSE UNCHANGED budget
  /\ run' = [Idle EXCEPT !.pc = "count", !.last = last, !.resume = resume,
                         !.end = IF resume THEN file.end ELSE now,
                         !.offset = IF resume THEN file.offset ELSE 0]
  /\ UNCHANGED <<module, now, mtime, file, cancelled, accepted, excused>>

\* getCount; it may fail.  A checkpoint beyond the count is dropped.
Count ==
  LET total == Cardinality(Window(mtime, run.last, run.end)) IN
  /\ run.pc = "count"
  /\ \/ Faults(1) /\ Ends /\ UNCHANGED file
     \/ /\ total = 0
        /\ run' = [run EXCEPT !.pc = "clear"]
        /\ UNCHANGED <<file, cancelled, budget>>
     \/ /\ 0 < total /\ run.offset < total
        /\ run' = [run EXCEPT !.pc = "page", !.total = total]
        /\ UNCHANGED <<file, cancelled, budget>>
     \/ /\ 0 < total /\ run.offset >= total
        /\ ClearCheckpoint
        /\ run' = [run EXCEPT !.pc = "page", !.total = total, !.offset = 0, !.resume = FALSE]
        /\ UNCHANGED cancelled
  /\ UNCHANGED <<module, now, mtime, accepted, excused>>

\* getPage.  No row: the end of the window.
ReadPage ==
  LET rows == PageOf(Window(mtime, run.last, run.end), run.offset, run.size) IN
  /\ run.pc = "page" /\ run.offset < run.total /\ ~cancelled
  /\ run' = IF rows = {} THEN [run EXCEPT !.pc = "end"]
            ELSE [run EXCEPT !.pc = "send", !.page = [r \in rows |-> mtime[r]]]
  /\ UNCHANGED <<module, now, mtime, file, cancelled, budget, accepted, excused>>

\* The rows whose position in the window of the file a saved offset takes for done:
\* the offset of a full run counts the rows of another window.
Misplaced(offset, end) ==
  LET S == Window(mtime, file.last, end)
  IN IF run.last # file.last THEN {r \in S : Rank(S, r) < offset} ELSE {}

\* The page or the batch failed: the next run shall go on here.
StopHere(n) ==
  /\ SaveCheckpoint(run.offset, run.end, n)
  /\ excused' = excused \cup Misplaced(run.offset, run.end)
  /\ Ends

\* The query fails, or is cancelled.
PageFails ==
  /\ run.pc = "page" /\ run.offset < run.total
  /\ StopHere(IF cancelled THEN 0 ELSE 1)
  /\ UNCHANGED <<module, now, mtime, accepted>>

Newer(a, b) == IF a < b THEN b ELSE a

\* The backend queues the batch.
Accept == accepted' = [r \in Row |-> IF r \in DOMAIN run.page
                                     THEN Newer(accepted[r], run.page[r]) ELSE accepted[r]]

\* Fault: the offset grows by the size of the chunk, not by the rows of the page.
SendOk_ByChunk ==
  /\ run.pc = "send"
  /\ Accept
  /\ run' = [run EXCEPT !.pc = "page", !.sent = TRUE, !.page = NoPage,
                        !.offset = @ + run.size]
  /\ UNCHANGED <<module, now, mtime, file, cancelled, budget, excused>>

\* A 202.
SendOk ==
  /\ run.pc = "send"
  /\ Accept
  /\ run' = [run EXCEPT !.pc = "page", !.sent = TRUE, !.page = NoPage,
                        !.offset = @ + Cardinality(DOMAIN run.page)]
  /\ UNCHANGED <<module, now, mtime, file, cancelled, budget, excused>>

\* Four attempts failed; the batch may have been queued all the same.  A smaller chunk
\* is tried, unless the size is at its minimum or the error is about the key.
SendFails(queued) ==
  /\ run.pc = "send" /\ ~cancelled
  /\ IF queued THEN Accept ELSE UNCHANGED accepted
  /\ \/ /\ run.size > MinBatchSize
        /\ Faults(1)
        /\ run' = [run EXCEPT !.pc = "page", !.page = NoPage,
                              !.size = Newer(MinBatchSize, @ \div 2)]
        /\ UNCHANGED <<file, cancelled, excused>>
     \/ StopHere(1)
  /\ UNCHANGED <<module, now, mtime>>

\* The token stops the post, or the delay after it: the run ends without a checkpoint.
Interrupted(queued) ==
  /\ cancelled
  /\ \/ run.pc \in {"count", "send"}
     \/ run.pc = "page" /\ run.sent /\ run.offset < run.total
  /\ IF queued THEN run.pc = "send" /\ Accept ELSE UNCHANGED accepted
  /\ Ends
  /\ UNCHANGED <<module, now, mtime, file, budget, excused>>

\* The loop's condition is false: all is read, or the token was seen here.
LoopEnds ==
  /\ run.pc = "page"
  /\ cancelled \/ run.offset >= run.total
  /\ run' = [run EXCEPT !.pc = "end"]
  /\ excused' = IF run.offset >= run.total \/ ~run.sent THEN excused
                ELSE LET S == Window(mtime, run.last, run.end)
                     IN excused \cup {r \in S : Rank(S, r) >= run.offset}
  /\ UNCHANGED <<module, now, mtime, file, cancelled, budget, accepted>>

\* No batch failed: with rows the watermark moves, without only the checkpoint goes.
Settle ==
  /\ run.pc = "end"
  /\ \/ /\ run.sent
        /\ run' = [run EXCEPT !.pc = "clear"]
        /\ UNCHANGED <<file, cancelled, budget>>
     \/ /\ ~run.sent
        /\ IF run.resume THEN UNCHANGED <<file, budget>> ELSE ClearCheckpoint
        /\ Ends
  /\ UNCHANGED <<module, now, mtime, accepted, excused>>

Clear ==
  /\ run.pc = "clear"
  /\ ClearCheckpoint
  /\ run' = [run EXCEPT !.pc = "advance"]
  /\ UNCHANGED <<module, now, mtime, cancelled, accepted, excused>>

\* Fault: the watermark moves to the end of the run, not to the end of its window.
Advance_Now ==
  /\ run.pc = "advance"
  /\ UpdateWatermark(now, run.sent)
  /\ Ends
  /\ UNCHANGED <<module, now, mtime, accepted, excused>>

Advance ==
  /\ run.pc = "advance"
  /\ UpdateWatermark(run.end, run.sent)
  /\ Ends
  /\ UNCHANGED <<module, now, mtime, accepted, excused>>

-----------------------------------------------------------------------------
(* The user and the machine.                                               *)

\* CancelAll: the scheduler is stopped or restarted.
CancelRun ==
  /\ run.pc \notin {"off", "idle"} /\ ~cancelled
  /\ Spend("cancels")
  /\ cancelled' = TRUE
  /\ UNCHANGED <<module, now, mtime, file, run, accepted, excused>>

\* ResetWatermark deletes the file, whatever runs.
ResetWatermark ==
  /\ run.pc # "off"
  /\ Spend("resets")
  /\ file' = NoFile
  /\ UNCHANGED <<module, now, mtime, run, cancelled, accepted, excused>>

\* The agent dies; a post on its way may still arrive, and a file being written is
\* cut short, so that it cannot be read.
Crash(queued) ==
  /\ run.pc # "off"
  /\ Spend("crashes")
  /\ IF queued THEN run.pc = "send" /\ Accept ELSE UNCHANGED accepted
  /\ file' \in {file} \cup (IF run.pc \in {"page", "send", "clear", "advance"} THEN {NoFile} ELSE {})
  /\ run' = [Idle EXCEPT !.pc = "off"] /\ cancelled' = FALSE
  /\ UNCHANGED <<module, now, mtime, excused>>

\* WatermarkService starts with PurgeEmptyWatermarks.
Boot ==
  /\ run.pc = "off"
  /\ file' = IF file.synced THEN file ELSE NoFile
  /\ run' = Idle
  /\ UNCHANGED <<module, now, mtime, cancelled, budget, accepted, excused>>

-----------------------------------------------------------------------------

Source == Tick \/ \E r \in Row : Edit(r)

\* The steps of a run that has begun.
Step == \/ Count \/ ReadPage \/ PageFails \/ SendOk \/ LoopEnds \/ Settle \/ Clear \/ Advance
        \/ \E queued \in BOOLEAN : SendFails(queued) \/ Interrupted(queued)

Next == \/ Source \/ Begin(TRUE) \/ Begin(FALSE) \/ Step
        \/ CancelRun \/ ResetWatermark \/ Boot
        \/ \E queued \in BOOLEAN : Crash(queued)

Spec == Init /\ [][Next]_agentVars

\* Time passes, the timers fire, a run goes on, and a dead agent is started again.
FairSpec == /\ Spec
            /\ WF_agentVars(Tick) /\ WF_agentVars(Step)
            /\ WF_agentVars(Begin(FALSE)) /\ WF_agentVars(Boot)

-----------------------------------------------------------------------------
(* Properties.                                                             *)

Time == 0 .. MaxTime
Page == UNION {[S -> Time] : S \in SUBSET Row}

\* Offsets stay within the rows there are, and a page holds rows.
TypeOK ==
  /\ module \in Module /\ now \in Time /\ mtime \in [Row -> Time] /\ accepted \in [Row -> Time]
  /\ file \in [last : Time, offset : 0 .. RowCount, end : Time, synced : BOOLEAN]
  /\ run \in [pc : {"off", "idle", "count", "page", "send", "end", "clear", "advance"},
              last : Time, end : Time, total : 0 .. RowCount, offset : 0 .. RowCount,
              size : 1 .. BatchSize, resume : BOOLEAN, sent : BOOLEAN, page : Page]
  /\ run.pc = "send" => run.page # NoPage
  /\ cancelled \in BOOLEAN /\ excused \in SUBSET Row
  /\ budget \in [{"edits", "faults", "cancels", "crashes", "fulls", "resets"} -> Nat]

Reached(r) == accepted[r] >= mtime[r]

\* A change before the watermark has reached the backend, unless a row slipped under
\* the offset, a run was cut short in its loop, or an offset was counted in another
\* window than it is used in.
LossHasCause == \A r \in Row \ excused : mtime[r] < file.last => Reached(r)

\* When JTL rests, the backend catches up with it, whatever failed or died before.  Orders look
\* back: when the days to look back cover every change, even a row left behind is read again.
LooksBack == module \in Windowed /\ Lookback[module] >= MaxTime - 1
CatchesUp == \A r \in Row : <>[](Reached(r) \/ (r \in excused /\ ~LooksBack))

=============================================================================
