-------------------------- MODULE SyncCommandProofs --------------------------
(***************************************************************************)
(* TLAPS proofs about SyncCommand, for any set of commands, any number of  *)
(* requests in the backend and any number of faults, cancels and crashes.  *)
(***************************************************************************)
EXTENDS SyncCommand, TLAPS

Slots   == [Slot -> CallState]
Renewal == {"off", "on", "late", "threw"}
Reports == {"progress", "complete", "fail"}

\* The part of TypeOK about requests.
Named(calls) ==
  \A s \in Slot : calls[s].op \in Reports \/ calls[s].pc = "clear" => calls[s].cmd \in Command
CallsTyped == call \in Slots /\ Named(call)

\* The slots after a request was sent, and after slot s was freed.
Posted(calls, s, op, c) == call' = [calls EXCEPT ![s] = Request(op, c)]
Freed(calls, s) == calls = [call EXCEPT ![s] = CallIdle]

\* A step that gives no request a command it did not have.
Quiet == \A t \in Slot :
  call'[t].cmd = None \/ (call'[t].cmd = call[t].cmd /\ call'[t].op = call[t].op)

\* A step that leaves the agent with the request it waits for.
WaitKept == agent.wait \in Slot =>
  /\ call'[agent.wait].op = call[agent.wait].op
  /\ call[agent.wait].pc # "idle" => call'[agent.wait].pc # "idle"

-----------------------------------------------------------------------------
(* Requests.                                                               *)

\* An answer touches its own slot only: it keeps the request, done, or frees the slot.
LEMMA AnswerOK ==
  ASSUME CallsTyped, NEW s \in Slot, NEW ok \in BOOLEAN, NEW c \in Command \cup {None},
         call[s].op \in Reports => c \in Command, Answered(s, ok, c)
  PROVE  /\ CallsTyped'
         /\ \A t \in Slot : t # s => call'[t] = call[t]
         /\ c \in {None, call[s].cmd} => Quiet
         /\ WaitKept
<1>1. call \in Slots /\ call[s] \in CallState
  BY DEF CallsTyped, Slots
<1> DEFINE answer == [call[s] EXCEPT !.pc = "done", !.ok = ok, !.cmd = c]
<1>2. /\ answer \in CallState /\ CallIdle \in CallState
      /\ answer.pc = "done" /\ answer.cmd = c /\ answer.op = call[s].op
  BY <1>1 DEF CallState, CallIdle
<1>3. call' = [call EXCEPT ![s] = IF agent.wait = s THEN answer ELSE CallIdle]
  BY DEF Answered
<1> HIDE DEF answer
<1>4. call' \in Slots /\ \A t \in Slot : t # s => call'[t] = call[t]
  BY <1>1, <1>2, <1>3 DEF Slots
<1>5. call'[s] = IF agent.wait = s THEN answer ELSE CallIdle
  BY <1>1, <1>3 DEF Slots
<1>6. Named(call')
  BY <1>1, <1>2, <1>4, <1>5 DEF CallsTyped, CallIdle, Reports, Named
<1>7. CallIdle.cmd = None
  BY DEF CallIdle
<1>8. c \in {None, call[s].cmd} => Quiet
  BY <1>2, <1>4, <1>5, <1>7 DEF Quiet
<1>9. WaitKept
  BY <1>2, <1>4, <1>5 DEF WaitKept
<1> QED BY <1>4, <1>6, <1>8, <1>9 DEF CallsTyped

\* A handler moves on to its next statement.
LEMMA AdvanceOK ==
  ASSUME CallsTyped, NEW s \in Slot, NEW pc \in {"take", "mark", "write", "clear"},
         pc = "clear" => call[s].cmd \in Command,
         call' = [call EXCEPT ![s].pc = pc]
  PROVE  CallsTyped' /\ Quiet /\ WaitKept
<1>1. call \in Slots /\ call[s] \in CallState
  BY DEF CallsTyped, Slots
<1> DEFINE next == [call[s] EXCEPT !.pc = pc]
<1>2. next \in CallState /\ next.pc = pc /\ next.op = call[s].op /\ next.cmd = call[s].cmd
  BY <1>1 DEF CallState
<1>3. call' = [call EXCEPT ![s] = next]
  OBVIOUS
<1> HIDE DEF next
<1>4. call' \in Slots /\ call'[s] = next /\ \A t \in Slot : t # s => call'[t] = call[t]
  BY <1>1, <1>2, <1>3 DEF Slots
<1> QED BY <1>2, <1>4 DEF CallsTyped, Named, Quiet, WaitKept

\* What an agent that stops waiting leaves behind is what was there, or free slots.
LEMMA LeftOK ==
  ASSUME CallsTyped, NEW calls \in LeftBehind
  PROVE  /\ calls \in Slots
         /\ \A t \in Slot : calls[t] = call[t] \/ calls[t] = CallIdle
         /\ Named(calls)
<1>1. call \in Slots /\ CallIdle \in CallState /\ CallIdle.op \notin Reports /\ CallIdle.pc # "clear"
  BY DEF CallsTyped, Slots, CallState, CallIdle, Reports
<1> DEFINE over == [call EXCEPT ![agent.wait] = CallIdle]
<1>2. over \in Slots /\ \A t \in Slot : over[t] = call[t] \/ over[t] = CallIdle
  BY <1>1 DEF Slots
<1>3. calls \in {call, over}
  BY DEF LeftBehind
<1> QED BY <1>1, <1>2, <1>3 DEF CallsTyped, Named

\* A slot is freed.
LEMMA FreeOK ==
  ASSUME CallsTyped, NEW s, NEW calls, Freed(calls, s)
  PROVE  /\ calls \in Slots
         /\ \A t \in Slot : calls[t] = IF t = s THEN CallIdle ELSE call[t]
         /\ Named(calls)
<1>1. call \in Slots /\ CallIdle \in CallState /\ CallIdle.op \notin Reports /\ CallIdle.pc # "clear"
  BY DEF CallsTyped, Slots, CallState, CallIdle, Reports
<1>2. calls \in Slots /\ \A t \in Slot : calls[t] = IF t = s THEN CallIdle ELSE call[t]
  BY <1>1 DEF Slots, Freed
<1> QED BY <1>1, <1>2 DEF CallsTyped, Named

\* A post adds one request to the slots.
LEMMA PostOK ==
  ASSUME NEW calls \in Slots, Named(calls), NEW s \in Slot, NEW op \in {"claim"} \cup Reports,
         NEW c \in Command \cup {None}, op # "claim" => c \in Command,
         Posted(calls, s, op, c)
  PROVE  /\ CallsTyped'
         /\ call'[s].op = op /\ call'[s].cmd = c /\ call'[s].pc = "sent"
         /\ \A t \in Slot : t # s => call'[t] = calls[t]
<1>1. /\ Request(op, c) \in CallState /\ Request(op, c).op = op /\ Request(op, c).cmd = c
      /\ Request(op, c).pc = "sent"
  BY DEF Request, CallState, Reports
<1>2. call' \in Slots /\ call'[s] = Request(op, c) /\ \A t \in Slot : t # s => call'[t] = calls[t]
  BY <1>1 DEF Slots, Posted
<1>3. Named(call')
  BY <1>1, <1>2 DEF Reports, Named
<1> QED BY <1>1, <1>2, <1>3 DEF CallsTyped

-----------------------------------------------------------------------------
(* The steps of the backend: types, and what they leave alone.             *)

\* A step that takes no command out of hands.
Keeps == \A c \in Command : HandedOut(c) => HandedOut(c)'

RowsTyped == /\ status \in [Command -> Status]
             /\ lease \in [Command -> {"none", "fresh", "due", "late", "lapsed"}]
             /\ overdue \in SUBSET Command /\ unclear \in SUBSET Command
             /\ ran \in [Command -> Nat]
AgentTyped == agent \in AgentState /\ (Works \/ agent.renewal = "on" => agent.cmd \in Command)
RestTyped == /\ current \in Command \cup {None} /\ beat \in {"fresh", "stale"}
             /\ saved \in SUBSET Command
             /\ cancel \in [pc : {"idle", "write"}, cmd : Command \cup {None}]
             /\ faults \in Nat /\ cancels \in Nat /\ crashes \in Nat

LEMMA TypeParts == TypeOK <=> CallsTyped /\ RowsTyped /\ AgentTyped /\ RestTyped
BY DEF TypeOK, CallsTyped, Named, RowsTyped, AgentTyped, RestTyped, Slots, Reports

LEMMA TypePartsNext == CallsTyped' /\ RowsTyped' /\ AgentTyped' /\ RestTyped' => TypeOK'
BY DEF TypeOK, CallsTyped, Named, RowsTyped, AgentTyped, RestTyped, Slots, Reports

\* A command keeps to the statuses of its life.
LEMMA StatusParts ==
  ASSUME RowsTyped, NEW c \in Command
  PROVE  HandedOut(c) <=> status[c] \notin {"none", "queued", "cancelled"}
BY DEF RowsTyped, HandedOut, Status, Active, Terminal

LEMMA InterruptStep ==
  ASSUME TypeOK, NEW whole \in BOOLEAN, MarkInterrupted(whole)
  PROVE  /\ status' \in [Command -> Status]
         /\ current' \in Command \cup {None} /\ faults' \in Nat
         /\ unclear' \in SUBSET Command /\ Keeps
<1>1. status' \in [Command -> Status]
  BY DEF MarkInterrupted, TypeOK, Status, Terminal
<1>2. current' \in Command \cup {None} /\ faults' \in Nat /\ unclear' \in SUBSET Command
  BY DEF MarkInterrupted, TypeOK, Lapsed
<1>3. Keeps
  BY DEF MarkInterrupted, Keeps, HandedOut, Lapsed
<1> QED BY <1>1, <1>2, <1>3

\* The end of a handler is an answer, whether its event was recorded or not.
LEMMA RecordsOK ==
  ASSUME TypeOK, NEW s \in Slot, Records(s, call[s].cmd)
  PROVE  CallsTyped' /\ Quiet /\ WaitKept /\ faults' \in Nat
<1>1. CallsTyped /\ call[s].cmd \in Command \cup {None} /\ (call[s].op \in Reports => call[s].cmd \in Command)
  BY TypeParts DEF CallsTyped, Named, Slots, CallState
<1>2. CASE Answered(s, TRUE, call[s].cmd) /\ UNCHANGED faults
  BY <1>1, <1>2, AnswerOK DEF TypeOK
<1>3. CASE Answered(s, FALSE, call[s].cmd) /\ faults' = faults + 1
  <2>1. CallsTyped' /\ Quiet /\ WaitKept
    BY <1>1, <1>3, AnswerOK
  <2>2. faults' \in Nat
    BY <1>3 DEF TypeOK
  <2> QED BY <2>1, <2>2
<1> QED BY <1>2, <1>3 DEF Records

\* What the handlers other than the claim's UPDATE do to the rest of the state.
Aside == /\ TypeOK' /\ Quiet /\ WaitKept /\ Keeps
         /\ agent' = agent /\ saved' = saved /\ cancel' = cancel /\ ran' = ran

LEMMA BackendAside ==
  ASSUME TypeOK, OnlyHandedOut, NEW s \in Slot,
         \/ \E whole \in BOOLEAN : ClaimInterrupts(s, whole)
         \/ ClaimMarks(s) \/ Progress(s) \/ FinishReads(s) \/ FinishWrites(s)
         \/ FinishClears(s) \/ StatementFails(s)
  PROVE  Aside
<1>1. CallsTyped /\ RowsTyped /\ AgentTyped /\ RestTyped
  BY TypeParts
<1>2. /\ call[s].cmd \in Command \cup {None}
      /\ call[s].op \in Reports \/ call[s].pc = "clear" => call[s].cmd \in Command
  BY <1>1 DEF CallsTyped, Named, Slots, CallState
<1>3. ASSUME NEW whole \in BOOLEAN, ClaimInterrupts(s, whole) PROVE Aside
  <2>1. /\ status' \in [Command -> Status]
        /\ current' \in Command \cup {None} /\ faults' \in Nat
        /\ unclear' \in SUBSET Command /\ Keeps
    BY <1>3, InterruptStep DEF ClaimInterrupts
  <2>2. CallsTyped' /\ Quiet /\ WaitKept
    <3>1. CASE call' = [call EXCEPT ![s].pc = "take"]
      BY <1>1, <3>1, AdvanceOK
    <3>2. CASE Answered(s, FALSE, None)
      BY <1>1, <1>3, <3>2, AnswerOK DEF ClaimInterrupts, Reports
    <3> QED BY <1>3, <3>1, <3>2 DEF ClaimInterrupts
  <2>3. RowsTyped' /\ AgentTyped' /\ RestTyped'
    BY <1>1, <1>3, <2>1 DEF ClaimInterrupts, RowsTyped, AgentTyped, RestTyped, Works
  <2> QED BY <1>3, <2>1, <2>2, <2>3, TypePartsNext DEF Aside, ClaimInterrupts
<1>4. CASE ClaimMarks(s)
  <2>1. CallsTyped' /\ Quiet /\ WaitKept /\ faults' \in Nat
    BY <1>4, RecordsOK DEF ClaimMarks
  <2>2. RowsTyped' /\ AgentTyped' /\ RestTyped' /\ Keeps
    BY <1>1, <1>2, <1>4, <2>1
    DEF ClaimMarks, rows, record, RowsTyped, AgentTyped, RestTyped, Works, Keeps, HandedOut
  <2> QED BY <1>4, <2>1, <2>2, TypePartsNext DEF Aside, ClaimMarks, record
<1>5. CASE Progress(s)
  <2>1. call[s].cmd \in Command
    BY <1>2, <1>5 DEF Progress, Reports
  <2>2. CallsTyped' /\ Quiet /\ WaitKept /\ faults' \in Nat
    BY <1>1, <1>5, <2>1, RecordsOK, AnswerOK DEF Progress, RestTyped
  <2>3. RowsTyped' /\ Keeps
    BY <1>1, <1>5, <2>1 DEF Progress, record, RowsTyped, Keeps, HandedOut, Active, Status
  <2>4. AgentTyped' /\ RestTyped'
    BY <1>1, <1>5, <2>2 DEF Progress, AgentTyped, RestTyped, Works
  <2> QED BY <1>5, <2>2, <2>3, <2>4, TypePartsNext DEF Aside, Progress, record
<1>6. CASE FinishReads(s)
  <2>1. call[s].cmd \in Command
    BY <1>2, <1>6 DEF FinishReads, Reports
  <2>2. CallsTyped' /\ Quiet /\ WaitKept
    BY <1>1, <1>6, <2>1, AdvanceOK, AnswerOK DEF FinishReads
  <2>3. RowsTyped' /\ AgentTyped' /\ RestTyped' /\ Keeps
    BY <1>1, <1>6 DEF FinishReads, rows, record, bounds, RowsTyped, AgentTyped, RestTyped, Works,
                      Keeps, HandedOut
  <2> QED BY <1>6, <2>2, <2>3, TypePartsNext DEF Aside, FinishReads, record
<1>7. CASE FinishWrites(s)
  <2>1. call[s].cmd \in Command /\ Verdict(call[s].op) \in {"completed", "failed"}
    BY <1>2, <1>7 DEF FinishWrites, Reports, Verdict
  <2>2. CallsTyped' /\ Quiet /\ WaitKept
    BY <1>1, <1>7, <2>1, AdvanceOK DEF FinishWrites
  <2>3. RowsTyped' /\ Keeps
    BY <1>1, <1>7, <2>1 DEF FinishWrites, RowsTyped, Keeps, HandedOut, Status, Terminal
  <2>4. AgentTyped' /\ RestTyped'
    BY <1>1, <1>7 DEF FinishWrites, bounds, AgentTyped, RestTyped, Works
  <2> QED BY <1>7, <2>2, <2>3, <2>4, TypePartsNext DEF Aside, FinishWrites
<1>8. CASE FinishClears(s)
  <2>1. CallsTyped' /\ Quiet /\ WaitKept /\ faults' \in Nat
    BY <1>8, RecordsOK DEF FinishClears
  <2>2. RowsTyped' /\ AgentTyped' /\ RestTyped' /\ Keeps
    BY <1>1, <1>8, <2>1
    DEF FinishClears, rows, record, RowsTyped, AgentTyped, RestTyped, Works, Keeps, HandedOut
  <2> QED BY <1>8, <2>1, <2>2, TypePartsNext DEF Aside, FinishClears, record
<1>9. CASE StatementFails(s)
  <2>1. CallsTyped' /\ Quiet /\ WaitKept
    BY <1>1, <1>2, <1>9, AnswerOK DEF StatementFails
  <2>2. AgentTyped' /\ RestTyped' /\ Keeps
    BY <1>1, <1>9 DEF StatementFails, rows, AgentTyped, RestTyped, Works, Keeps, HandedOut
  <2>3. RowsTyped'
    BY <1>1, <1>2, <1>9 DEF StatementFails, rows, RowsTyped
  <2> QED BY <1>9, <2>1, <2>2, <2>3, TypePartsNext DEF Aside, StatementFails
<1> QED BY <1>3, <1>4, <1>5, <1>6, <1>7, <1>8, <1>9

-----------------------------------------------------------------------------
(* What keeps the invariant.                                               *)

\* A step that gives no request a command, or gives a report the agent's.
Tame == \A t \in Slot :
  \/ call'[t].cmd = None \/ (call'[t].cmd = call[t].cmd /\ call'[t].op = call[t].op)
  \/ call'[t].op \in Reports /\ Works /\ call'[t].cmd = agent.cmd

\* Executions and the history file change for the agent's command only.
OwnWork == \A c \in Command :
  \/ ran'[c] = ran[c] /\ (c \in saved' => c \in saved)
  \/ Works /\ c = agent.cmd /\ ran'[c] <= 1

SameAgent == agent'.pc = agent.pc /\ agent'.cmd = agent.cmd /\ agent'.wait = agent.wait

\* An agent that waits for a claim goes on waiting for it.
LEMMA StillAwaits ==
  ASSUME AwaitsClaim, SameAgent, WaitKept
  PROVE  AwaitsClaim'
BY DEF AwaitsClaim, SameAgent, WaitKept

LEMMA KeptByTame ==
  ASSUME IInv, TypeOK', Tame, OwnWork, Keeps, Works' => Works /\ agent'.cmd = agent.cmd,
         AwaitsClaim', NotStarted', CancelNames'
  PROVE  IInv'
<1>1. RowsTyped /\ RowsTyped' /\ CallsTyped /\ CallsTyped' /\ AgentTyped
  BY TypeParts DEF IInv, TypeOK, CallsTyped, Named, RowsTyped, Slots, Reports
<1>2. \A c \in Command : HandedOut(c) <=> status[c] \notin {"none", "queued", "cancelled"}
  BY <1>1, StatusParts
<1>3. \A c \in Command : HandedOut(c)' => status'[c] \notin {"none", "queued", "cancelled"}
  BY DEF HandedOut, Active
<1>4. Works => agent.cmd \in Command /\ HandedOut(agent.cmd)
  BY <1>1 DEF AgentTyped, IInv, OnlyHandedOut
<1>5. \A t \in Slot : call[t].cmd \in Command \cup {None} /\ call'[t].cmd \in Command \cup {None}
  BY <1>1 DEF CallsTyped, Slots, CallState
<1>6. OnlyHandedOut'
  <2>1. \A t \in Slot : call'[t].cmd # None => HandedOut(call'[t].cmd)
    BY <1>4 DEF IInv, OnlyHandedOut, Tame
  <2>2. \A t \in Slot : call'[t].cmd # None => HandedOut(call[t].cmd)'
    BY <1>5, <2>1 DEF Keeps, HandedOut
  <2>3. Works' => HandedOut(agent.cmd)'
    BY <1>4 DEF Keeps, HandedOut
  <2> QED BY <2>2, <2>3 DEF OnlyHandedOut
<1>7. OneCarrier'
  BY DEF IInv, OneCarrier, Tame, Carries, Reports
<1>8. ExecutedOnce'
  <2>1. \A c \in Command : ran'[c] <= 1
    BY DEF IInv, ExecutedOnce, OwnWork
  <2>2. ASSUME NEW c \in Command, Unstarted(c), ~(Works /\ c = agent.cmd) PROVE Unstarted(c)'
    BY <2>2 DEF OwnWork, Unstarted
  <2>3. ASSUME NEW c \in Command, status'[c] \in {"none", "queued", "cancelled"} PROVE Unstarted(c)'
    <3>1. ~HandedOut(c)
      BY <1>3, <2>3 DEF Keeps
    <3> QED BY <1>2, <1>4, <2>2, <3>1 DEF IInv, ExecutedOnce
  <2>4. ASSUME NEW t \in Slot, call'[t].op = "claim", call'[t].cmd # None PROVE Unstarted(call[t].cmd)'
    <3>1. call'[t].cmd = call[t].cmd /\ call[t].op = "claim" /\ call[t].cmd \in Command
      BY <1>5, <2>4 DEF Tame, Reports
    <3>2. Unstarted(call[t].cmd) /\ ~(Works /\ call[t].cmd = agent.cmd)
      BY <2>4, <3>1 DEF IInv, ExecutedOnce, OneCarrier
    <3> QED BY <2>2, <3>1, <3>2 DEF Unstarted
  <2> QED BY <2>1, <2>3, <2>4 DEF ExecutedOnce
<1> QED BY <1>6, <1>7, <1>8 DEF IInv

\* A step of the backend, of the administrator or of time.
LEMMA KeptByQuiet ==
  ASSUME IInv, TypeOK', Quiet, WaitKept, Keeps, SameAgent, saved' = saved, ran' = ran, CancelNames'
  PROVE  IInv'
<1>1. Tame
  BY DEF Quiet, Tame
<1>2. OwnWork
  BY DEF OwnWork
<1>3. AwaitsClaim'
  BY StillAwaits DEF IInv
<1>4. NotStarted' /\ (Works' => Works /\ agent'.cmd = agent.cmd)
  BY DEF IInv, NotStarted, SameAgent, Works
<1> QED BY <1>1, <1>2, <1>3, <1>4, KeptByTame

\* A new carrier of a command that nobody had.
LEMMA ClaimTakesStep ==
  ASSUME IInv, NEW s \in Slot, ClaimTakes(s)
  PROVE  IInv'
<1>1. CallsTyped /\ RowsTyped /\ AgentTyped /\ RestTyped
  BY TypeParts DEF IInv
<1>2. AgentTyped' /\ RestTyped' /\ SameAgent /\ CancelNames'
  BY <1>1 DEF ClaimTakes, bounds, AgentTyped, RestTyped, Works, SameAgent, CancelNames, IInv
<1>3. CASE Answered(s, TRUE, None) /\ UNCHANGED <<status, lease>>
  <2>1. CallsTyped' /\ Quiet /\ WaitKept
    BY <1>1, <1>3, AnswerOK DEF ClaimTakes, Reports
  <2>2. RowsTyped' /\ Keeps /\ saved' = saved /\ ran' = ran
    BY <1>1, <1>3 DEF ClaimTakes, record, RowsTyped, Keeps, HandedOut
  <2> QED BY <1>2, <2>1, <2>2, TypePartsNext, KeptByQuiet
<1>4. ASSUME NEW c \in Claimable,
             status' = [status EXCEPT ![c] = "claimed"], lease' = [lease EXCEPT ![c] = "fresh"],
             call' = [call EXCEPT ![s].pc = "mark", ![s].cmd = c]
      PROVE  IInv'
  <2>1. c \in Command /\ status[c] = "queued" /\ c # None
    BY CommandAssumption DEF Claimable
  <2>2. RowsTyped' /\ Keeps /\ HandedOut(c)'
    BY <1>1, <1>4, <2>1 DEF ClaimTakes, record, RowsTyped, Keeps, HandedOut, Status, Active
  <2>3. /\ call' \in Slots /\ call'[s].op = "claim" /\ call'[s].pc = "mark" /\ call'[s].cmd = c
        /\ \A t \in Slot : t # s => call'[t] = call[t]
    <3> DEFINE next == [call[s] EXCEPT !.pc = "mark", !.cmd = c]
    <3>1. call \in Slots /\ call[s] \in CallState /\ call[s].op = "claim"
      BY <1>1 DEF CallsTyped, Slots, ClaimTakes
    <3>2. next \in CallState /\ next.op = "claim" /\ next.pc = "mark" /\ next.cmd = c
      BY <2>1, <3>1 DEF CallState
    <3>3. call' = [call EXCEPT ![s] = next]
      BY <1>4, <3>1 DEF Slots, CallState
    <3> HIDE DEF next
    <3> QED BY <3>1, <3>2, <3>3 DEF Slots
  <2>4. TypeOK'
    BY <1>1, <1>2, <2>2, <2>3, TypePartsNext DEF CallsTyped, Named, Reports
  <2>5. ~HandedOut(c) /\ Unstarted(c)
    BY <2>1 DEF HandedOut, Active, IInv, ExecutedOnce
  <2>6. (\A t \in Slot : call[t].cmd # c) /\ ~(Works /\ agent.cmd = c)
    BY <2>1, <2>5 DEF IInv, OnlyHandedOut
  <2>7. OnlyHandedOut'
    <3>1. \A t \in Slot : call[t].cmd # None => call[t].cmd \in Command /\ HandedOut(call[t].cmd)
      BY <1>1 DEF CallsTyped, Slots, CallState, IInv, OnlyHandedOut
    <3>2. Works' => agent'.cmd \in Command /\ HandedOut(agent'.cmd)
      BY <1>1, <1>2 DEF AgentTyped, SameAgent, Works, IInv, OnlyHandedOut
    <3> QED BY <2>2, <2>3, <3>1, <3>2 DEF Keeps, OnlyHandedOut, HandedOut
  <2>8. OneCarrier'
    BY <1>2, <2>3, <2>6 DEF IInv, OneCarrier, Carries, SameAgent, Works
  <2>9. ExecutedOnce'
    <3>1. ran' = ran /\ saved' = saved
      BY DEF ClaimTakes, record
    <3>2. \A d \in Command : status'[d] \in {"none", "queued", "cancelled"} => d # c /\ status'[d] = status[d]
      BY <1>1, <1>4 DEF RowsTyped
    <3>3. \A d \in Command : status'[d] \in {"none", "queued", "cancelled"} => Unstarted(d)'
      BY <3>1, <3>2 DEF IInv, ExecutedOnce, Unstarted
    <3>4. \A t \in Slot : call'[t].op = "claim" /\ call'[t].cmd # None => Unstarted(call[t].cmd)'
      BY <2>3, <2>5, <3>1 DEF IInv, ExecutedOnce, Unstarted
    <3> QED BY <3>1, <3>3, <3>4 DEF IInv, ExecutedOnce
  <2>10. WaitKept
    BY <2>3 DEF WaitKept, ClaimTakes
  <2>11. AwaitsClaim' /\ NotStarted'
    BY <1>2, <2>10, StillAwaits DEF ClaimTakes, record, IInv, NotStarted, SameAgent
  <2> QED BY <1>2, <2>4, <2>7, <2>8, <2>9, <2>11 DEF IInv
<1> QED BY <1>3, <1>4 DEF ClaimTakes

-----------------------------------------------------------------------------
(* The steps of the system, one lemma for each of its actors.              *)

LEMMA BackendStep ==
  ASSUME IInv, NEW s \in Slot, Handle(s) \/ StatementFails(s) \/ ClaimInterrupts(s, FALSE)
  PROVE  IInv'
<1>1. CASE ClaimTakes(s)
  BY <1>1, ClaimTakesStep
<1>2. CASE ~ClaimTakes(s)
  <2>1. Aside
    BY <1>2, BackendAside DEF Handle, IInv
  <2>2. SameAgent /\ CancelNames'
    BY <2>1 DEF Aside, SameAgent, CancelNames, IInv
  <2> QED BY <2>1, <2>2, KeptByQuiet DEF Aside
<1> QED BY <1>1, <1>2

LEMMA AdminStep ==
  ASSUME IInv, Admin
  PROVE  IInv'
<1>1. CallsTyped /\ RowsTyped /\ AgentTyped /\ RestTyped
  BY TypeParts DEF IInv
<1>2. /\ call' = call /\ agent' = agent /\ saved' = saved /\ ran' = ran
      /\ overdue' = overdue /\ lease' = lease /\ beat' = beat /\ crashes' = crashes
  BY DEF Admin, Create, CancelRead, CancelWrite, ViewStatus, rows, bounds, record
<1>3. Quiet /\ WaitKept /\ SameAgent /\ CallsTyped' /\ AgentTyped'
  BY <1>1, <1>2 DEF Quiet, WaitKept, SameAgent, CallsTyped, AgentTyped, Works
<1>4. ASSUME NEW c \in Command, Create(c) PROVE RowsTyped' /\ RestTyped' /\ Keeps /\ CancelNames'
  BY <1>1, <1>4 DEF Create, bounds, record, RowsTyped, RestTyped, Status, Keeps, HandedOut, Active,
                    CancelNames, IInv
<1>5. ASSUME NEW c \in Command, CancelRead(c) PROVE RowsTyped' /\ RestTyped' /\ Keeps /\ CancelNames'
  BY <1>1, <1>5 DEF CancelRead, rows, record, RowsTyped, RestTyped, Keeps, HandedOut, CancelNames
<1>6. ASSUME CancelWrite PROVE RowsTyped' /\ RestTyped' /\ Keeps /\ CancelNames'
  <2>1. cancel.cmd \in Command
    BY <1>6 DEF CancelWrite, CancelNames, IInv
  <2>2. RowsTyped' /\ Keeps
    BY <1>1, <1>6, <2>1
    DEF CancelWrite, RowsTyped, Status, Terminal, Keeps, HandedOut, Active
  <2>3. RestTyped' /\ CancelNames'
    BY <1>1, <1>6 DEF CancelWrite, bounds, NoCancel, RestTyped, CancelNames
  <2> QED BY <2>2, <2>3
<1>7. ASSUME NEW whole \in BOOLEAN, ViewStatus(whole)
      PROVE  RowsTyped' /\ RestTyped' /\ Keeps /\ CancelNames'
  <2>1. /\ status' \in [Command -> Status]
        /\ current' \in Command \cup {None} /\ faults' \in Nat
        /\ unclear' \in SUBSET Command /\ Keeps
    BY <1>7, InterruptStep DEF ViewStatus, IInv
  <2> QED BY <1>1, <1>7, <2>1 DEF ViewStatus, RowsTyped, RestTyped, CancelNames, IInv
<1>8. RowsTyped' /\ RestTyped' /\ Keeps /\ CancelNames'
  BY <1>4, <1>5, <1>6, <1>7 DEF Admin
<1> QED BY <1>2, <1>3, <1>8, TypePartsNext, KeptByQuiet

LEMMA ClockStep ==
  ASSUME IInv, Clock
  PROVE  IInv'
<1>1. CallsTyped /\ RowsTyped /\ AgentTyped /\ RestTyped
  BY TypeParts DEF IInv
<1>2. /\ call' = call /\ agent' = agent /\ saved' = saved /\ ran' = ran /\ status' = status
      /\ cancel' = cancel
  BY DEF Clock, Expire, LeaseAges, HeartbeatAges, rows, bounds, record
<1>3. Quiet /\ WaitKept /\ SameAgent /\ CallsTyped' /\ AgentTyped' /\ Keeps /\ CancelNames'
  BY <1>1, <1>2 DEF Quiet, WaitKept, SameAgent, CallsTyped, AgentTyped, Works, Keeps, HandedOut,
                    CancelNames, IInv
<1>4. RowsTyped'
  BY <1>1 DEF Clock, Expire, LeaseAges, HeartbeatAges, rows, bounds, record, RowsTyped
<1>5. RestTyped'
  BY <1>1 DEF Clock, Expire, LeaseAges, HeartbeatAges, rows, bounds, record, RestTyped
<1> QED BY <1>2, <1>3, <1>4, <1>5, TypePartsNext, KeptByQuiet

\* What the steps of the agent leave alone.
LEMMA AgentAside ==
  ASSUME IInv, Heartbeat \/ Poll \/ Work \/ RenewLease \/ RenewalStops \/ Crash \/ Boot
  PROVE  RowsTyped' /\ RestTyped' /\ CancelNames' /\ Keeps
<1>1. RowsTyped /\ AgentTyped /\ RestTyped
  BY TypeParts DEF IInv
<1>2. agent.cmd \in Command \cup {None} /\ agent.active \in Command \cup {None}
  BY <1>1 DEF AgentTyped, AgentState
<1>3. status' = status /\ overdue' = overdue /\ cancel' = cancel
  BY DEF Heartbeat, Poll, Work, TakeCommand, PollEnds, Start, Report, SaveResult, PostFail, Finish,
         RenewLease, RenewalStops, Crash, Boot, rows, bounds, record
<1>10. unclear' \in SUBSET Command
  <2>1. unclear' = unclear \/ RenewalStops
    BY DEF Heartbeat, Poll, Work, TakeCommand, PollEnds, Start, Report, SaveResult, PostFail, Finish,
           RenewLease, Crash, Boot, record
  <2>2. RenewalStops => agent.cmd \in Command
    BY <1>1 DEF RenewalStops, AgentTyped
  <2>3. RenewalStops => unclear' \in {unclear, unclear \cup {agent.cmd}}
    BY DEF RenewalStops
  <2> QED BY <1>1, <2>1, <2>2, <2>3 DEF RowsTyped
<1>4. lease' \in [Command -> {"none", "fresh", "due", "late", "lapsed"}]
  BY <1>1 DEF RowsTyped, Heartbeat, Poll, Work, TakeCommand, PollEnds, Start, Report, SaveResult,
              PostFail, Finish, RenewLease, RenewalStops, Crash, Boot, rows
<1>5. ran' \in [Command -> Nat]
  <2>1. ran' = ran \/ Start
    BY DEF Heartbeat, Poll, Work, TakeCommand, PollEnds, Report, SaveResult, PostFail, Finish,
           RenewLease, RenewalStops, Crash, Boot, record
  <2>2. Start => ran' = [ran EXCEPT ![agent.cmd] = ran[agent.cmd] + 1] /\ agent.cmd \in Command
    BY <1>1 DEF Start, AgentTyped, Works
  <2> QED BY <1>1, <2>1, <2>2 DEF RowsTyped
<1>6. current' \in Command \cup {None} /\ beat' \in {"fresh", "stale"}
  BY <1>1, <1>2 DEF RestTyped, Heartbeat, Poll, Work, TakeCommand, PollEnds, Start, Report,
              SaveResult, PostFail, Finish, RenewLease, RenewalStops, Crash, Boot
<1>7. saved' \in SUBSET Command
  <2>1. agent.pc = "completing" => agent.cmd \in Command
    BY <1>1 DEF AgentTyped, Works
  <2> QED BY <1>1, <2>1 DEF RestTyped, Heartbeat, Poll, Work, TakeCommand, PollEnds, Start, Report,
              SaveResult, PostFail, Finish, RenewLease, RenewalStops, Crash, Boot
<1>8. faults' \in Nat /\ cancels' \in Nat /\ crashes' \in Nat
  <2>1. \A calls : Failed(calls) => faults' \in {faults, faults + 1}
    BY DEF Failed
  <2>2. faults' \in {faults, faults + 1}
    BY <2>1 DEF Heartbeat, Poll, Work, TakeCommand, PollEnds, Start, Report, SaveResult, PostFail,
                Finish, RenewLease, RenewalStops, Crash, Boot, bounds
  <2>3. cancels' = cancels /\ crashes' \in {crashes, crashes + 1}
    BY DEF Heartbeat, Poll, Work, TakeCommand, PollEnds, Start, Report, SaveResult, PostFail,
           Finish, RenewLease, RenewalStops, Crash, Boot, bounds
  <2> QED BY <1>1, <2>2, <2>3 DEF RestTyped
<1>9. RowsTyped' /\ RestTyped'
  BY <1>1, <1>3, <1>4, <1>5, <1>6, <1>7, <1>8, <1>10 DEF RowsTyped, RestTyped
<1> QED BY <1>3, <1>9 DEF CancelNames, Keeps, HandedOut, IInv

\* The agent after a poll, a command or a crash.
LEMMA RestsOK ==
  ASSUME AgentTyped
  PROVE  /\ Released \in AgentState /\ Released.pc = "idle" /\ Released.renewal = "off"
         /\ Released.active = IF agent.pc = "acknowledging" \/ agent.renewal = "threw" THEN agent.active ELSE None
         /\ [AgentIdle EXCEPT !.active = agent.active]
              = [pc |-> "idle", cmd |-> None, wait |-> None, active |-> agent.active, renewal |-> "off"]
         /\ [AgentIdle EXCEPT !.active = agent.active] \in AgentState
<1>1. agent.active \in Command \cup {None}
  BY DEF AgentTyped, AgentState
<1> QED BY <1>1 DEF Released, AgentIdle, AgentState

\* A poll, a boot, a heartbeat, a renewal and the end of a command give nobody a command.
LEMMA AgentQuietStep ==
  ASSUME IInv,
         \/ Heartbeat \/ Poll \/ PollEnds \/ Finish \/ RenewLease \/ RenewalStops \/ Crash \/ Boot
  PROVE  IInv'
<1>1. CallsTyped /\ AgentTyped
  BY TypeParts DEF IInv
<1>2. RowsTyped' /\ RestTyped' /\ CancelNames' /\ Keeps
  BY AgentAside DEF Work
<1>3. saved' = saved /\ ran' = ran
  BY DEF Heartbeat, Poll, PollEnds, Finish, RenewLease, RenewalStops, Crash, Boot, record
<1>4. CASE Heartbeat \/ RenewLease \/ RenewalStops
  <2>1. call' = call /\ SameAgent /\ AgentTyped'
    BY <1>1, <1>4 DEF Heartbeat, RenewLease, RenewalStops, SameAgent, AgentTyped, AgentState, Works
  <2>2. Quiet /\ WaitKept /\ CallsTyped'
    BY <1>1, <2>1 DEF Quiet, WaitKept, CallsTyped
  <2> QED BY <1>2, <1>3, <2>1, <2>2, TypePartsNext, KeptByQuiet
<1>5. ASSUME AgentTyped', CallsTyped', Quiet, ~Works', AwaitsClaim' PROVE IInv'
  <2>1. Tame /\ OwnWork /\ NotStarted' /\ TypeOK'
    BY <1>2, <1>3, <1>5, TypePartsNext DEF Quiet, Tame, OwnWork, NotStarted, Works
  <2> QED BY <1>2, <1>5, <2>1, KeptByTame
<1>6. CASE Poll
  <2>1. PICK s \in Slot :
          /\ Posted(call, s, "claim", None)
          /\ agent' = [pc |-> "claiming", cmd |-> None, wait |-> s, active |-> agent.active,
                       renewal |-> "off"]
    BY <1>6 DEF Poll, Post, Posted
  <2>2. /\ CallsTyped'
        /\ call'[s].op = "claim" /\ call'[s].cmd = None /\ call'[s].pc = "sent"
        /\ \A t \in Slot : t # s => call'[t] = call[t]
    BY <1>1, <2>1, PostOK DEF CallsTyped
  <2>3. AgentTyped' /\ ~Works'
    <3>1. agent.active \in Command \cup {None}
      BY <1>1 DEF AgentTyped, AgentState
    <3> QED BY <2>1, <3>1 DEF AgentTyped, AgentState, Works
  <2>4. Quiet
    BY <2>2 DEF Quiet
  <2>5. AwaitsClaim'
    BY <2>1, <2>2 DEF AwaitsClaim
  <2> QED BY <1>5, <2>2, <2>3, <2>4, <2>5
<1>7. CASE /\ call' \in LeftBehind
           /\ agent' \in {Released, [AgentIdle EXCEPT !.active = agent.active], [AgentIdle EXCEPT !.pc = "off"]}
  <2>1. CallsTyped' /\ Quiet
    BY <1>1, <1>7, LeftOK DEF CallsTyped, Quiet, CallIdle
  <2>2. agent' \in AgentState /\ agent'.pc \in {"idle", "off"} /\ agent'.renewal = "off"
    <3>1. [AgentIdle EXCEPT !.pc = "off"] \in AgentState /\ [AgentIdle EXCEPT !.pc = "off"].pc = "off"
          /\ [AgentIdle EXCEPT !.pc = "off"].renewal = "off"
      BY DEF AgentIdle, AgentState
    <3> QED BY <1>1, <1>7, <3>1, RestsOK
  <2> QED BY <1>5, <2>1, <2>2 DEF AgentTyped, Works, AwaitsClaim
<1>8. CASE Boot
  <2>1. call' = call /\ agent' \in AgentState /\ agent'.pc = "idle" /\ agent'.renewal = "off"
    BY <1>8 DEF Boot, AgentIdle, AgentState
  <2> QED BY <1>1, <1>5, <2>1 DEF CallsTyped, Quiet, AgentTyped, Works, AwaitsClaim
<1> QED BY <1>4, <1>6, <1>7, <1>8 DEF PollEnds, Finish, Crash, Failed

\* Start and SaveResult read an answer, and free the slot it came in.
LEMMA AgentReadsStep ==
  ASSUME IInv, Start \/ SaveResult
  PROVE  IInv'
<1>1. CallsTyped /\ RowsTyped /\ AgentTyped
  BY TypeParts DEF IInv
<1>2. RowsTyped' /\ RestTyped' /\ CancelNames' /\ Keeps
  BY AgentAside DEF Work
<1>3. Works /\ agent.cmd \in Command /\ Freed(call', agent.wait)
  BY <1>1 DEF Start, SaveResult, AgentTyped, Works, Freed
<1>4. CallsTyped' /\ Tame
  <2>1. /\ call' \in Slots /\ Named(call')
        /\ \A t \in Slot : call'[t] = IF t = agent.wait THEN CallIdle ELSE call[t]
    BY <1>1, <1>3, FreeOK
  <2> QED BY <2>1 DEF CallsTyped, Tame, CallIdle
<1>5. AgentTyped' /\ (Works' => agent'.cmd = agent.cmd) /\ agent'.pc \in {"running", "idle"}
  <2>1. CASE Start
    BY <1>1, <1>3, <2>1 DEF Start, AgentTyped, AgentState, Works
  <2>2. CASE SaveResult
    BY <1>1, <2>2, RestsOK DEF SaveResult, AgentTyped, Works
  <2> QED BY <2>1, <2>2
<1>6. OwnWork
  <2>1. CASE Start
    <3>1. ran' = [ran EXCEPT ![agent.cmd] = ran[agent.cmd] + 1] /\ saved' = saved
      BY <2>1 DEF Start
    <3>2. ran[agent.cmd] = 0
      BY <2>1 DEF Start, NotStarted, IInv
    <3> QED BY <1>1, <1>3, <3>1, <3>2 DEF RowsTyped, OwnWork
  <2>2. CASE SaveResult
    <3>1. ran' = ran /\ saved' = saved \cup {agent.cmd}
      BY <2>2 DEF SaveResult, record
    <3> QED BY <1>3, <3>1 DEF OwnWork, IInv, ExecutedOnce
  <2> QED BY <2>1, <2>2
<1>7. AwaitsClaim' /\ NotStarted'
  BY <1>5 DEF AwaitsClaim, NotStarted
<1> QED BY <1>2, <1>3, <1>4, <1>5, <1>6, <1>7, TypePartsNext, KeptByTame

\* Report and PostFail send a report on the agent's own command.
LEMMA AgentReportsStep ==
  ASSUME IInv, Report \/ PostFail
  PROVE  IInv'
<1>1. CallsTyped /\ AgentTyped
  BY TypeParts DEF IInv
<1>2. RowsTyped' /\ RestTyped' /\ CancelNames' /\ Keeps
  BY AgentAside DEF Work
<1>3. Works /\ agent.cmd \in Command
      /\ agent.renewal \in Renewal /\ agent.active \in Command \cup {None}
  BY <1>1 DEF Report, PostFail, AgentTyped, AgentState, Works, Renewal
<1>4. \E calls \in {call} \cup LeftBehind :
        \/ Post(calls, "complete", agent.cmd, "completing", agent.active, agent.renewal)
        \/ Post(calls, "fail", agent.cmd, "failing", agent.active, agent.renewal)
  BY DEF Report, PostFail
<1>5. PICK calls \in {call} \cup LeftBehind, s \in Slot, op \in {"complete", "fail"},
           pc \in {"completing", "failing"} :
        /\ Posted(calls, s, op, agent.cmd)
        /\ agent' = [pc |-> pc, cmd |-> agent.cmd, wait |-> s, active |-> agent.active,
                    renewal |-> agent.renewal]
  BY <1>4 DEF Post, Posted
<1>6. /\ calls \in Slots /\ Named(calls)
      /\ \A t \in Slot : calls[t] = call[t] \/ calls[t] = CallIdle
  BY <1>1, <1>5, LeftOK DEF CallsTyped
<1>7. /\ CallsTyped'
      /\ call'[s].op = op /\ call'[s].cmd = agent.cmd
      /\ \A t \in Slot : t # s => call'[t] = calls[t]
  <2>1. op \in {"claim"} \cup Reports /\ agent.cmd \in Command \cup {None}
    BY <1>3 DEF Reports
  <2> QED BY <1>3, <1>5, <1>6, <2>1, PostOK
<1>8. Tame
  BY <1>3, <1>5, <1>6, <1>7 DEF Tame, CallIdle, Reports
<1>9. AgentTyped' /\ agent'.cmd = agent.cmd /\ agent'.pc \in {"completing", "failing"}
  BY <1>3, <1>5 DEF AgentTyped, AgentState, Renewal
<1>10. AwaitsClaim' /\ NotStarted'
  BY <1>9 DEF AwaitsClaim, NotStarted
<1>11. OwnWork
  BY DEF OwnWork, Report, PostFail, record
<1> QED BY <1>2, <1>3, <1>7, <1>8, <1>9, <1>10, <1>11, TypePartsNext, KeptByTame

\* The command goes over from the request that carried it to the agent, unstarted.
LEMMA TakeCommandStep ==
  ASSUME IInv, TakeCommand
  PROVE  IInv'
<1> DEFINE w == agent.wait
           c == call[w].cmd
           free == [call EXCEPT ![w] = CallIdle]
<1>1. CallsTyped /\ AgentTyped
  BY TypeParts DEF IInv
<1>2. RowsTyped' /\ RestTyped' /\ CancelNames' /\ Keeps
  BY AgentAside DEF Work
<1>3. w \in Slot /\ call[w].op = "claim" /\ c # None /\ c \in Command
  BY <1>1 DEF TakeCommand, AwaitsClaim, IInv, CallsTyped, Slots, CallState
<1>4. Unstarted(c) /\ HandedOut(c) /\ \A t \in Slot : Carries(t, c) => t = w
  BY <1>3 DEF IInv, ExecutedOnce, OnlyHandedOut, OneCarrier
<1>5. Post(free, "progress", c, "starting", c, "on")
  BY <1>4 DEF TakeCommand, Unstarted
<1> HIDE DEF w, c, free
<1>6. PICK s \in Slot :
        /\ Posted(free, s, "progress", c)
        /\ agent' = [pc |-> "starting", cmd |-> c, wait |-> s, active |-> c,
                    renewal |-> "on"]
  BY <1>5 DEF Post, Posted
<1>7. free \in Slots /\ Named(free) /\ \A t \in Slot : free[t] = IF t = w THEN CallIdle ELSE call[t]
  <2>1. Freed(free, w)
    BY DEF free, Freed
  <2> QED BY <1>1, <2>1, FreeOK
<1>8. /\ CallsTyped'
      /\ call'[s].op = "progress" /\ call'[s].cmd = c
      /\ \A t \in Slot : t # s => call'[t] = free[t]
  <2>1. "progress" \in {"claim"} \cup Reports /\ c \in Command \cup {None}
    BY <1>3 DEF Reports
  <2> QED BY <1>3, <1>6, <1>7, <2>1, PostOK
<1>9. AgentTyped' /\ agent'.cmd = c /\ agent'.pc = "starting"
  BY <1>3, <1>6 DEF AgentTyped, AgentState
<1>10. ran' = ran /\ saved' = saved /\ status' = status
  BY DEF TakeCommand, record, rows
<1>11. \A t \in Slot : call'[t].cmd # None =>
         call'[t].cmd = c \/ (t # w /\ call'[t] = call[t])
  BY <1>7, <1>8 DEF CallIdle
<1>12. OnlyHandedOut'
  BY <1>4, <1>9, <1>10, <1>11 DEF IInv, OnlyHandedOut, HandedOut
<1>13. \A t \in Slot : call'[t].op = "claim" /\ call'[t].cmd # None =>
         t # w /\ call'[t] = call[t] /\ call[t].cmd # c
  <2>1. \A t \in Slot : call'[t].op = "claim" /\ call'[t].cmd # None => t # w /\ call'[t] = call[t]
    BY <1>7, <1>8 DEF CallIdle
  <2> QED BY <1>4, <2>1 DEF Carries
<1>14. OneCarrier'
  BY <1>9, <1>13 DEF IInv, OneCarrier, Carries
<1>15. ExecutedOnce'
  BY <1>10, <1>13 DEF IInv, ExecutedOnce, Unstarted
<1>16. AwaitsClaim' /\ NotStarted'
  BY <1>4, <1>9, <1>10 DEF AwaitsClaim, NotStarted, Unstarted
<1> QED BY <1>2, <1>8, <1>9, <1>12, <1>14, <1>15, <1>16, TypePartsNext DEF IInv

-----------------------------------------------------------------------------
(* Theorems.                                                               *)

LEMMA InitOK == Init => IInv
<1> SUFFICES ASSUME Init PROVE IInv
  OBVIOUS
<1>1. \A s \in Slot : call[s] = CallIdle /\ call[s].op = "none" /\ call[s].cmd = None /\ call[s].pc = "idle"
  BY DEF Init, CallIdle
<1>2. agent = AgentIdle /\ agent.pc = "idle" /\ agent.renewal = "off" /\ agent \in AgentState
  BY DEF Init, AgentIdle, AgentState
<1>3. call \in [Slot -> CallState]
  BY DEF Init, CallIdle, CallState
<1>4. TypeOK
  BY <1>1, <1>2, <1>3, CommandAssumption DEF Init, TypeOK, Status, NoCancel, Works
<1>5. ExecutedOnce
  BY <1>1 DEF Init, ExecutedOnce, Unstarted
<1>6. OnlyHandedOut /\ OneCarrier /\ AwaitsClaim /\ NotStarted
  BY <1>1, <1>2 DEF OnlyHandedOut, OneCarrier, AwaitsClaim, NotStarted, Works
<1>7. CancelNames
  BY DEF Init, NoCancel, CancelNames
<1> QED BY <1>4, <1>5, <1>6, <1>7 DEF IInv

LEMMA StepOK == IInv /\ [Next]_vars => IInv'
<1> SUFFICES ASSUME IInv, [Next]_vars PROVE IInv'
  OBVIOUS
<1>1. CASE Admin
  BY <1>1, AdminStep
<1>2. CASE Clock
  BY <1>2, ClockStep
<1>3. ASSUME NEW s \in Slot, Handle(s) \/ StatementFails(s) \/ ClaimInterrupts(s, FALSE) PROVE IInv'
  BY <1>3, BackendStep
<1>4. CASE Heartbeat \/ Poll \/ PollEnds \/ Finish \/ RenewLease \/ RenewalStops \/ Crash \/ Boot
  BY <1>4, AgentQuietStep
<1>5. CASE Start \/ SaveResult
  BY <1>5, AgentReadsStep
<1>6. CASE Report \/ PostFail
  BY <1>6, AgentReportsStep
<1>7. CASE TakeCommand
  BY <1>7, TakeCommandStep
<1>8. CASE UNCHANGED vars
  <2>1. /\ call' = call /\ agent' = agent /\ saved' = saved /\ ran' = ran /\ status' = status
        /\ cancel' = cancel
    BY <1>8 DEF vars, rows, record
  <2>2. TypeOK'
    BY <1>8 DEF IInv, TypeOK, vars, rows, bounds, record, Works
  <2>3. Quiet /\ WaitKept /\ SameAgent /\ Keeps /\ CancelNames'
    BY <2>1 DEF Quiet, WaitKept, SameAgent, Keeps, HandedOut, CancelNames, IInv
  <2> QED BY <2>1, <2>2, <2>3, KeptByQuiet
<1> QED BY <1>1, <1>2, <1>3, <1>4, <1>5, <1>6, <1>7, <1>8 DEF Next, Work

\* A command is handed over once and stays in one pair of hands: what the backend
\* claims for the agent and what the agent works on stay in step.
THEOREM Invariant == Spec => []IInv
<1> QED BY InitOK, StepOK, PTL DEF Spec

\* Every variable holds a value of its kind.
THEOREM TypeCorrect == Spec => []TypeOK
<1> QED BY Invariant, PTL DEF IInv

\* However the agent's requests are lost, late or repeated, and whoever crashes, no
\* command is executed twice.
THEOREM ExecutedAtMostOnce == Spec => []ExecutedOnce
<1> QED BY Invariant, PTL DEF IInv

-----------------------------------------------------------------------------
(* What a step may do to the status of commands.                           *)

Sets(c, new) == status' = [status EXCEPT ![c] = new]

\* The transitions of one command, and the one of all lapsed commands.
StatusStep ==
  \/ \E c \in Command :
       \/ status[c] = "none" /\ Sets(c, "queued")
       \/ status[c] = "queued" /\ (Sets(c, "cancelled") \/ Sets(c, "claimed"))
       \/ status[c] \in Active /\ \E new \in Active : Sets(c, new)
       \/ HandedOut(c) /\ (Sets(c, "completed") \/ Sets(c, "failed"))
  \/ status' = [c \in Command |-> IF c \in Lapsed THEN "interrupted" ELSE status[c]]

LEMMA StatusStepOK ==
  ASSUME IInv, [Next]_vars
  PROVE  \/ status' = status /\ (ran' = ran \/ Start)
         \/ StatusStep /\ ran' = ran
<1>1. CallsTyped
  BY TypeParts DEF IInv
<1>2. CASE UNCHANGED vars
  BY <1>2 DEF vars, rows, record
<1>3. CASE Admin
  <2>1. ran' = ran
    BY <1>3 DEF Admin, Create, CancelRead, CancelWrite, ViewStatus, record
  <2>2. CASE \E c \in Command : Create(c) \/ CancelRead(c)
    BY <2>1, <2>2 DEF Create, CancelRead, rows, StatusStep, Sets
  <2>3. CASE CancelWrite
    <3>1. cancel.cmd \in Command
      BY <2>3 DEF CancelWrite, CancelNames, IInv
    <3>2. status' = status \/ StatusStep
      BY <2>3, <3>1 DEF CancelWrite, StatusStep, Sets, Active
    <3> QED BY <2>1, <3>2
  <2>4. ASSUME NEW whole \in BOOLEAN, ViewStatus(whole) PROVE StatusStep
    BY <2>4 DEF ViewStatus, MarkInterrupted, StatusStep
  <2> QED BY <1>3, <2>1, <2>2, <2>3, <2>4 DEF Admin
<1>4. CASE Clock
  BY <1>4 DEF Clock, Expire, LeaseAges, HeartbeatAges, rows, record
<1>5. ASSUME NEW s \in Slot, Handle(s) \/ StatementFails(s) \/ ClaimInterrupts(s, FALSE)
      PROVE  (status' = status \/ StatusStep) /\ ran' = ran
  <2>1. call[s].op \in Reports => call[s].cmd \in Command
    BY <1>1 DEF CallsTyped, Named
  <2>2. ASSUME NEW whole \in BOOLEAN, ClaimInterrupts(s, whole) PROVE StatusStep /\ ran' = ran
    BY <2>2 DEF ClaimInterrupts, MarkInterrupted, StatusStep
  <2>3. CASE ClaimTakes(s)
    BY <2>3 DEF ClaimTakes, Claimable, record, StatusStep, Sets
  <2>4. CASE Progress(s)
    BY <2>1, <2>4 DEF Progress, record, StatusStep, Sets, Active, Reports
  <2>5. CASE FinishWrites(s)
    <3>1. call[s].cmd \in Command /\ call[s].cmd # None
      BY <2>1, <2>5, CommandAssumption DEF FinishWrites, Reports
    <3>2. HandedOut(call[s].cmd)
      BY <3>1 DEF IInv, OnlyHandedOut
    <3>3. Sets(call[s].cmd, "completed") \/ Sets(call[s].cmd, "failed")
      BY <2>5 DEF FinishWrites, Verdict, Sets
    <3> QED BY <2>5, <3>1, <3>2, <3>3 DEF FinishWrites, StatusStep
  <2>6. CASE ClaimMarks(s) \/ FinishReads(s) \/ FinishClears(s) \/ StatementFails(s)
    BY <2>6 DEF ClaimMarks, FinishReads, FinishClears, StatementFails, rows, record
  <2> QED BY <1>5, <2>2, <2>3, <2>4, <2>5, <2>6 DEF Handle
<1>6. CASE Heartbeat \/ Poll \/ Work \/ RenewLease \/ RenewalStops \/ Crash \/ Boot
  BY <1>6 DEF Heartbeat, Poll, Work, TakeCommand, PollEnds, Start, Report, SaveResult, PostFail,
              Finish, RenewLease, RenewalStops, Crash, Boot, rows, record
<1> QED BY <1>2, <1>3, <1>4, <1>5, <1>6 DEF Next

\* A report never undoes a cancellation, and neither the administrator nor the lease
\* undoes a report.
THEOREM VerdictsKept == Spec => VerdictKept
<1>1. IInv /\ [Next]_vars =>
        [\A c \in Command :
           /\ status[c] \in {"completed", "failed"} => status'[c] \in {"completed", "failed"}
           /\ status[c] = "cancelled" => status'[c] = "cancelled"]_vars
  <2> SUFFICES ASSUME IInv, [Next]_vars, NEW c \in Command
      PROVE  /\ status[c] \in {"completed", "failed"} => status'[c] \in {"completed", "failed"}
             /\ status[c] = "cancelled" => status'[c] = "cancelled"
    OBVIOUS
  <2>1. RowsTyped
    BY TypeParts DEF IInv
  <2>2. CASE StatusStep
    BY <2>1, <2>2 DEF RowsTyped, StatusStep, Sets, Active, HandedOut, Lapsed
  <2> QED BY <2>2, StatusStepOK
<1> QED BY <1>1, Invariant, PTL DEF Spec, VerdictKept

-----------------------------------------------------------------------------
(* The promise of CommandOnce.                                             *)

Phases == [c \in Command |-> Phase(c)]

LEMMA PromiseStep ==
  ASSUME IInv, [Next]_vars
  PROVE  [Promise!Next]_<<Phases, ran>>
<1>1. RowsTyped /\ AgentTyped
  BY TypeParts DEF IInv
<1>2. CASE status' = status /\ ran' = ran
  BY <1>2 DEF Phases, Phase
<1>3. CASE status' = status /\ Start
  <2>1. agent.cmd \in Command /\ HandedOut(agent.cmd) /\ ran[agent.cmd] = 0
    BY <1>1, <1>3 DEF Start, AgentTyped, Works, IInv, OnlyHandedOut, NotStarted
  <2>2. Phases[agent.cmd] \in {"taken", "closed"}
    BY <2>1 DEF Phases, Phase, HandedOut, Active
  <2>3. Phases' = Phases
    BY <1>3 DEF Phases, Phase
  <2>4. ran' = [ran EXCEPT ![agent.cmd] = 1]
    BY <1>1, <1>3, <2>1 DEF Start, RowsTyped
  <2>5. Promise!Execute(agent.cmd)
    BY <2>1, <2>2, <2>3, <2>4 DEF Promise!Execute, Phases
  <2> QED BY <2>1, <2>5 DEF Promise!Next
<1>4. CASE StatusStep /\ ran' = ran
  <2>1. ASSUME NEW c \in Command, status[c] = "none", Sets(c, "queued") PROVE Promise!Submit(c)
    BY <1>1, <1>4, <2>1 DEF Promise!Submit, Phase, RowsTyped, Sets
  <2>2. ASSUME NEW c \in Command, status[c] = "queued", Sets(c, "cancelled") PROVE Promise!Withdraw(c)
    BY <1>1, <1>4, <2>2 DEF Promise!Withdraw, Phase, RowsTyped, Sets
  <2>3. ASSUME NEW c \in Command, status[c] = "queued", Sets(c, "claimed") PROVE Promise!HandOut(c)
    BY <1>1, <1>4, <2>3 DEF Promise!HandOut, Phase, RowsTyped, Sets, Active
  <2>4. ASSUME NEW c \in Command, status[c] \in Active, NEW new \in Active, Sets(c, new)
        PROVE  Phases' = Phases
    BY <1>1, <2>4 DEF Phases, Phase, RowsTyped, Sets, Active
  <2>5. ASSUME NEW c \in Command, HandedOut(c), NEW new \in {"completed", "failed"}, Sets(c, new)
        PROVE  Phases' = Phases \/ Promise!Close({c})
    <3>1. CASE status[c] \in Active
      BY <1>1, <1>4, <2>5, <3>1 DEF Promise!Close, Phase, RowsTyped, Sets, Active
    <3>2. CASE status[c] \notin Active
      BY <1>1, <2>5, <3>2 DEF Phases, Phase, RowsTyped, Sets, Active, HandedOut
    <3> QED BY <3>1, <3>2
  <2>6. ASSUME status' = [c \in Command |-> IF c \in Lapsed THEN "interrupted" ELSE status[c]]
        PROVE  Promise!Close(Lapsed)
    BY <1>1, <1>4, <2>6 DEF Promise!Close, Phase, RowsTyped, Active, Lapsed
  <2>7. Lapsed \in SUBSET Command /\ \A c \in Command : {c} \in SUBSET Command
    BY DEF Lapsed
  <2> QED BY <1>4, <2>1, <2>2, <2>3, <2>4, <2>5, <2>6, <2>7 DEF StatusStep, Promise!Next
<1> QED BY <1>2, <1>3, <1>4, StatusStepOK

\* The backend and the agent implement CommandOnce: a command is handed out once,
\* executed once after that, and not at all once it was withdrawn.
THEOREM Implements == Spec => KeepsPromise
<1>1. Init => Promise!Init
  BY DEF Init, Promise!Init, Phase
<1>2. IInv /\ [Next]_vars => [Promise!Next]_<<Phases, ran>>
  BY PromiseStep
<1> QED BY <1>1, <1>2, Invariant, PTL DEF Spec, KeepsPromise, Promise!Spec, Phases

-----------------------------------------------------------------------------
(* What the agent's file calls completed.  A report of failure comes after *)
(* everything else the agent says of a command, and only of one that it    *)
(* has not called completed.                                               *)

Working == {"starting", "running", "completing"}

\* Nobody reports on a command that is still on its way to the agent.
Uncarried ==
  \A s, t \in Slot : call[s].op = "claim" /\ call[s].cmd # None /\ call[t].op \in Reports
                       => call[t].cmd # call[s].cmd
FailsLast ==
  \A s \in Slot : call[s].op = "fail" =>
    /\ call[s].cmd \notin saved
    /\ Works /\ agent.cmd = call[s].cmd => agent.pc = "failing"
Unsaved == agent.pc \in Working => agent.cmd \notin saved

\* The handler of s has written its verdict.
Confirms(s) == call[s].pc = "clear" \/ (call[s].pc = "done" /\ call[s].ok)
AwaitsReport ==
  agent.pc = "completing" =>
    /\ agent.wait \in Slot /\ call[agent.wait].op = "complete" /\ call[agent.wait].cmd = agent.cmd
    /\ Confirms(agent.wait) => status[agent.cmd] = "completed"

ReportInv == Uncarried /\ FailsLast /\ Unsaved
FinalInv  == ReportInv /\ AwaitsReport /\ HistoryIsFinal

\* A step that reports nothing new, or the agent's failure; the history file may come to know
\* a command the agent reports completed.
TameReports == \A t \in Slot :
  \/ call'[t].cmd = None \/ (call'[t].cmd = call[t].cmd /\ call'[t].op = call[t].op)
  \/ /\ call'[t].op \in Reports /\ Works /\ call'[t].cmd = agent.cmd
     /\ call'[t].op = "fail" => agent.pc \in Working /\ agent'.pc = "failing"
TameAgent ==
  /\ Works' => Works /\ agent'.cmd = agent.cmd
  /\ Works' /\ agent.pc = "failing" => agent'.pc = "failing"
  /\ agent'.pc \in Working => agent.pc \in Working
  /\ agent'.pc = "failing" => agent.pc \in Working \cup {"failing"}
  /\ saved' = saved \/ (saved' = saved \cup {agent.cmd} /\ agent.pc = "completing" /\ ~Works')

LEMMA ReportsKept ==
  ASSUME IInv, IInv', ReportInv, TameReports, TameAgent
  PROVE  ReportInv'
<1>1. CallsTyped' /\ \A t \in Slot : call'[t].op \in Reports => call'[t].cmd # None
  <2>1. CallsTyped'
    BY DEF IInv, TypeOK, CallsTyped, Named, Slots, Reports
  <2> QED BY <2>1, CommandAssumption DEF CallsTyped, Named
<1>2. Uncarried'
  BY <1>1 DEF ReportInv, Uncarried, TameReports, IInv, OneCarrier, Reports
<1>3. Unsaved'
  BY DEF ReportInv, Unsaved, TameAgent, Working, Works
<1>4. FailsLast'
  <2> SUFFICES ASSUME NEW t \in Slot, call'[t].op = "fail"
               PROVE  /\ call'[t].cmd \notin saved'
                      /\ Works' /\ agent'.cmd = call'[t].cmd => agent'.pc = "failing"
    BY DEF FailsLast, Works
  <2>1. CASE call'[t].cmd = call[t].cmd /\ call'[t].op = call[t].op
    BY <2>1 DEF ReportInv, FailsLast, TameAgent, Working, Works
  <2>2. CASE agent.pc \in Working /\ agent'.pc = "failing" /\ call'[t].cmd = agent.cmd
    BY <2>2 DEF ReportInv, Unsaved, TameAgent, Works
  <2> QED BY <1>1, <2>1, <2>2 DEF TameReports, Reports
<1> QED BY <1>2, <1>3, <1>4 DEF ReportInv

\* What the handlers do to slots.
LEMMA AnswerAt ==
  ASSUME CallsTyped, NEW s \in Slot, NEW ok \in BOOLEAN, NEW c \in Command \cup {None}, Answered(s, ok, c)
  PROVE  /\ \A t \in Slot : t # s => call'[t] = call[t]
         /\ \/ call'[s] = CallIdle /\ agent.wait # s
            \/ /\ agent.wait = s /\ call'[s].op = call[s].op /\ call'[s].cmd = c
               /\ call'[s].pc = "done" /\ call'[s].ok = ok
<1>1. call \in Slots /\ call[s] \in CallState
  BY DEF CallsTyped, Slots
<1> DEFINE answer == [call[s] EXCEPT !.pc = "done", !.ok = ok, !.cmd = c]
<1>2. answer.pc = "done" /\ answer.cmd = c /\ answer.op = call[s].op /\ answer.ok = ok
  BY <1>1 DEF CallState
<1>3. call' = [call EXCEPT ![s] = IF agent.wait = s THEN answer ELSE CallIdle]
  BY DEF Answered
<1> HIDE DEF answer
<1> QED BY <1>1, <1>2, <1>3 DEF Slots

LEMMA AdvanceAt ==
  ASSUME CallsTyped, NEW s \in Slot, NEW pc, call' = [call EXCEPT ![s].pc = pc]
  PROVE  /\ \A t \in Slot : t # s => call'[t] = call[t]
         /\ call'[s].pc = pc /\ call'[s].op = call[s].op /\ call'[s].cmd = call[s].cmd
<1>1. call \in Slots /\ call[s] \in CallState
  BY DEF CallsTyped, Slots
<1> DEFINE next == [call[s] EXCEPT !.pc = pc]
<1>2. next.pc = pc /\ next.op = call[s].op /\ next.cmd = call[s].cmd
  BY <1>1 DEF CallState
<1>3. call' = [call EXCEPT ![s] = next]
  OBVIOUS
<1> HIDE DEF next
<1> QED BY <1>1, <1>2, <1>3 DEF Slots

\* A command leaves "completed" by a report of failure only, and the active ones by a report or
\* with their lease.
LEMMA StatusLeaves ==
  ASSUME IInv, [Next]_vars, NEW c \in Command, status'[c] # status[c]
  PROVE  /\ status[c] = "completed" => \E s \in Slot : FinishWrites(s) /\ call[s].op = "fail" /\ call[s].cmd = c
         /\ status[c] \in Active =>
              \/ status'[c] \in Active
              \/ \E s \in Slot : FinishWrites(s) /\ call[s].cmd = c
              \/ \E whole \in BOOLEAN : MarkInterrupted(whole) /\ c \in Lapsed
<1>1. RowsTyped
  BY TypeParts DEF IInv
<1>2. CASE \E d \in Command : Create(d)
  BY <1>1, <1>2 DEF Create, RowsTyped, Active
<1>3. CASE CancelWrite
  <2>1. cancel.cmd \in Command
    BY <1>3 DEF CancelWrite, CancelNames, IInv
  <2> QED BY <1>1, <1>3, <2>1 DEF CancelWrite, RowsTyped, Active
<1>4. ASSUME NEW whole \in BOOLEAN, MarkInterrupted(whole) PROVE c \in Lapsed /\ status[c] \in Active
  BY <1>4 DEF MarkInterrupted, Lapsed
<1>5. ASSUME NEW s \in Slot, ClaimTakes(s) PROVE status[c] = "queued"
  BY <1>1, <1>5 DEF ClaimTakes, Claimable, RowsTyped
<1>6. ASSUME NEW s \in Slot, Progress(s) PROVE status[c] \in Active /\ status'[c] = "running"
  <2>1. call[s].cmd \in Command
    BY <1>6, TypeParts DEF Progress, IInv, CallsTyped, Named, Reports
  <2> QED BY <1>1, <1>6, <2>1 DEF Progress, RowsTyped
<1>7. ASSUME NEW s \in Slot, FinishWrites(s)
      PROVE  call[s].cmd = c /\ (status[c] = "completed" => call[s].op = "fail")
  <2>1. call[s].cmd \in Command
    BY <1>7, TypeParts DEF FinishWrites, IInv, CallsTyped, Named, Reports
  <2> QED BY <1>1, <1>7, <2>1 DEF FinishWrites, Verdict, RowsTyped
<1>8. \/ \E d \in Command : Create(d)
      \/ CancelWrite
      \/ \E whole \in BOOLEAN : MarkInterrupted(whole)
      \/ \E s \in Slot : ClaimTakes(s) \/ Progress(s) \/ FinishWrites(s)
  <2>1. CASE UNCHANGED vars
    BY <2>1 DEF vars, rows
  <2>2. CASE Admin
    BY <2>2 DEF Admin, CancelRead, ViewStatus, rows
  <2>3. CASE Clock
    BY <2>3 DEF Clock, Expire, LeaseAges, HeartbeatAges, rows
  <2>4. ASSUME NEW s \in Slot, Handle(s) \/ StatementFails(s) \/ ClaimInterrupts(s, FALSE)
        PROVE  \/ \E whole \in BOOLEAN : MarkInterrupted(whole)
               \/ ClaimTakes(s) \/ Progress(s) \/ FinishWrites(s)
    BY <2>4 DEF Handle, ClaimInterrupts, ClaimMarks, FinishReads, FinishClears, StatementFails, rows
  <2>5. CASE Heartbeat \/ Poll \/ Work \/ RenewLease \/ RenewalStops \/ Crash \/ Boot
    BY <2>5 DEF Heartbeat, Poll, Work, TakeCommand, PollEnds, Start, Report, SaveResult, PostFail,
                Finish, RenewLease, RenewalStops, Crash, Boot, rows
  <2> QED BY <2>1, <2>2, <2>3, <2>4, <2>5 DEF Next
<1> QED BY <1>2, <1>3, <1>4, <1>5, <1>6, <1>7, <1>8 DEF Active

LEMMA StaysCompleted ==
  ASSUME IInv, FinalInv, [Next]_vars, NEW c \in Command, status[c] = "completed",
         c \in saved \/ (agent.pc = "completing" /\ agent.cmd = c)
  PROVE  status'[c] = "completed"
<1> SUFFICES ASSUME status'[c] # status[c] PROVE FALSE
  OBVIOUS
<1>1. PICK s \in Slot : call[s].op = "fail" /\ call[s].cmd = c
  BY StatusLeaves
<1> QED BY <1>1 DEF FinalInv, ReportInv, FailsLast, Works

\* The answer the completing agent waits for is that of its report.
AnswerKept ==
  agent.pc = "completing" =>
    /\ call'[agent.wait].op = call[agent.wait].op /\ call'[agent.wait].cmd = call[agent.wait].cmd
    /\ call'[agent.wait].pc = "clear" \/ (call'[agent.wait].pc = "done" /\ call'[agent.wait].ok)
         => Confirms(agent.wait) \/ status'[agent.cmd] = "completed"

\* A step that leaves the agent and its file as they are.
LEMMA FinalQuiet ==
  ASSUME IInv, IInv', FinalInv, [Next]_vars, Quiet, SameAgent, saved' = saved, AnswerKept
  PROVE  FinalInv'
<1>1. TameReports /\ TameAgent
  BY DEF Quiet, TameReports, SameAgent, TameAgent, Works, Working
<1>2. ReportInv'
  BY <1>1, ReportsKept DEF FinalInv
<1>3. agent.pc = "completing" => agent.cmd \in Command /\ Works
  BY DEF IInv, TypeOK, Works
<1>4. AwaitsReport'
  <2> SUFFICES ASSUME agent.pc = "completing"
               PROVE  /\ call'[agent.wait].op = "complete" /\ call'[agent.wait].cmd = agent.cmd
                      /\ Confirms(agent.wait)' => status'[agent.cmd] = "completed"
    BY DEF AwaitsReport, SameAgent, FinalInv, Confirms
  <2>1. status[agent.cmd] = "completed" => status'[agent.cmd] = "completed"
    BY <1>3, StaysCompleted
  <2> QED BY <2>1 DEF AnswerKept, FinalInv, AwaitsReport, Confirms, SameAgent
<1>5. HistoryIsFinal'
  <2>1. \A c \in saved : c \in Command
    BY DEF IInv, TypeOK
  <2> QED BY <2>1, StaysCompleted DEF FinalInv, HistoryIsFinal
<1> QED BY <1>2, <1>4, <1>5 DEF FinalInv

\* The handlers: the one that answers the report has written the verdict before.
LEMMA FinalBackend ==
  ASSUME IInv, IInv', FinalInv, [Next]_vars, NEW s \in Slot,
         Handle(s) \/ StatementFails(s) \/ ClaimInterrupts(s, FALSE), ~ClaimTakes(s)
  PROVE  FinalInv'
<1>1. CallsTyped
  BY TypeParts DEF IInv
<1>2. Quiet /\ agent' = agent /\ saved' = saved
  BY BackendAside DEF Aside, IInv, Handle
<1>3. call[s].cmd \in Command \cup {None}
  BY <1>1 DEF CallsTyped, Slots, CallState
<1>4. AnswerKept
  <2> SUFFICES ASSUME agent.pc = "completing" PROVE AnswerKept
    BY DEF AnswerKept
  <2>1. /\ agent.wait \in Slot /\ call[agent.wait].op = "complete" /\ call[agent.wait].cmd = agent.cmd
        /\ agent.cmd \in Command
    BY DEF FinalInv, AwaitsReport, IInv, TypeOK, Works
  <2>2. CASE agent.wait # s
    <3>1. \A t \in Slot : t # s => call'[t] = call[t]
      <4> DEFINE Answers == \E ok \in BOOLEAN, c \in Command \cup {None} : Answered(s, ok, c)
                 Advances == \E pc : call' = [call EXCEPT ![s].pc = pc]
      <4>1. Answers => \A t \in Slot : t # s => call'[t] = call[t]
        BY <1>1, AnswerAt
      <4>2. Advances => \A t \in Slot : t # s => call'[t] = call[t]
        BY <1>1, AdvanceAt
      <4>3. Answers \/ Advances
        BY <1>3 DEF Handle, ClaimInterrupts, ClaimMarks, Progress, FinishReads, FinishWrites, FinishClears,
                    StatementFails, Records
      <4> HIDE DEF Answers, Advances
      <4> QED BY <4>1, <4>2, <4>3
    <3> QED BY <2>1, <2>2, <3>1 DEF AnswerKept, Confirms
  <2>3. CASE agent.wait = s
    <3>1. CASE FinishReads(s)
      <4>1. CASE status[agent.cmd] = "completed" /\ Answered(s, TRUE, agent.cmd)
        <5>1. status' = status
          BY <3>1 DEF FinishReads, rows
        <5> QED BY <1>1, <2>1, <2>3, <4>1, <5>1, AnswerAt DEF AnswerKept
      <4>2. CASE Answered(s, FALSE, agent.cmd)
        BY <1>1, <2>1, <2>3, <4>2, AnswerAt DEF AnswerKept, Confirms
      <4>3. CASE call' = [call EXCEPT ![s].pc = "write"]
        BY <1>1, <2>1, <2>3, <4>3, AdvanceAt DEF AnswerKept, Confirms
      <4> QED BY <2>1, <2>3, <3>1, <4>1, <4>2, <4>3 DEF FinishReads, Verdict
    <3>2. CASE FinishWrites(s)
      <4>1. status'[agent.cmd] = "completed"
        BY <2>1, <2>3, <3>2 DEF FinishWrites, Verdict, IInv, TypeOK
      <4> QED BY <1>1, <2>1, <2>3, <3>2, <4>1, AdvanceAt DEF FinishWrites, AnswerKept
    <3>3. CASE FinishClears(s)
      <4>1. Confirms(s) /\ (Answered(s, TRUE, agent.cmd) \/ Answered(s, FALSE, agent.cmd))
        BY <2>1, <2>3, <3>3 DEF FinishClears, Records, Confirms
      <4> QED BY <1>1, <2>1, <2>3, <4>1, AnswerAt DEF AnswerKept
    <3>4. CASE StatementFails(s)
      <4>1. Answered(s, FALSE, agent.cmd)
        BY <2>1, <2>3, <3>4 DEF StatementFails
      <4> QED BY <1>1, <2>1, <2>3, <4>1, AnswerAt DEF AnswerKept, Confirms
    <3> QED BY <2>1, <2>3, <3>1, <3>2, <3>3, <3>4 DEF Handle, ClaimInterrupts, ClaimMarks, Progress
  <2> QED BY <2>2, <2>3
<1> QED BY <1>2, <1>4, FinalQuiet DEF SameAgent

\* The administrator, time, and what the agent does next to its command.
LEMMA FinalAround ==
  ASSUME IInv, IInv', FinalInv, [Next]_vars,
         Admin \/ Clock \/ Heartbeat \/ RenewLease \/ RenewalStops \/ UNCHANGED vars
  PROVE  FinalInv'
<1>1. call' = call /\ saved' = saved /\ SameAgent
  <2>1. call' = call /\ saved' = saved
    BY DEF Admin, Create, CancelRead, CancelWrite, ViewStatus, Clock, Expire, LeaseAges, HeartbeatAges,
           Heartbeat, RenewLease, RenewalStops, vars
  <2>2. agent' = agent \/ \E how : agent' = [agent EXCEPT !.renewal = how]
    BY DEF Admin, Create, CancelRead, CancelWrite, ViewStatus, Clock, Expire, LeaseAges, HeartbeatAges,
           Heartbeat, RenewLease, RenewalStops, vars
  <2> QED BY <2>1, <2>2 DEF SameAgent, IInv, TypeOK, AgentState
<1>2. Quiet /\ AnswerKept
  BY <1>1 DEF Quiet, AnswerKept, Confirms
<1> QED BY <1>1, <1>2, FinalQuiet

\* A carrier of a command that nobody has: nobody reports on it.
LEMMA FinalClaimTakes ==
  ASSUME IInv, IInv', FinalInv, [Next]_vars, NEW s \in Slot, ClaimTakes(s)
  PROVE  FinalInv'
<1>1. CallsTyped /\ agent' = agent /\ saved' = saved /\ call[s].op = "claim"
  BY TypeParts DEF IInv, ClaimTakes
<1>2. /\ \A t \in Slot : t # s => call'[t] = call[t]
      /\ \/ call'[s] = CallIdle /\ agent.wait # s
         \/ call'[s].op = "claim" /\ call'[s].cmd = None
         \/ /\ call'[s].op = "claim" /\ call'[s].cmd \in Claimable
  <2>1. CASE Answered(s, TRUE, None)
    BY <1>1, <2>1, AnswerAt
  <2>2. ASSUME NEW c \in Claimable, call' = [call EXCEPT ![s].pc = "mark", ![s].cmd = c]
        PROVE  (\A t \in Slot : t # s => call'[t] = call[t]) /\ call'[s].op = "claim" /\ call'[s].cmd = c
    <3> DEFINE next == [call[s] EXCEPT !.pc = "mark", !.cmd = c]
    <3>1. call \in Slots /\ call[s] \in CallState
      BY <1>1 DEF CallsTyped, Slots
    <3>2. next.op = "claim" /\ next.cmd = c
      BY <1>1, <3>1 DEF CallState
    <3>3. call' = [call EXCEPT ![s] = next]
      BY <2>2, <3>1 DEF Slots, CallState
    <3> HIDE DEF next
    <3> QED BY <3>1, <3>2, <3>3 DEF Slots
  <2> QED BY <2>1, <2>2 DEF ClaimTakes
<1>3. \A c \in Claimable : c \in Command /\ \A t \in Slot : call[t].cmd # c
  <2>1. \A c \in Claimable : c \in Command /\ c # None /\ ~HandedOut(c)
    BY CommandAssumption DEF Claimable, HandedOut, Active
  <2> QED BY <2>1 DEF IInv, OnlyHandedOut
<1>4. CallIdle.op = "none" /\ CallIdle.cmd = None
  BY DEF CallIdle
<1>5. Uncarried'
  BY <1>2, <1>3, <1>4 DEF Reports, FinalInv, ReportInv, Uncarried
<1>6. FailsLast' /\ Unsaved'
  BY <1>1, <1>2, <1>4 DEF FinalInv, ReportInv, FailsLast, Unsaved, Works
<1>7. AwaitsReport'
  <2> SUFFICES ASSUME agent.pc = "completing"
               PROVE  /\ call'[agent.wait] = call[agent.wait] /\ agent.wait \in Slot
                      /\ Confirms(agent.wait) => status'[agent.cmd] = "completed"
    BY <1>1 DEF FinalInv, AwaitsReport, Confirms
  <2>1. agent.wait \in Slot /\ agent.wait # s /\ agent.cmd \in Command
    BY <1>1 DEF FinalInv, AwaitsReport, IInv, TypeOK, Works
  <2> QED BY <1>2, <2>1, StaysCompleted DEF FinalInv, AwaitsReport
<1>8. HistoryIsFinal'
  <2>1. \A c \in saved : c \in Command
    BY DEF IInv, TypeOK
  <2> QED BY <1>1, <2>1, StaysCompleted DEF FinalInv, HistoryIsFinal
<1> QED BY <1>5, <1>6, <1>7, <1>8 DEF FinalInv, ReportInv

\* A step of the agent that leaves the statuses, and lets it wait for no report or for a new one.
LEMMA FinalAgent ==
  ASSUME IInv, IInv', FinalInv, TameReports, TameAgent, status' = status, AwaitsReport',
         \A c \in saved' : c \in saved \/ status[c] = "completed"
  PROVE  FinalInv'
<1>1. ReportInv'
  BY ReportsKept DEF FinalInv
<1>2. HistoryIsFinal'
  BY DEF FinalInv, HistoryIsFinal
<1> QED BY <1>1, <1>2 DEF FinalInv

\* A poll, a boot and the end of a command.
LEMMA FinalPolls ==
  ASSUME IInv, IInv', FinalInv, Poll \/ PollEnds \/ Finish \/ Crash \/ Boot
  PROVE  FinalInv'
<1>1. CallsTyped /\ AgentTyped
  BY TypeParts DEF IInv
<1>2. saved' = saved /\ status' = status
  BY DEF Poll, PollEnds, Finish, Crash, Boot, rows
<1>3. agent'.pc \in {"idle", "off", "claiming"}
  BY <1>1, RestsOK DEF Poll, PollEnds, Finish, Crash, Boot, Post, AgentIdle
<1>4. Quiet
  <2>1. CASE Poll
    <3>1. PICK s \in Slot : Posted(call, s, "claim", None)
      BY <2>1 DEF Poll, Post, Posted
    <3>2. call'[s].cmd = None /\ \A t \in Slot : t # s => call'[t] = call[t]
      BY <1>1, <3>1, PostOK DEF CallsTyped
    <3> QED BY <3>2 DEF Quiet
  <2>2. CASE call' \in LeftBehind
    BY <1>1, <2>2, LeftOK DEF Quiet, CallIdle
  <2>3. CASE Boot
    BY <2>3 DEF Boot, Quiet
  <2> QED BY <2>1, <2>2, <2>3 DEF PollEnds, Finish, Crash, Failed
<1>5. TameReports /\ TameAgent /\ AwaitsReport'
  BY <1>2, <1>3, <1>4 DEF Quiet, TameReports, TameAgent, Works, Working, AwaitsReport
<1> QED BY <1>2, <1>5, FinalAgent

\* What is saved was acknowledged, and is the command's status.
LEMMA FinalReads ==
  ASSUME IInv, IInv', FinalInv, Start \/ SaveResult
  PROVE  FinalInv'
<1>1. CallsTyped /\ AgentTyped
  BY TypeParts DEF IInv
<1>2. Works /\ Freed(call', agent.wait) /\ status' = status
  BY DEF Start, SaveResult, Works, Freed, rows
<1>3. \A t \in Slot : call'[t] = IF t = agent.wait THEN CallIdle ELSE call[t]
  BY <1>1, <1>2, FreeOK
<1>4. TameReports
  BY <1>3 DEF TameReports, CallIdle
<1>5. CASE Start
  <2>1. agent'.pc = "running" /\ agent'.cmd = agent.cmd /\ agent.pc = "starting" /\ saved' = saved
    BY <1>1, <1>5 DEF Start, AgentTyped, AgentState
  <2>2. TameAgent /\ AwaitsReport'
    BY <2>1 DEF TameAgent, Works, Working, AwaitsReport
  <2> QED BY <1>2, <1>4, <2>1, <2>2, FinalAgent
<1>6. CASE SaveResult
  <2>1. agent'.pc = "idle" /\ agent.pc = "completing" /\ saved' = saved \cup {agent.cmd}
    BY <1>1, <1>6, RestsOK DEF SaveResult
  <2>2. TameAgent /\ AwaitsReport'
    BY <2>1 DEF TameAgent, Works, Working, AwaitsReport
  <2>3. status[agent.cmd] = "completed"
    BY <1>6 DEF SaveResult, Succeeded, FinalInv, AwaitsReport, Confirms
  <2> QED BY <1>2, <1>4, <2>1, <2>2, <2>3, FinalAgent
<1> QED BY <1>5, <1>6

\* A new report: completed after running, failed after all else.
LEMMA FinalReports ==
  ASSUME IInv, IInv', FinalInv, Report \/ PostFail
  PROVE  FinalInv'
<1>1. CallsTyped /\ AgentTyped
  BY TypeParts DEF IInv
<1>2. Works /\ agent.pc \in Working /\ agent.cmd \in Command
      /\ agent.renewal \in Renewal /\ agent.active \in Command \cup {None}
      /\ saved' = saved /\ status' = status
  BY <1>1 DEF Report, PostFail, AgentTyped, AgentState, Works, Working, Renewal, rows
<1>3. \E calls \in {call} \cup LeftBehind :
        \/ Post(calls, "complete", agent.cmd, "completing", agent.active, agent.renewal)
        \/ Post(calls, "fail", agent.cmd, "failing", agent.active, agent.renewal)
  BY DEF Report, PostFail
<1>4. PICK calls \in {call} \cup LeftBehind, s \in Slot, op \in {"complete", "fail"},
           pc \in {"completing", "failing"} :
        /\ Posted(calls, s, op, agent.cmd)
        /\ agent' = [pc |-> pc, cmd |-> agent.cmd, wait |-> s, active |-> agent.active,
                    renewal |-> agent.renewal]
        /\ op = "fail" <=> pc = "failing"
  BY <1>3 DEF Post, Posted
<1>5. /\ calls \in Slots /\ Named(calls)
      /\ \A t \in Slot : calls[t] = call[t] \/ calls[t] = CallIdle
  BY <1>1, <1>4, LeftOK DEF CallsTyped
<1>6. /\ call'[s].op = op /\ call'[s].cmd = agent.cmd /\ call'[s].pc = "sent"
      /\ \A t \in Slot : t # s => call'[t] = calls[t]
  <2>1. op \in {"claim"} \cup Reports /\ agent.cmd \in Command \cup {None}
    BY <1>2 DEF Reports
  <2> QED BY <1>2, <1>4, <1>5, <2>1, PostOK
<1>7. agent'.pc = pc /\ agent'.cmd = agent.cmd /\ agent'.wait = s
  BY <1>4
<1>8. TameReports
  BY <1>2, <1>4, <1>5, <1>6, <1>7 DEF TameReports, CallIdle, Reports
<1>9. TameAgent
  BY <1>2, <1>7 DEF TameAgent, Works, Working
<1>10. AwaitsReport'
  BY <1>4, <1>6, <1>7 DEF AwaitsReport, Confirms
<1> QED BY <1>2, <1>8, <1>9, <1>10, FinalAgent

\* The agent gets a command that nobody has reported on, and that its file does not know.
LEMMA FinalTakes ==
  ASSUME IInv, IInv', FinalInv, TakeCommand
  PROVE  FinalInv'
<1> DEFINE w == agent.wait
           c == call[w].cmd
           free == [call EXCEPT ![w] = CallIdle]
<1>1. CallsTyped /\ AgentTyped
  BY TypeParts DEF IInv
<1>2. w \in Slot /\ call[w].op = "claim" /\ c # None /\ c \in Command
  BY <1>1 DEF TakeCommand, AwaitsClaim, IInv, CallsTyped, Slots, CallState
<1>3. /\ c \notin saved
      /\ \A t \in Slot : call[t].op = "claim" /\ call[t].cmd = c => t = w
      /\ \A t \in Slot : call[t].op \in Reports => call[t].cmd # c
  BY <1>2 DEF Carries, IInv, ExecutedOnce, Unstarted, OneCarrier, FinalInv, ReportInv, Uncarried
<1>4. Post(free, "progress", c, "starting", c, "on") /\ saved' = saved /\ status' = status
  BY <1>3 DEF TakeCommand, rows
<1>5. Freed(free, w)
  BY DEF free, Freed
<1> HIDE DEF w, c, free
<1>6. PICK s \in Slot :
        /\ Posted(free, s, "progress", c)
        /\ agent' = [pc |-> "starting", cmd |-> c, wait |-> s, active |-> c,
                    renewal |-> "on"]
  BY <1>4 DEF Post, Posted
<1>7. free \in Slots /\ Named(free) /\ \A t \in Slot : free[t] = IF t = w THEN CallIdle ELSE call[t]
  BY <1>1, <1>5, FreeOK
<1>8. /\ call'[s].op = "progress" /\ call'[s].cmd = c
      /\ \A t \in Slot : t # s => call'[t] = free[t]
  <2>1. "progress" \in {"claim"} \cup Reports /\ c \in Command \cup {None}
    BY <1>2 DEF Reports
  <2> QED BY <1>2, <1>6, <1>7, <2>1, PostOK
<1>9. agent'.cmd = c /\ agent'.pc = "starting"
  BY <1>6
<1>10. \A t \in Slot : \/ t = s
                       \/ call'[t].op = "none" /\ call'[t].cmd = None
                       \/ t # w /\ call'[t] = call[t]
  BY <1>7, <1>8 DEF CallIdle
<1>11. Uncarried'
  <2> SUFFICES ASSUME NEW t \in Slot, NEW u \in Slot, call'[t].op = "claim", call'[t].cmd # None,
                      call'[u].op \in Reports
               PROVE  call'[u].cmd # call'[t].cmd
    BY DEF Uncarried
  <2>1. t # w /\ call'[t] = call[t] /\ call[t].cmd # c
    <3>1. t # s
      BY <1>8
    <3>2. t # w /\ call'[t] = call[t]
      BY <1>10, <3>1
    <3> QED BY <1>3, <3>2
  <2>2. CASE u = s
    BY <1>8, <2>1, <2>2
  <2>3. CASE call'[u] = call[u]
    BY <2>1, <2>3 DEF FinalInv, ReportInv, Uncarried
  <2> QED BY <1>10, <2>2, <2>3 DEF Reports
<1>12. FailsLast'
  <2> SUFFICES ASSUME NEW t \in Slot, call'[t].op = "fail"
               PROVE  call'[t].cmd \notin saved' /\ agent'.cmd # call'[t].cmd
    BY DEF FailsLast
  <2>1. t # s
    BY <1>8
  <2>2. call'[t] = call[t]
    BY <1>10, <2>1
  <2>3. call[t].op = "fail" /\ call[t].cmd \notin saved /\ call[t].op \in Reports
    BY <2>2 DEF FinalInv, ReportInv, FailsLast, Reports
  <2> QED BY <1>3, <1>4, <1>9, <2>2, <2>3
<1>13. Unsaved' /\ AwaitsReport' /\ HistoryIsFinal'
  BY <1>3, <1>4, <1>9 DEF Unsaved, AwaitsReport, FinalInv, HistoryIsFinal
<1> QED BY <1>11, <1>12, <1>13 DEF FinalInv, ReportInv

LEMMA FinalStep == IInv /\ FinalInv /\ [Next]_vars => FinalInv'
<1> SUFFICES ASSUME IInv, FinalInv, [Next]_vars PROVE FinalInv'
  OBVIOUS
<1>1. IInv'
  BY StepOK
<1>2. CASE Admin \/ Clock \/ Heartbeat \/ RenewLease \/ RenewalStops \/ UNCHANGED vars
  BY <1>1, <1>2, FinalAround
<1>3. ASSUME NEW s \in Slot, Handle(s) \/ StatementFails(s) \/ ClaimInterrupts(s, FALSE) PROVE FinalInv'
  BY <1>1, <1>3, FinalBackend, FinalClaimTakes
<1>4. CASE Poll \/ PollEnds \/ Finish \/ Crash \/ Boot
  BY <1>1, <1>4, FinalPolls
<1>5. CASE Start \/ SaveResult
  BY <1>1, <1>5, FinalReads
<1>6. CASE Report \/ PostFail
  BY <1>1, <1>6, FinalReports
<1>7. CASE TakeCommand
  BY <1>1, <1>7, FinalTakes
<1> QED BY <1>2, <1>3, <1>4, <1>5, <1>6, <1>7 DEF Next, Work

\* What the file of the agent calls completed, the database calls completed, whichever reports
\* were lost, late or answered after the agent had given up on them.
THEOREM HistoryStaysFinal == Spec => []HistoryIsFinal
<1>1. Init => FinalInv
  BY DEF Init, FinalInv, ReportInv, Uncarried, FailsLast, Unsaved, AwaitsReport, HistoryIsFinal,
         CallIdle, AgentIdle, Working
<1>2. IInv /\ FinalInv /\ [Next]_vars => FinalInv'
  BY FinalStep
<1>3. FinalInv => HistoryIsFinal
  BY DEF FinalInv
<1> QED BY <1>1, <1>2, <1>3, Invariant, PTL DEF Spec

-----------------------------------------------------------------------------
(* What the table of agents says of the current command.                   *)

\* Between its two UPDATEs a claim's command is nobody's but the claim's, and its lease is new.
MarksLive ==
  \A s \in Slot : call[s].op = "claim" /\ call[s].pc = "mark" =>
    call[s].cmd \in Command /\ status[call[s].cmd] \in Active /\ lease[call[s].cmd] = "fresh"
Executes == agent.pc \in {"starting", "running", "completing", "failing"}
ActiveKnown ==
  /\ Executes => agent.active = agent.cmd
  /\ ~Executes \/ agent.renewal = "threw" => agent.active \in unclear \cup {None}

CurrentInv == MarksLive /\ ActiveKnown /\ CurrentIsLive

\* A slot that an agent's step changes was waited for or idle.
LEMMA LeftAt ==
  ASSUME CallsTyped, NEW calls \in LeftBehind, NEW t \in Slot
  PROVE  calls[t] = call[t] \/ (calls[t] = CallIdle /\ call[t].pc # "clear")
<1>1. call \in Slots
  BY DEF CallsTyped
<1> DEFINE over == [call EXCEPT ![agent.wait] = CallIdle]
<1>2. over[t] = IF t = agent.wait THEN CallIdle ELSE call[t]
  BY <1>1 DEF Slots
<1>3. calls = call \/ (calls = over /\ call[agent.wait].pc \in {"sent", "done"})
  BY DEF LeftBehind
<1> HIDE DEF over
<1> QED BY <1>2, <1>3

\* The slots an agent that posts begins with.
LEMMA PostAt ==
  ASSUME NEW calls \in Slots, \A t \in Slot : calls[t] = call[t] \/ (calls[t] = CallIdle /\ call[t].pc # "clear"),
         NEW op \in {"claim"} \cup Reports, NEW c \in Command \cup {None}, NEW pc, NEW active, NEW renewal,
         Post(calls, op, c, pc, active, renewal), NEW t \in Slot
  PROVE  /\ call'[t].pc = "mark" => call'[t] = call[t]
         /\ call[t].pc = "clear" => call'[t] = call[t]
<1>1. PICK s \in Slot : calls[s].pc = "idle" /\ Posted(calls, s, op, c)
  BY DEF Post, Posted
<1>2. call'[t] = IF t = s THEN Request(op, c) ELSE calls[t]
  BY <1>1 DEF Posted, Slots
<1>3. Request(op, c).pc = "sent" /\ CallIdle.pc = "idle"
  BY DEF Request, CallIdle
<1> QED BY <1>1, <1>2, <1>3

LEMMA AgentSlots ==
  ASSUME IInv, Heartbeat \/ Poll \/ Work \/ RenewLease \/ RenewalStops \/ Crash \/ Boot, NEW t \in Slot
  PROVE  /\ call'[t].pc = "mark" => call'[t] = call[t]
         /\ call[t].pc = "clear" => call'[t] = call[t]
<1>1. CallsTyped /\ AgentTyped /\ call \in Slots /\ CallIdle.pc = "idle"
  BY TypeParts DEF IInv, CallsTyped, CallIdle
<1>2. CASE UNCHANGED call
  BY <1>2
<1>3. CASE call' \in LeftBehind
  BY <1>1, <1>3, LeftAt
<1>4. CASE Poll
  <2>1. "claim" \in {"claim"} \cup Reports /\ None \in Command \cup {None}
    OBVIOUS
  <2>2. Post(call, "claim", None, "claiming", agent.active, "off")
    BY <1>4 DEF Poll
  <2> QED BY <1>1, <2>1, <2>2, PostAt
<1>5. CASE Start \/ SaveResult
  <2>1. Freed(call', agent.wait) /\ call[agent.wait].pc = "done"
    BY <1>5 DEF Start, SaveResult, Succeeded, Freed
  <2> QED BY <1>1, <2>1, FreeOK
<1>6. CASE Report \/ PostFail
  <2>1. Works /\ agent.cmd \in Command
      /\ agent.renewal \in Renewal /\ agent.active \in Command \cup {None}
    BY <1>1, <1>6 DEF Report, PostFail, AgentTyped, AgentState, Works, Renewal
  <2>2. PICK calls \in {call} \cup LeftBehind, op \in {"complete", "fail"}, pc \in {"completing", "failing"} :
          Post(calls, op, agent.cmd, pc, agent.active, agent.renewal)
    BY <1>6 DEF Report, PostFail
  <2>3. calls \in Slots
    BY <1>1, LeftOK
  <2>4. \A u \in Slot : calls[u] = call[u] \/ (calls[u] = CallIdle /\ call[u].pc # "clear")
    BY <1>1, LeftAt
  <2>5. op \in {"claim"} \cup Reports /\ agent.cmd \in Command \cup {None}
    BY <2>1 DEF Reports
  <2> QED BY <2>2, <2>3, <2>4, <2>5, PostAt
<1>7. CASE TakeCommand
  <2> DEFINE w == agent.wait
             c == call[w].cmd
             free == [call EXCEPT ![w] = CallIdle]
  <2>1. w \in Slot /\ c \in Command /\ call[w].pc = "done"
    BY <1>1, <1>7 DEF TakeCommand, Succeeded, AwaitsClaim, IInv, CallsTyped, Slots, CallState
  <2>2. Post(free, "complete", c, "acknowledging", agent.active, "off") \/ Post(free, "progress", c, "starting", c, "on")
    BY <1>7 DEF TakeCommand
  <2>3. Freed(free, w)
    BY DEF free, Freed
  <2> HIDE DEF w, c, free
  <2>4. free \in Slots /\ \A u \in Slot : free[u] = IF u = w THEN CallIdle ELSE call[u]
    BY <1>1, <2>3, FreeOK
  <2>5. \A u \in Slot : free[u] = call[u] \/ (free[u] = CallIdle /\ call[u].pc # "clear")
    BY <2>1, <2>4
  <2>6. PICK op \in {"complete", "progress"}, pc \in {"acknowledging", "starting"},
             active \in {agent.active, c}, renewal \in {"off", "on"} :
          Post(free, op, c, pc, active, renewal)
    BY <2>2
  <2>7. op \in {"claim"} \cup Reports /\ c \in Command \cup {None}
    BY <2>1 DEF Reports
  <2> QED BY <2>4, <2>5, <2>6, <2>7, PostAt
<1> QED BY <1>2, <1>3, <1>4, <1>5, <1>6, <1>7
        DEF Work, Heartbeat, RenewLease, RenewalStops, Boot, PollEnds, Finish, Crash, Failed

\* A claim comes to its second UPDATE by its first; a handler leaves the last one by it, or fails.
LEMMA SlotSteps ==
  ASSUME IInv, [Next]_vars, NEW t \in Slot
  PROVE  /\ call'[t].pc = "mark" => call'[t] = call[t] \/ ClaimTakes(t)
         /\ call[t].pc = "clear" =>
              (call'[t].pc = "clear" /\ call'[t].cmd = call[t].cmd) \/ FinishClears(t) \/ StatementFails(t)
<1>1. CallsTyped
  BY TypeParts DEF IInv
<1>2. CASE UNCHANGED call
  BY <1>2
<1>3. CASE Heartbeat \/ Poll \/ Work \/ RenewLease \/ RenewalStops \/ Crash \/ Boot
  BY <1>3, AgentSlots
<1>4. ASSUME NEW s \in Slot, Handle(s) \/ StatementFails(s) \/ ClaimInterrupts(s, FALSE)
      PROVE  /\ call'[t].pc = "mark" => call'[t] = call[t] \/ ClaimTakes(t)
             /\ call[t].pc = "clear" =>
                  (call'[t].pc = "clear" /\ call'[t].cmd = call[t].cmd) \/ FinishClears(t) \/ StatementFails(t)
  <2>1. call[s].cmd \in Command \cup {None}
    BY <1>1 DEF CallsTyped, Slots, CallState
  <2> DEFINE Answers == \E ok \in BOOLEAN, c \in Command \cup {None} : Answered(s, ok, c)
             Advances == \E pc \in {"take", "write", "clear"} : call' = [call EXCEPT ![s].pc = pc]
  <2>2. Answers => call'[t] = call[t] \/ (t = s /\ call'[t].pc \in {"idle", "done"})
    BY <1>1, AnswerAt DEF CallIdle
  <2>3. Advances => call'[t] = call[t] \/ (t = s /\ call'[t].pc \in {"take", "write", "clear"})
    BY <1>1, AdvanceAt
  <2>4. ClaimTakes(s) \/ Answers \/ Advances
    BY <1>4, <2>1 DEF Handle, ClaimInterrupts, ClaimMarks, Progress, FinishReads, FinishWrites,
                      FinishClears, StatementFails, Records
  <2>5. call[s].pc = "clear" => FinishClears(s) \/ StatementFails(s)
    BY <1>4 DEF Handle, ClaimInterrupts, ClaimTakes, ClaimMarks, Progress, FinishReads, FinishWrites
  <2>6. ClaimTakes(s) => call'[t] = call[t] \/ t = s
    <3>1. ASSUME NEW c, call' = [call EXCEPT ![s].pc = "mark", ![s].cmd = c] PROVE t # s => call'[t] = call[t]
      BY <1>1, <3>1 DEF CallsTyped, Slots
    <3>2. CASE Answers
      BY <2>2, <3>2
    <3> QED BY <3>1, <3>2 DEF ClaimTakes
  <2> HIDE DEF Answers, Advances
  <2> QED BY <2>2, <2>3, <2>4, <2>5, <2>6
<1> QED BY <1>2, <1>3, <1>4 DEF Next, vars, Admin, Create, CancelRead, CancelWrite, ViewStatus, Clock, Expire,
                                LeaseAges, HeartbeatAges

\* A fresh lease ages, or ends with its command.
LEMMA LeaseSteps ==
  ASSUME IInv, [Next]_vars, NEW c \in Command, lease[c] = "fresh"
  PROVE  \/ lease'[c] = "fresh"
         \/ \A s \in Slot : call[s].cmd = c => call[s].op # "claim"
         \/ \E s \in Slot : FinishWrites(s) /\ call[s].cmd = c
<1>1. RowsTyped /\ agent.cmd \in Command \cup {None}
  BY TypeParts DEF IInv, AgentTyped, AgentState
<1>2. CASE UNCHANGED lease
  BY <1>2
<1>3. ASSUME NEW d \in Command, LeaseAges(d)
      PROVE  lease'[c] = "fresh" \/ \A s \in Slot : call[s].cmd = c => call[s].op # "claim"
  BY <1>1, <1>3 DEF LeaseAges, RowsTyped
<1>4. ASSUME NEW s \in Slot, ClaimTakes(s) PROVE lease'[c] = "fresh"
  BY <1>1, <1>4 DEF ClaimTakes, RowsTyped
<1>5. ASSUME NEW s \in Slot, Progress(s) PROVE lease'[c] = "fresh"
  BY <1>1, <1>5 DEF Progress, RowsTyped
<1>6. ASSUME NEW s \in Slot, FinishWrites(s) PROVE lease'[c] = "fresh" \/ call[s].cmd = c
  BY <1>1, <1>6 DEF FinishWrites, RowsTyped
<1>7. CASE RenewLease
  BY <1>1, <1>7 DEF RenewLease, RowsTyped
<1>8. \/ UNCHANGED lease \/ RenewLease
      \/ \E d \in Command : LeaseAges(d)
      \/ \E s \in Slot : ClaimTakes(s) \/ Progress(s) \/ FinishWrites(s)
  <2>1. CASE UNCHANGED vars
    BY <2>1 DEF vars, rows
  <2>2. CASE Admin
    BY <2>2 DEF Admin, Create, CancelRead, CancelWrite, ViewStatus, rows
  <2>3. CASE Clock
    BY <2>3 DEF Clock, Expire, HeartbeatAges, rows
  <2>4. ASSUME NEW s \in Slot, Handle(s) \/ StatementFails(s) \/ ClaimInterrupts(s, FALSE)
        PROVE  UNCHANGED lease \/ ClaimTakes(s) \/ Progress(s) \/ FinishWrites(s)
    BY <2>4 DEF Handle, ClaimInterrupts, ClaimMarks, FinishReads, FinishClears, StatementFails, rows
  <2>5. CASE Heartbeat \/ Poll \/ Work \/ RenewLease \/ RenewalStops \/ Crash \/ Boot
    BY <2>5 DEF Heartbeat, Poll, Work, TakeCommand, PollEnds, Start, Report, SaveResult, PostFail,
                Finish, RenewalStops, Crash, Boot, rows
  <2> QED BY <2>1, <2>2, <2>3, <2>4, <2>5 DEF Next
<1> QED BY <1>2, <1>3, <1>4, <1>5, <1>6, <1>7, <1>8

\* Nobody reports on a carried command, so that its status and lease stay.
LEMMA MarksStep ==
  ASSUME IInv, FinalInv, CurrentInv, [Next]_vars
  PROVE  MarksLive'
<1> SUFFICES ASSUME NEW s \in Slot, call'[s].op = "claim", call'[s].pc = "mark"
             PROVE  /\ call'[s].cmd \in Command /\ status'[call'[s].cmd] \in Active
                    /\ lease'[call'[s].cmd] = "fresh"
  BY DEF MarksLive
<1>1. CallsTyped /\ RowsTyped
  BY TypeParts DEF IInv
<1>2. CASE ClaimTakes(s)
  <2>1. CASE Answered(s, TRUE, None)
    <3>1. PICK ok \in BOOLEAN, c \in Command \cup {None} : Answered(s, ok, c)
      BY <2>1
    <3>2. CallsTyped /\ CallIdle.pc = "idle"
      BY <1>1 DEF CallIdle
    <3>3. call'[s] = CallIdle \/ call'[s].pc = "done"
      BY <3>1, <3>2, AnswerAt
    <3> QED BY <3>2, <3>3
  <2>2. ASSUME NEW c \in Claimable, status' = [status EXCEPT ![c] = "claimed"],
               lease' = [lease EXCEPT ![c] = "fresh"], call' = [call EXCEPT ![s].pc = "mark", ![s].cmd = c]
        PROVE  /\ call'[s].cmd \in Command /\ status'[call'[s].cmd] \in Active
               /\ lease'[call'[s].cmd] = "fresh"
    <3>1. c \in Command
      BY DEF Claimable
    <3>2. call'[s].cmd = c
      BY <1>1, <2>2 DEF CallsTyped, Slots, CallState
    <3>3. status'[c] = "claimed" /\ lease'[c] = "fresh"
      BY <1>1, <2>2, <3>1 DEF RowsTyped
    <3> QED BY <3>1, <3>2, <3>3 DEF Active
  <2> QED BY <1>2, <2>1, <2>2 DEF ClaimTakes
<1>3. CASE call'[s] = call[s]
  <2> DEFINE c == call[s].cmd
  <2>1. c \in Command /\ status[c] \in Active /\ lease[c] = "fresh" /\ call[s].op = "claim" /\ c # None
    BY <1>3, CommandAssumption DEF CurrentInv, MarksLive
  <2>2. \A t \in Slot : FinishWrites(t) => call[t].cmd # c
    BY <2>1 DEF FinishWrites, FinalInv, ReportInv, Uncarried, Reports
  <2>3. status'[c] \in Active
    <3>1. \A whole \in BOOLEAN : MarkInterrupted(whole) => c \notin Lapsed
      BY <2>1 DEF Lapsed
    <3> QED BY <2>1, <2>2, <3>1, StatusLeaves
  <2>4. lease'[c] = "fresh"
    BY <2>1, <2>2, LeaseSteps
  <2> QED BY <1>3, <2>1, <2>3, <2>4
<1> QED BY <1>2, <1>3, SlotSteps

\* What is known to be uncleared stays so.
LEMMA UnclearGrows == ASSUME [Next]_vars PROVE unclear \subseteq unclear'
<1>1. CASE UNCHANGED unclear
  BY <1>1
<1>2. ASSUME NEW whole \in BOOLEAN, MarkInterrupted(whole) PROVE unclear \subseteq unclear'
  BY <1>2 DEF MarkInterrupted
<1>3. CASE UNCHANGED vars \/ Admin \/ Clock
  BY <1>2, <1>3 DEF vars, record, Admin, Create, CancelRead, CancelWrite, ViewStatus, Clock, Expire, LeaseAges,
                    HeartbeatAges
<1>4. ASSUME NEW s \in Slot, Handle(s) \/ StatementFails(s) \/ ClaimInterrupts(s, FALSE)
      PROVE  unclear \subseteq unclear'
  BY <1>2, <1>4 DEF record, Handle, ClaimInterrupts, ClaimTakes, ClaimMarks, Progress, FinishReads,
                    FinishWrites, FinishClears, StatementFails
<1>5. CASE Heartbeat \/ Poll \/ Work \/ RenewLease \/ RenewalStops \/ Crash \/ Boot
  BY <1>5 DEF record, Heartbeat, Poll, Work, TakeCommand, PollEnds, Start, Report, SaveResult, PostFail,
              Finish, RenewLease, RenewalStops, Crash, Boot
<1> QED BY <1>3, <1>4, <1>5 DEF Next

\* The command the agent takes for active is the one it executes, or one whose renewal threw.
LEMMA ActiveStep ==
  ASSUME AgentTyped, ActiveKnown, [Next]_vars
  PROVE  ActiveKnown'
<1>1. agent \in AgentState /\ unclear \subseteq unclear'
  BY UnclearGrows DEF AgentTyped
<1>2. CASE agent' = agent
  BY <1>1, <1>2 DEF ActiveKnown, Executes
<1>3. CASE Released = agent'
  BY <1>1, <1>3, RestsOK DEF ActiveKnown, Executes
<1>4. CASE agent' = [AgentIdle EXCEPT !.active = agent.active] /\ agent.pc = "claiming"
  BY <1>1, <1>4, RestsOK DEF ActiveKnown, Executes
<1>5. CASE agent' \in {AgentIdle, [AgentIdle EXCEPT !.pc = "off"]}
  BY <1>5 DEF ActiveKnown, Executes, AgentIdle
<1>6. CASE Poll
  BY <1>1, <1>6 DEF Poll, Post, ActiveKnown, Executes
<1>7. CASE TakeCommand
  BY <1>1, <1>7 DEF TakeCommand, Post, ActiveKnown, Executes
<1>8. CASE Start
  BY <1>1, <1>8 DEF Start, AgentState, ActiveKnown, Executes
<1>9. CASE Report \/ PostFail
  BY <1>1, <1>9 DEF Report, PostFail, Post, ActiveKnown, Executes
<1>10. CASE RenewalStops
  <2>1. PICK how \in {"late", "threw"} :
          /\ agent' = [agent EXCEPT !.renewal = how]
          /\ unclear' = IF how = "threw" THEN unclear \cup {agent.cmd} ELSE unclear
    BY <1>10 DEF RenewalStops
  <2> QED BY <1>1, <1>10, <2>1 DEF RenewalStops, AgentState, ActiveKnown, Executes
<1>11. CASE UNCHANGED vars \/ Admin \/ Clock
  BY <1>2, <1>11 DEF vars, Admin, Create, CancelRead, CancelWrite, ViewStatus, Clock, Expire, LeaseAges,
                     HeartbeatAges
<1>12. CASE \E s \in Slot : Handle(s) \/ StatementFails(s) \/ ClaimInterrupts(s, FALSE)
  BY <1>2, <1>12 DEF Handle, ClaimInterrupts, ClaimTakes, ClaimMarks, Progress, FinishReads, FinishWrites,
                     FinishClears, StatementFails
<1>13. CASE Heartbeat \/ PollEnds \/ SaveResult \/ Finish \/ RenewLease \/ Crash \/ Boot
  BY <1>2, <1>3, <1>4, <1>5, <1>13 DEF Heartbeat, PollEnds, SaveResult, Finish, RenewLease, Crash, Boot
<1> QED BY <1>6, <1>7, <1>8, <1>9, <1>10, <1>11, <1>12, <1>13 DEF Next, Work

\* The current command is set by a claim, and reset by whoever ended it and by a heartbeat.
LEMMA CurrentSteps ==
  ASSUME ActiveKnown, [Next]_vars, current' # current
  PROVE  current' = None \/ current' \in unclear' \/ \E s \in Slot : ClaimMarks(s)
<1>1. ASSUME NEW whole \in BOOLEAN, MarkInterrupted(whole) PROVE current' = None
  BY <1>1 DEF MarkInterrupted
<1>2. ~(UNCHANGED vars) /\ ~Clock
  BY DEF vars, Clock, Expire, LeaseAges, HeartbeatAges
<1>3. CASE Admin
  BY <1>1, <1>3 DEF Admin, Create, CancelRead, CancelWrite, ViewStatus
<1>4. ASSUME NEW s \in Slot, Handle(s) \/ StatementFails(s) \/ ClaimInterrupts(s, FALSE)
      PROVE  current' = None \/ ClaimMarks(s)
  BY <1>1, <1>4 DEF Handle, ClaimInterrupts, ClaimTakes, Progress, FinishReads, FinishWrites, FinishClears,
                    StatementFails
<1>5. CASE Heartbeat
  BY <1>5 DEF Heartbeat, ActiveKnown, Executes, record
<1>6. ~(Poll \/ Work \/ RenewLease \/ RenewalStops \/ Crash \/ Boot)
  BY DEF Poll, Work, TakeCommand, PollEnds, Start, Report, SaveResult, PostFail, Finish, RenewLease,
         RenewalStops, Crash, Boot
<1> QED BY <1>2, <1>3, <1>4, <1>5, <1>6 DEF Next

\* Whoever ends the current command has it cleared, or is about to, or fails to.
LEMMA CurrentStep ==
  ASSUME IInv, FinalInv, CurrentInv, [Next]_vars
  PROVE  CurrentIsLive'
<1>1. CallsTyped /\ RowsTyped /\ RestTyped
  BY TypeParts DEF IInv
<1> SUFFICES ASSUME current' # None
             PROVE  \/ status'[current'] \in Active \/ current' \in unclear'
                    \/ \E s \in Slot : call'[s].pc = "clear" /\ call'[s].cmd = current'
  BY DEF CurrentIsLive
<1>2. CASE current' # current
  <2>3. CASE current' \in unclear'
    BY <2>3
  <2> SUFFICES ASSUME current' \notin unclear' PROVE status'[current'] \in Active
    BY <2>3
  <2>1. PICK s \in Slot : ClaimMarks(s)
    BY <1>2, CurrentSteps DEF CurrentInv
  <2>2. current' = call[s].cmd /\ status' = status /\ status[call[s].cmd] \in Active
    BY <2>1 DEF ClaimMarks, CurrentInv, MarksLive, rows
  <2> QED BY <2>2
<1>3. CASE current' = current
  <2>1. current \in Command /\ current # None
    BY <1>1, <1>3 DEF RestTyped
  <2>2. CASE current \in unclear
    BY <1>3, <2>2, UnclearGrows
  <2>3. ASSUME NEW s \in Slot, call[s].pc = "clear", call[s].cmd = current
        PROVE  (call'[s].pc = "clear" /\ call'[s].cmd = current) \/ current \in unclear'
    <3>1. ~FinishClears(s)
      BY <1>3, <2>1, <2>3 DEF FinishClears
    <3>2. StatementFails(s) => current \in unclear'
      BY <2>3 DEF StatementFails
    <3> QED BY <2>3, <3>1, <3>2, SlotSteps
  <2>4. ASSUME NEW s \in Slot, FinishWrites(s), call[s].cmd = current
        PROVE  call'[s].pc = "clear" /\ call'[s].cmd = current
    <3>1. call' = [call EXCEPT ![s].pc = "clear"]
      BY <2>4 DEF FinishWrites
    <3> QED BY <1>1, <2>4, <3>1, AdvanceAt
  <2>5. ASSUME NEW whole \in BOOLEAN, MarkInterrupted(whole), current \in Lapsed PROVE current \in unclear'
    BY <1>3, <2>1, <2>5 DEF MarkInterrupted
  <2>6. CASE status[current] \in Active
    BY <1>3, <2>1, <2>4, <2>5, <2>6, StatusLeaves
  <2> QED BY <1>3, <2>1, <2>2, <2>3, <2>6 DEF CurrentInv, CurrentIsLive
<1> QED BY <1>2, <1>3

\* The agent's current command is one that has not ended, unless the handler that ended it has
\* still to say so, or failed to (finish, a lapsed lease and a claim each write the commands and
\* the table of agents in two statements), or a renewal of it threw: the agent then goes on
\* naming it in its heartbeats.
THEOREM CurrentStaysLive == Spec => []CurrentIsLive
<1>1. Init => FinalInv /\ CurrentInv
  <2>1. Init => FinalInv
    BY DEF Init, FinalInv, ReportInv, Uncarried, FailsLast, Unsaved, AwaitsReport, HistoryIsFinal,
           CallIdle, AgentIdle, Working
  <2>2. Init => CurrentInv
    BY DEF Init, CurrentInv, MarksLive, ActiveKnown, Executes, CurrentIsLive, CallIdle, AgentIdle
  <2> QED BY <2>1, <2>2
<1>2. IInv /\ FinalInv /\ CurrentInv /\ [Next]_vars => (FinalInv /\ CurrentInv)'
  <2>1. IInv => AgentTyped
    BY TypeParts DEF IInv
  <2> QED BY <2>1, FinalStep, MarksStep, ActiveStep, CurrentStep DEF CurrentInv
<1>3. CurrentInv => CurrentIsLive
  BY DEF CurrentInv
<1> QED BY <1>1, <1>2, <1>3, Invariant, PTL DEF Spec

=============================================================================
