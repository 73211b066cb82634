----------------------------- MODULE SyncCommand -----------------------------
(***************************************************************************)
(* Remote commands: the rows of sync_commands as SyncControlService (the   *)
(* backend) changes them, and the Windows agent of one tenant, whose       *)
(* SyncScheduler polls, executes and reports.                              *)
(*                                                                         *)
(* Every call of the agent is an HTTP request with a timeout of 10 s.  The *)
(* agent gives up on it, the backend does not: the handler goes on, one    *)
(* statement at a time, next to the handler of the agent's next call.      *)
(***************************************************************************)
EXTENDS Naturals, FiniteSets

CONSTANTS
  Command,     \* the ids of sync_commands rows
  Slot,        \* bound: requests of the agent in the backend at a time
  None,        \* no command, no slot
  MaxFaults,   \* bound: timeouts, lost requests, failed statements
  MaxCancels,  \* bound: cancel requests of an administrator
  MaxCrashes   \* bound: crashes of the agent

ASSUME CommandAssumption ==
  /\ None \notin Command /\ None \notin Slot
  /\ MaxFaults \in Nat /\ MaxCancels \in Nat /\ MaxCrashes \in Nat

VARIABLES
  status,   \* sync_commands.status
  lease,    \* sync_commands.lease_until, as the clock sees it
  overdue,  \* the commands whose expires_at has passed
  current,  \* sync_agents.current_command_id
  beat,     \* sync_agents.last_heartbeat_at: whether the agent is shown online
  call,     \* [Slot -> the request, and the statement its handler runs next]
  agent,    \* what the poll of the scheduler is doing
  saved,    \* CommandHistoryStore, a file of the agent
  cancel,   \* what an administrator's cancel request is about to do
  faults, cancels, crashes,
  ran,      \* history: executions begun of each command
  unclear   \* history: commands whose UPDATE of sync_agents failed, or whose renewal threw

rows   == <<status, lease, overdue>>
bounds == <<faults, cancels, crashes>>
record == <<ran, unclear>>
vars == <<rows, current, beat, call, agent, saved, cancel, bounds, record>>

Active   == {"claimed", "running", "cancel_requested"}
Terminal == {"completed", "failed", "cancelled", "interrupted"}
Status   == {"none", "queued"} \cup Active \cup Terminal

CallIdle  == [op |-> "none", cmd |-> None, pc |-> "idle", ok |-> FALSE]
AgentIdle == [pc |-> "idle", cmd |-> None, wait |-> None, active |-> None, renewal |-> "off"]
NoCancel  == [pc |-> "idle", cmd |-> None]

Init ==
  /\ status = [c \in Command |-> "none"]
  /\ lease = [c \in Command |-> "none"]
  /\ overdue = {} /\ current = None /\ beat = "fresh"
  /\ call = [s \in Slot |-> CallIdle]
  /\ agent = AgentIdle /\ saved = {} /\ cancel = NoCancel
  /\ faults = 0 /\ cancels = 0 /\ crashes = 0
  /\ ran = [c \in Command |-> 0]
  /\ unclear = {}

-----------------------------------------------------------------------------
(* Helpers.                                                                *)

Request(op, c) == [op |-> op, cmd |-> c, pc |-> "sent", ok |-> FALSE]

\* The handler of slot s has sent its answer; nobody reads the answer to a request
\* the agent gave up on.
Answered(s, ok, c) ==
  call' = [call EXCEPT ![s] = IF agent.wait = s
                              THEN [@ EXCEPT !.pc = "done", !.ok = ok, !.cmd = c]
                              ELSE CallIdle]

\* The handler's writes are done.  Its INSERT into sync_command_events comes last: when
\* that fails, the request ends with a 500 and the writes stay.
Records(s, c) ==
  \/ Answered(s, TRUE, c) /\ UNCHANGED faults
  \/ Answered(s, FALSE, c) /\ faults < MaxFaults /\ faults' = faults + 1

\* The agent has its answer, and it is a 2xx.
Succeeded == agent.wait # None /\ call[agent.wait].pc = "done" /\ call[agent.wait].ok

\* The requests left behind by an agent that stops waiting: an answered one is over,
\* one on its way gets lost or arrives, a handler that runs goes on.
LeftBehind ==
  LET over == [call EXCEPT ![agent.wait] = CallIdle]
  IN IF agent.wait = None \/ call[agent.wait].pc \notin {"sent", "done"} THEN {call}
     ELSE IF call[agent.wait].pc = "sent" THEN {call, over} ELSE {over}

\* An error answer, or no answer in time (a fault of the bound).
Failed(calls) ==
  /\ calls \in LeftBehind
  /\ IF call[agent.wait].pc = "done" THEN UNCHANGED faults
     ELSE faults < MaxFaults /\ faults' = faults + 1

\* POST op for command c in a free slot of calls; the agent goes on as "pc".
Post(calls, op, c, pc, active, renewal) ==
  \E s \in Slot :
    /\ calls[s].pc = "idle"
    /\ call' = [calls EXCEPT ![s] = Request(op, c)]
    /\ agent' = [pc |-> pc, cmd |-> c, wait |-> s, active |-> active, renewal |-> renewal]

\* The finally block of a command.  It awaits the renewals: one that threw throws again, and the
\* command stays the active one, as it does when the history knew the command.
Released ==
  [AgentIdle EXCEPT !.active = IF agent.pc = "acknowledging" \/ agent.renewal = "threw"
                               THEN agent.active ELSE None]

\* Fault: the lapsed are looked for among the running commands only.
Lapsed_Running == {c \in Command : status[c] = "running" /\ lease[c] = "lapsed"}

\* The commands in the hands of an agent that let the lease run out.
Lapsed == {c \in Command : status[c] \in Active /\ lease[c] = "lapsed"}

\* markInterrupted: one UPDATE, then for every row its event and the agent's
\* current command, unless a statement of that loop fails.
MarkInterrupted(whole) ==
  /\ status' = [c \in Command |-> IF c \in Lapsed THEN "interrupted" ELSE status[c]]
  /\ IF whole
     THEN /\ current' = IF current \in Lapsed THEN None ELSE current
          /\ UNCHANGED <<faults, unclear>>
     ELSE /\ Lapsed # {} /\ faults < MaxFaults /\ faults' = faults + 1
          /\ unclear' = unclear \cup Lapsed
          /\ UNCHANGED current

-----------------------------------------------------------------------------
(* The administrator: create, cancel, status.                              *)

\* create: an INSERT.
Create(c) ==
  /\ status[c] = "none"
  /\ status' = [status EXCEPT ![c] = "queued"]
  /\ UNCHANGED <<lease, overdue, current, beat, call, agent, saved, cancel, bounds, record>>

\* cancel's SELECT: a command the agent already has is refused, because the agent
\* reports safeCancellation false.
CancelRead(c) ==
  /\ cancel.pc = "idle" /\ cancels < MaxCancels
  /\ status[c] \notin {"none", "claimed", "running"}
  /\ cancel' = [pc |-> "write", cmd |-> c]
  /\ cancels' = cancels + 1
  /\ UNCHANGED <<rows, current, beat, call, agent, saved, faults, crashes, record>>

\* Fault: the UPDATE trusts the status the SELECT returned.
CancelWrite_Stale ==
  LET c == cancel.cmd IN
  /\ cancel.pc = "write"
  /\ status' = [status EXCEPT ![c] = "cancelled"]
  /\ cancel' = NoCancel
  /\ UNCHANGED <<lease, overdue, current, beat, call, agent, saved, bounds, ran, unclear>>

\* cancel's UPDATE looks at the status again: the command may be claimed by now.
CancelWrite ==
  LET c == cancel.cmd IN
  /\ cancel.pc = "write"
  /\ \/ /\ status[c] = "queued"
        /\ status' = [status EXCEPT ![c] = "cancelled"]
     \/ /\ status[c] \in {"claimed", "running"}
        /\ status' = [status EXCEPT ![c] = "cancel_requested"]
     \/ /\ status[c] \notin {"queued", "claimed", "running"}
        /\ UNCHANGED status
  /\ cancel' = NoCancel
  /\ UNCHANGED <<lease, overdue, current, beat, call, agent, saved, bounds, ran, unclear>>

\* status and listCommands interrupt the lapsed commands first.
ViewStatus(whole) ==
  /\ Lapsed # {}
  /\ MarkInterrupted(whole)
  /\ UNCHANGED <<lease, overdue, beat, call, agent, saved, cancel, cancels, crashes, ran>>

-----------------------------------------------------------------------------
(* The clock.                                                              *)

\* 24 hours after create: nothing but the claim reads expires_at.
Expire(c) ==
  /\ status[c] = "queued" /\ c \notin overdue
  /\ overdue' = overdue \cup {c}
  /\ UNCHANGED <<status, lease, current, beat, call, agent, saved, cancel, bounds, record>>

\* A lease of 120 s is due for renewal when it is 30 s old, late when less than 45 s
\* are left, then lapsed.  The agent's loop renews what is due; a request of the agent
\* takes at most 10 s, and the second statement of a handler at most 45 s.
LeaseAges(c) ==
  /\ status[c] \in Active
  /\ \A s \in Slot : call[s].cmd = c => call[s].op # "claim"
  /\ \/ /\ lease[c] = "fresh"
        /\ ~(agent.cmd = c /\ agent.pc = "starting")
        /\ lease' = [lease EXCEPT ![c] = "due"]
     \/ /\ lease[c] = "due"
        /\ agent.cmd = c => agent.pc = "running" /\ agent.renewal # "on"
        /\ \A s \in Slot : call[s].cmd = c => call[s].pc # "write"
        /\ lease' = [lease EXCEPT ![c] = "late"]
     \/ /\ lease[c] = "late"
        /\ lease' = [lease EXCEPT ![c] = "lapsed"]
  /\ UNCHANGED <<status, overdue, current, beat, call, agent, saved, cancel, bounds, record>>

\* 90 s without a heartbeat; an idle agent sends one every 30 s.
HeartbeatAges ==
  /\ beat = "fresh" /\ agent.pc \in {"off", "running"}
  /\ beat' = "stale"
  /\ UNCHANGED <<rows, current, call, agent, saved, cancel, bounds, record>>

-----------------------------------------------------------------------------
(* The backend's handlers of the agent's requests.                         *)

\* claim: markInterrupted first.
ClaimInterrupts(s, whole) ==
  /\ call[s].op = "claim" /\ call[s].pc = "sent"
  /\ MarkInterrupted(whole)
  /\ IF whole THEN call' = [call EXCEPT ![s].pc = "take"] ELSE Answered(s, FALSE, None)
  /\ UNCHANGED <<lease, overdue, beat, agent, saved, cancel, cancels, crashes, ran>>

\* Fault: an interrupted command is handed out again.
Claimable_Again == {c \in Command : status[c] \in {"queued", "interrupted"} /\ c \notin overdue}

\* The candidates of the claim's UPDATE.
Claimable == {c \in Command : status[c] = "queued" /\ c \notin overdue}

\* The claim's UPDATE, FOR UPDATE SKIP LOCKED.
ClaimTakes(s) ==
  /\ call[s].op = "claim" /\ call[s].pc = "take"
  /\ \/ /\ Claimable = {}
        /\ Answered(s, TRUE, None)
        /\ UNCHANGED <<status, lease>>
     \/ \E c \in Claimable :
          /\ status' = [status EXCEPT ![c] = "claimed"]
          /\ lease' = [lease EXCEPT ![c] = "fresh"]
          /\ call' = [call EXCEPT ![s].pc = "mark", ![s].cmd = c]
  /\ UNCHANGED <<overdue, current, beat, agent, saved, cancel, bounds, record>>

\* The claim's UPDATE of sync_agents, and its answer.
ClaimMarks(s) ==
  /\ call[s].op = "claim" /\ call[s].pc = "mark"
  /\ current' = call[s].cmd
  /\ Records(s, call[s].cmd)
  /\ UNCHANGED <<rows, beat, agent, saved, cancel, cancels, crashes, record>>

\* progress: one guarded UPDATE, which also withdraws a cancel request.
Progress(s) ==
  LET c == call[s].cmd IN
  /\ call[s].op = "progress" /\ call[s].pc = "sent"
  /\ IF status[c] \in Active
     THEN /\ status' = [status EXCEPT ![c] = "running"]
          /\ lease' = [lease EXCEPT ![c] = "fresh"]
          /\ Records(s, c)
     ELSE UNCHANGED <<status, lease, faults>> /\ Answered(s, FALSE, c)
  /\ UNCHANGED <<overdue, current, beat, agent, saved, cancel, cancels, crashes, record>>

\* The status a report asks for.
Verdict(op) == IF op = "complete" THEN "completed" ELSE "failed"

\* finish's SELECT: a repeated report is acknowledged, another one is refused once
\* the command has ended.
FinishReads(s) ==
  LET c == call[s].cmd IN
  /\ call[s].op \in {"complete", "fail"} /\ call[s].pc = "sent"
  /\ \/ status[c] = Verdict(call[s].op) /\ Answered(s, TRUE, c)
     \/ status[c] \in Terminal \ {Verdict(call[s].op)} /\ Answered(s, FALSE, c)
     \/ status[c] \notin Terminal /\ call' = [call EXCEPT ![s].pc = "write"]
  /\ UNCHANGED <<rows, current, beat, agent, saved, cancel, bounds, record>>

\* finish's UPDATE has no condition on the status.
FinishWrites(s) ==
  LET c == call[s].cmd IN
  /\ call[s].op \in {"complete", "fail"} /\ call[s].pc = "write"
  /\ status' = [status EXCEPT ![c] = Verdict(call[s].op)]
  /\ lease' = [lease EXCEPT ![c] = "none"]
  /\ call' = [call EXCEPT ![s].pc = "clear"]
  /\ UNCHANGED <<overdue, current, beat, agent, saved, cancel, bounds, ran, unclear>>

\* Fault: the agent's current command is left as it is.
FinishClears_Not(s) ==
  /\ call[s].op \in {"complete", "fail"} /\ call[s].pc = "clear"
  /\ Records(s, call[s].cmd)
  /\ UNCHANGED <<rows, current, beat, agent, saved, cancel, cancels, crashes, record>>

\* finish's UPDATE of sync_agents, and its answer.
FinishClears(s) ==
  /\ call[s].op \in {"complete", "fail"} /\ call[s].pc = "clear"
  /\ current' = IF current = call[s].cmd THEN None ELSE current
  /\ Records(s, call[s].cmd)
  /\ UNCHANGED <<rows, beat, agent, saved, cancel, cancels, crashes, record>>

\* A statement of a handler fails: the request ends with a 500.
StatementFails(s) ==
  /\ call[s].pc \notin {"idle", "done"} /\ faults < MaxFaults
  /\ faults' = faults + 1
  /\ Answered(s, FALSE, call[s].cmd)
  /\ unclear' = IF call[s].pc = "clear" THEN unclear \cup {call[s].cmd} ELSE unclear
  /\ UNCHANGED <<rows, current, beat, agent, saved, cancel, cancels, crashes, ran>>

-----------------------------------------------------------------------------
(* The agent: PollForTriggersAsync and ExecuteControlCommandAsync.         *)

\* SendControlHeartbeatAsync, at the start of a poll: it names the command that is still active.
Heartbeat ==
  /\ agent.pc = "idle"
  /\ current' = agent.active /\ beat' = "fresh"
  /\ UNCHANGED <<rows, call, agent, saved, cancel, bounds, record>>

\* ClaimCommandAsync.
Poll ==
  /\ agent.pc = "idle"
  /\ Post(call, "claim", None, "claiming", agent.active, "off")
  /\ UNCHANGED <<rows, current, beat, saved, cancel, bounds, record>>

\* A command arrived.  One the history file knows is only acknowledged; for another
\* the lease loop is started and progress 0 is posted.
TakeCommand ==
  LET s == agent.wait
      c == call[s].cmd
      free == [call EXCEPT ![s] = CallIdle]
  IN
  /\ agent.pc = "claiming" /\ Succeeded /\ c # None
  /\ IF c \in saved
     THEN Post(free, "complete", c, "acknowledging", agent.active, "off")
     ELSE Post(free, "progress", c, "starting", c, "on")
  /\ UNCHANGED <<rows, current, beat, saved, cancel, bounds, record>>

\* No command, an error or a timeout: the poll ends.
PollEnds ==
  /\ agent.pc = "claiming"
  /\ ~(Succeeded /\ call[agent.wait].cmd # None)
  /\ Failed(call')
  /\ agent' = [AgentIdle EXCEPT !.active = agent.active]
  /\ UNCHANGED <<rows, current, beat, saved, cancel, cancels, crashes, record>>

\* Progress 0 was accepted: the command is executed.
Start ==
  /\ agent.pc = "starting" /\ Succeeded
  /\ ran' = [ran EXCEPT ![agent.cmd] = @ + 1]
  /\ call' = [call EXCEPT ![agent.wait] = CallIdle]
  /\ agent' = [agent EXCEPT !.pc = "running", !.wait = None]
  /\ UNCHANGED <<rows, current, beat, saved, cancel, bounds, unclear>>

\* Fault: the history is written before the report is acknowledged.
Report_SavesFirst ==
  /\ agent.pc = "running"
  /\ \/ /\ Post(call, "complete", agent.cmd, "completing", agent.active, agent.renewal)
        /\ saved' = saved \cup {agent.cmd}
     \/ /\ Post(call, "fail", agent.cmd, "failing", agent.active, agent.renewal)
        /\ UNCHANGED saved
  /\ UNCHANGED <<rows, current, beat, cancel, bounds, record>>

\* The execution ends: complete is posted, or fail when it threw.
Report ==
  /\ agent.pc = "running"
  /\ \/ Post(call, "complete", agent.cmd, "completing", agent.active, agent.renewal)
     \/ Post(call, "fail", agent.cmd, "failing", agent.active, agent.renewal)
  /\ UNCHANGED <<rows, current, beat, saved, cancel, bounds, record>>

\* complete was acknowledged: CommandHistoryStore.Save, and the finally block.
SaveResult ==
  /\ agent.pc = "completing" /\ Succeeded
  /\ saved' = saved \cup {agent.cmd}
  /\ call' = [call EXCEPT ![agent.wait] = CallIdle]
  /\ agent' = Released
  /\ UNCHANGED <<rows, current, beat, cancel, bounds, record>>

\* The catch block: progress or complete was refused or timed out, or Save threw.
PostFail ==
  /\ agent.pc \in {"starting", "completing"}
  /\ agent.pc = "starting" => ~Succeeded
  /\ \E calls \in LeftBehind :
       /\ Failed(calls)
       /\ Post(calls, "fail", agent.cmd, "failing", agent.active, agent.renewal)
  /\ UNCHANGED <<rows, current, beat, saved, cancel, cancels, crashes, record>>

\* Fault: a poll whose last report is not answered leaves _pollingTriggers set.
Finish_Answered ==
  /\ agent.pc \in {"failing", "acknowledging"} /\ Succeeded
  /\ call' = [call EXCEPT ![agent.wait] = CallIdle] /\ agent' = Released
  /\ UNCHANGED <<rows, current, beat, saved, cancel, bounds, record>>

\* The last request of a command was answered, or not: the finally block.
Finish ==
  /\ agent.pc \in {"failing", "acknowledging"}
  /\ Failed(call')
  /\ agent' = Released
  /\ UNCHANGED <<rows, current, beat, saved, cancel, cancels, crashes, record>>

\* RenewCommandLeaseAsync, every 30 s.
RenewLease ==
  LET c == agent.cmd IN
  /\ agent.renewal = "on" /\ status[c] \in Active /\ lease[c] = "due"
  /\ lease' = [lease EXCEPT ![c] = "fresh"]
  /\ UNCHANGED <<status, overdue, current, beat, call, agent, saved, cancel, bounds, record>>

\* The first renewal that is not answered in time or throws (404 on a command that ended, an
\* error) ends the loop, and the command goes on without it.
RenewalStops ==
  /\ agent.renewal = "on"
  /\ \E how \in {"late", "threw"} :
       /\ IF how = "threw" /\ status[agent.cmd] \notin Active THEN UNCHANGED faults
          ELSE faults < MaxFaults /\ faults' = faults + 1
       /\ agent' = [agent EXCEPT !.renewal = how]
       /\ unclear' = IF how = "threw" THEN unclear \cup {agent.cmd} ELSE unclear
  /\ UNCHANGED <<rows, current, beat, call, saved, cancel, cancels, crashes, ran>>

\* The process ends; requests on their way get lost or arrive.
Crash ==
  /\ agent.pc # "off" /\ crashes < MaxCrashes
  /\ crashes' = crashes + 1
  /\ call' \in LeftBehind
  /\ agent' = [AgentIdle EXCEPT !.pc = "off"]
  /\ UNCHANGED <<rows, current, beat, saved, cancel, faults, cancels, record>>

Boot ==
  /\ agent.pc = "off"
  /\ agent' = AgentIdle
  /\ UNCHANGED <<rows, current, beat, call, saved, cancel, bounds, record>>

-----------------------------------------------------------------------------

Admin == \/ \E c \in Command : Create(c) \/ CancelRead(c)
         \/ CancelWrite
         \/ \E whole \in BOOLEAN : ViewStatus(whole)

Clock == (\E c \in Command : Expire(c) \/ LeaseAges(c)) \/ HeartbeatAges

Handle(s) == \/ ClaimInterrupts(s, TRUE) \/ ClaimTakes(s) \/ ClaimMarks(s) \/ Progress(s)
             \/ FinishReads(s) \/ FinishWrites(s) \/ FinishClears(s)

\* The agent's poll, once it runs.
Work == TakeCommand \/ PollEnds \/ Start \/ Report \/ SaveResult \/ PostFail \/ Finish

Next ==
  \/ Admin \/ Clock
  \/ \E s \in Slot : Handle(s) \/ StatementFails(s) \/ ClaimInterrupts(s, FALSE)
  \/ Heartbeat \/ Poll \/ Work \/ RenewLease \/ RenewalStops \/ Crash \/ Boot

Spec == Init /\ [][Next]_vars

\* The backend answers, time passes, and the agent is started again and polls; not all of its
\* heartbeats, one before each poll, are lost.
FairSpec ==
  /\ Spec
  /\ \A s \in Slot : WF_vars(Handle(s))
  /\ \A c \in Command : WF_vars(LeaseAges(c))
  /\ WF_vars(Work) /\ WF_vars(Poll) /\ WF_vars(Boot) /\ SF_vars(Heartbeat)

-----------------------------------------------------------------------------
(* Properties.                                                             *)

CallState  == [op : {"none", "claim", "progress", "complete", "fail"},
               cmd : Command \cup {None},
               pc : {"idle", "sent", "take", "mark", "write", "clear", "done"}, ok : BOOLEAN]
AgentState == [pc : {"off", "idle", "claiming", "starting", "running", "completing", "failing",
                     "acknowledging"},
               cmd : Command \cup {None}, wait : Slot \cup {None}, active : Command \cup {None},
               renewal : {"off", "on", "late", "threw"}]

\* The agent has a command in its hands.
Works == agent.pc \in {"starting", "running", "completing", "failing", "acknowledging"}

\* Every variable holds a value of its kind, and requests about a command name one.
TypeOK ==
  /\ status \in [Command -> Status]
  /\ lease \in [Command -> {"none", "fresh", "due", "late", "lapsed"}]
  /\ overdue \in SUBSET Command /\ current \in Command \cup {None}
  /\ beat \in {"fresh", "stale"}
  /\ call \in [Slot -> CallState]
  /\ \A s \in Slot :
       call[s].op \in {"progress", "complete", "fail"} \/ call[s].pc = "clear" =>
         call[s].cmd \in Command
  /\ agent \in AgentState
  /\ Works \/ agent.renewal = "on" => agent.cmd \in Command
  /\ saved \in SUBSET Command
  /\ cancel \in [pc : {"idle", "write"}, cmd : Command \cup {None}]
  /\ faults \in Nat /\ cancels \in Nat /\ crashes \in Nat
  /\ ran \in [Command -> Nat] /\ unclear \in SUBSET Command

\* The backend and the agent together keep the promise of CommandOnce, whatever is
\* lost, late, repeated or restarted.
Phase(c) == IF status[c] = "none" THEN "absent"
            ELSE IF status[c] = "queued" THEN "open"
            ELSE IF status[c] = "cancelled" THEN "withdrawn"
            ELSE IF status[c] \in Active THEN "taken" ELSE "closed"
Promise == INSTANCE CommandOnce WITH phase <- [c \in Command |-> Phase(c)]
KeepsPromise == Promise!Spec

\* A command is executed at most once, although nothing but the claim protects it:
\* the history file never knows a command that is handed out.
Unstarted(c) == ran[c] = 0 /\ c \notin saved
ExecutedOnce ==
  /\ \A c \in Command : ran[c] <= 1
  /\ \A c \in Command : status[c] \in {"none", "queued", "cancelled"} => Unstarted(c)
  /\ \A s \in Slot : call[s].op = "claim" /\ call[s].cmd # None => Unstarted(call[s].cmd)

\* The strengthening this needs: whatever has to do with a command has it from a claim,
\* which at most one request carries to the agent, and none once the agent has it.
HandedOut(c) == status[c] \in Active \cup {"completed", "failed", "interrupted"}
Carries(s, c) == call[s].op = "claim" /\ call[s].cmd = c

OnlyHandedOut ==
  /\ \A s \in Slot : call[s].cmd # None => HandedOut(call[s].cmd)
  /\ Works => HandedOut(agent.cmd)
OneCarrier ==
  \A s \in Slot : call[s].cmd # None /\ call[s].op = "claim" =>
    /\ Works => agent.cmd # call[s].cmd
    /\ \A t \in Slot : Carries(t, call[s].cmd) => t = s
AwaitsClaim ==
  agent.pc = "claiming" =>
    agent.wait \in Slot /\ call[agent.wait].op = "claim" /\ call[agent.wait].pc # "idle"
NotStarted == agent.pc = "starting" => ran[agent.cmd] = 0
CancelNames == cancel.pc = "write" => cancel.cmd \in Command

\* Inductive; what the proofs carry from state to state.
IInv == /\ TypeOK /\ ExecutedOnce /\ OnlyHandedOut /\ OneCarrier /\ AwaitsClaim
        /\ NotStarted /\ CancelNames

\* What the file of the agent calls completed, the database calls completed.
HistoryIsFinal == \A c \in saved : status[c] = "completed"

\* The agent's current command, which the heartbeats also write, is one that has not ended, unless
\* the handler that ended it has still to say so or failed to, or a renewal of it threw: the agent
\* then takes it for active until it executes another one or is started again.
CurrentIsLive ==
  current # None =>
    \/ status[current] \in Active \/ current \in unclear
    \/ \E s \in Slot : call[s].pc = "clear" /\ call[s].cmd = current

\* The agent's verdict is never replaced by the administrator's or by the lease's,
\* and a cancelled command stays cancelled.
VerdictKept ==
  [][\A c \in Command :
       /\ status[c] \in {"completed", "failed"} => status'[c] \in {"completed", "failed"}
       /\ status[c] = "cancelled" => status'[c] = "cancelled"]_vars

\* A command the agent was given comes to an end, even when the agent never learns
\* of it or dies with it.
ClaimedEnds == \A c \in Command : (status[c] \in Active) ~> (status[c] \in Terminal)

\* An agent that is shown offline, because it executed a command for long or was away, is shown
\* online again (docs/sync-agent-protocol.md: it "posts a heartbeat every 30 seconds").
BackOnline == (beat = "stale") ~> (beat = "fresh")

=============================================================================
