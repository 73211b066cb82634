----------------------------- MODULE SyncTrigger -----------------------------
(***************************************************************************)
(* Sync triggers: rows of sync_triggers that the dashboard creates and     *)
(* cancels (AdminService), that the agents of the tenant poll, claim and   *)
(* report on (IngestController), and the module timers the agent runs next *)
(* to its trigger poll (SyncScheduler).  The backend changes a reported or *)
(* cancelled row in two steps, a read and a save of what was read.         *)
(***************************************************************************)
EXTENDS Integers, FiniteSets, Sequences

CONSTANTS
  MaxTriggers,   \* bound: rows of sync_triggers, numbered as they were created
  Module,        \* what is synchronized
  Diagnosed,     \* the modules whose run starts with diagnostics of the source: inventory
  Agent,         \* the installations of one tenant
  None,
  PollLimit,     \* triggers an answer to a poll holds
  MaxTroubles,   \* bound: cancels, ends of the six hours, lost and slow calls, crashes of an agent
  Timed,         \* bound: the timers that fire, <<agent, module>>
  MaxTimerRuns   \* bound: runs they start

ASSUME TriggerAssumption ==
  /\ Module # {} /\ Diagnosed \subseteq Module /\ Timed \subseteq Agent \X Module /\ None \notin Agent
  /\ MaxTriggers \in Nat /\ PollLimit \in Nat \ {0}
  /\ MaxTroubles \in Nat /\ MaxTimerRuns \in Nat

Trigger == 1 .. MaxTriggers
Active  == {"pending", "picked", "running"}
Ended   == {"completed", "cancelled", "expired"}
Steps   == {"idle", "claim", "start", "starting", "trigger", "preparing", "running", "report", "reporting"}
Timers  == {"off", "preparing", "running", "closing"}

VARIABLES
  row,         \* sync_triggers: [Trigger -> module and status]
  due,         \* the triggers whose six hours are over
  writes,      \* saves of the backend under way: [trigger, status, agent]
  agent,       \* [Agent -> pc, list] of the trigger poll; the head of the list is being worked on
  timer,       \* [Agent -> [Module -> what the timer's callback does]]
  cts,         \* [Agent -> [Module -> CurrentCts is set]]
  isRunning,   \* [Agent -> [Module -> SyncModuleStatus.IsRunning]]
  timerRuns, troublesLeft,
  begun,       \* history: [Trigger -> how often a synchronization was begun for it, 2 for more]
  contested,   \* history: the triggers an agent was given that were not pending any more
  orphaned     \* history: the triggers of which a claim or a report went astray

agentVars == <<agent, timer, cts, isRunning, timerRuns>>
triggerVars == <<row, due, writes, agentVars, troublesLeft, begun, contested, orphaned>>

Status(t) == row[t].status
Idle == [pc |-> "idle", list |-> <<>>]

Init ==
  /\ row = [t \in Trigger |-> [module |-> CHOOSE m \in Module : TRUE, status |-> "none"]]
  /\ due = {} /\ writes = {}
  /\ agent = [a \in Agent |-> Idle]
  /\ timer = [a \in Agent |-> [m \in Module |-> "off"]]
  /\ cts = [a \in Agent |-> [m \in Module |-> FALSE]]
  /\ isRunning = [a \in Agent |-> [m \in Module |-> FALSE]]
  /\ timerRuns = 0 /\ troublesLeft = MaxTroubles
  /\ begun = [t \in Trigger |-> 0] /\ contested = {} /\ orphaned = {}

Trouble == troublesLeft > 0 /\ troublesLeft' = troublesLeft - 1

-----------------------------------------------------------------------------
(* The backend.                                                            *)

\* An active trigger of the module: the unique index allows one.
Taken(m) == \E t \in Trigger : row[t].module = m /\ Status(t) \in Active

\* createSyncTrigger: what it finds active is skipped; an insert that comes too late is refused.
Create(t, m) ==
  /\ Status(t) = "none" /\ \A u \in 1 .. t - 1 : Status(u) # "none"
  /\ ~Taken(m)
  /\ row' = [row EXCEPT ![t] = [module |-> m, status |-> "pending"]]
  /\ UNCHANGED <<due, writes, agentVars, troublesLeft, begun, contested, orphaned>>

BecomesDue(t) ==
  /\ Status(t) = "pending" /\ t \notin due /\ Trouble
  /\ due' = due \cup {t}
  /\ UNCHANGED <<row, writes, agentVars, begun, contested, orphaned>>

\* cancelSyncTrigger, up to its save.
Cancel(t) ==
  /\ Status(t) \in {"pending", "picked"} /\ Trouble
  /\ writes' = writes \cup {[trigger |-> t, status |-> "cancelled", agent |-> None]}
  /\ UNCHANGED <<row, due, agentVars, begun, contested, orphaned>>

\* Fault: no unique index.
Save_Unchecked(w) ==
  /\ w \in writes /\ writes' = writes \ {w}
  /\ row' = [row EXCEPT ![w.trigger].status = w.status]
  /\ UNCHANGED <<due, agentVars, troublesLeft, begun, contested, orphaned>>

\* The save of a row that was read earlier, unless the unique index refuses it.
Save(w) ==
  /\ w \in writes /\ writes' = writes \ {w}
  /\ IF w.status \in Active /\ Status(w.trigger) \notin Active /\ Taken(row[w.trigger].module)
     THEN UNCHANGED row
     ELSE row' = [row EXCEPT ![w.trigger].status = w.status]
  /\ UNCHANGED <<due, agentVars, troublesLeft, begun, contested, orphaned>>

-----------------------------------------------------------------------------
(* The trigger poll of an agent.                                           *)

At(a, pc) == agent[a].pc = pc
Work(a) == Head(agent[a].list)
Mod(a) == row[Work(a)].module
Goto(a, pc) == agent' = [agent EXCEPT ![a].pc = pc]

\* The next trigger of the answer.
NextOf(a) ==
  agent' = [agent EXCEPT ![a] = IF Len(@.list) > 1 THEN [pc |-> "claim", list |-> Tail(@.list)] ELSE Idle]

\* The set as a list, in the order of created_at.
Listed(S) == {s \in [1 .. Cardinality(S) -> S] : \A i, j \in DOMAIN s : i < j => s[i] < s[j]}

\* Fault: triggers that are over stay.
PollTriggers_KeepDue(a) ==
  LET pending == {t \in Trigger : Status(t) = "pending"}
      first == {t \in pending : Cardinality({u \in pending : u < t}) < PollLimit}
  IN /\ At(a, "idle") /\ pending # {}
     /\ \E list \in Listed(first) : agent' = [agent EXCEPT ![a] = [pc |-> "claim", list |-> list]]
     /\ UNCHANGED <<row, due, writes, timer, cts, isRunning, timerRuns, troublesLeft, begun, contested, orphaned>>

\* What is over is expired; the answer lists the first of what is pending.
PollTriggers(a) ==
  LET over == {t \in due : Status(t) = "pending"}
      pending == {t \in Trigger \ over : Status(t) = "pending"}
      first == {t \in pending : Cardinality({u \in pending : u < t}) < PollLimit}
  IN /\ At(a, "idle") /\ over \cup pending # {}
     /\ row' = [t \in Trigger |-> IF t \in over THEN [row[t] EXCEPT !.status = "expired"] ELSE row[t]]
     /\ \E list \in Listed(first) :
          agent' = [agent EXCEPT ![a] = IF first = {} THEN Idle ELSE [pc |-> "claim", list |-> list]]
     /\ UNCHANGED <<due, writes, timer, cts, isRunning, timerRuns, troublesLeft, begun, contested, orphaned>>

\* Fault: the claim leaves the row as it is.
Claimed_Keep(t) == row

\* claimEngineTrigger's UPDATE.
Claimed(t) ==
  IF Status(t) = "pending" /\ t \notin due THEN [row EXCEPT ![t].status = "picked"] ELSE row

\* The answer is "claimed" either way: rows[0] of TypeORM's [rows, count] answer is always there.
Claim(a) ==
  /\ At(a, "claim")
  /\ row' = Claimed(Work(a))
  /\ contested' = IF Status(Work(a)) = "pending" /\ Work(a) \notin due THEN contested
                  ELSE contested \cup {Work(a)}
  /\ Goto(a, "start")
  /\ UNCHANGED <<due, writes, timer, cts, isRunning, timerRuns, troublesLeft, begun, orphaned>>

\* The call is lost, or its answer.
ClaimLost(a) ==
  /\ At(a, "claim") /\ Trouble
  /\ \/ UNCHANGED <<row, orphaned>>
     \/ row' = Claimed(Work(a)) /\ orphaned' = orphaned \cup {Work(a)}
  /\ NextOf(a)
  /\ UNCHANGED <<due, writes, timer, cts, isRunning, timerRuns, begun, contested>>

\* updateEngineTrigger, up to its save; a report on a row that is not picked or running is
\* refused, which the agent does not look at.
Report(a, from, s, to) ==
  /\ At(a, from)
  /\ writes' = IF Status(Work(a)) \in {"picked", "running"}
               THEN writes \cup {[trigger |-> Work(a), status |-> s, agent |-> a]} ELSE writes
  /\ Goto(a, to)
  /\ UNCHANGED <<row, due, timer, cts, isRunning, timerRuns, troublesLeft, begun, contested, orphaned>>

\* The call is lost, which the agent does not look at either.
ReportLost(a) ==
  /\ \/ At(a, "start") /\ Goto(a, "trigger")
     \/ At(a, "report") /\ NextOf(a)
  /\ Trouble /\ orphaned' = orphaned \cup {Work(a)}
  /\ UNCHANGED <<row, due, writes, timer, cts, isRunning, timerRuns, begun, contested>>

Mine(a) == {w \in writes : w.agent = a}

\* The answer to a report, or ten seconds without one: the save is still under way then.
Answered(a) ==
  /\ IF Mine(a) = {} THEN UNCHANGED <<troublesLeft, writes, orphaned>>
     ELSE /\ Trouble /\ orphaned' = orphaned \cup {Work(a)}
          /\ writes' = {IF w.agent = a THEN [w EXCEPT !.agent = None] ELSE w : w \in writes}
  /\ \/ At(a, "starting") /\ Goto(a, "trigger")
     \/ At(a, "reporting") /\ NextOf(a)
  /\ UNCHANGED <<row, due, timer, cts, isRunning, timerRuns, begun, contested>>

\* Fault: TriggerNowAsync asks whether the module is running.
Busy_Flag(a, m) == isRunning[a][m]

\* TriggerNowAsync returns at once when a run of the module has set its CurrentCts.
Busy(a, m) == cts[a][m]

Skip(a) ==
  /\ At(a, "trigger") /\ Busy(a, Mod(a))
  /\ Goto(a, "report")
  /\ UNCHANGED <<row, due, writes, timer, cts, isRunning, timerRuns, troublesLeft, begun, contested, orphaned>>

TriggerNow(a) ==
  /\ At(a, "trigger") /\ ~Busy(a, Mod(a))
  /\ cts' = [cts EXCEPT ![a][Mod(a)] = TRUE]
  /\ begun' = [begun EXCEPT ![Work(a)] = IF @ = 2 THEN 2 ELSE @ + 1]
  /\ IF Mod(a) \in Diagnosed
     THEN Goto(a, "preparing") /\ UNCHANGED isRunning
     ELSE Goto(a, "running") /\ isRunning' = [isRunning EXCEPT ![a][Mod(a)] = TRUE]
  /\ UNCHANGED <<row, due, writes, timer, timerRuns, troublesLeft, contested, orphaned>>

SyncBegins(a) ==
  /\ At(a, "preparing")
  /\ Goto(a, "running") /\ isRunning' = [isRunning EXCEPT ![a][Mod(a)] = TRUE]
  /\ UNCHANGED <<row, due, writes, timer, cts, timerRuns, troublesLeft, begun, contested, orphaned>>

\* Errors of the run stay inside it: the trigger is reported completed whatever came of it.
SyncEnds(a) ==
  /\ At(a, "running")
  /\ isRunning' = [isRunning EXCEPT ![a][Mod(a)] = FALSE]
  /\ cts' = [cts EXCEPT ![a][Mod(a)] = FALSE]
  /\ Goto(a, "report")
  /\ UNCHANGED <<row, due, writes, timer, timerRuns, troublesLeft, begun, contested, orphaned>>

-----------------------------------------------------------------------------
(* The timers of an agent, and its end.                                    *)

TimerTo(a, m, pc) == timer' = [timer EXCEPT ![a][m] = pc]

\* The timer asks IsRunning; it announces its run, looks at the source, and synchronizes.
TimerFires(a, m) ==
  /\ <<a, m>> \in Timed /\ timer[a][m] = "off" /\ ~isRunning[a][m]
  /\ timerRuns < MaxTimerRuns /\ timerRuns' = timerRuns + 1
  /\ cts' = [cts EXCEPT ![a][m] = TRUE] /\ TimerTo(a, m, "preparing")
  /\ UNCHANGED <<row, due, writes, agent, isRunning, troublesLeft, begun, contested, orphaned>>

TimerSyncs(a, m) ==
  /\ timer[a][m] = "preparing"
  /\ TimerTo(a, m, "running") /\ isRunning' = [isRunning EXCEPT ![a][m] = TRUE]
  /\ UNCHANGED <<row, due, writes, agent, cts, timerRuns, troublesLeft, begun, contested, orphaned>>

TimerDone(a, m) ==
  /\ timer[a][m] = "running"
  /\ TimerTo(a, m, "closing") /\ isRunning' = [isRunning EXCEPT ![a][m] = FALSE]
  /\ UNCHANGED <<row, due, writes, agent, cts, timerRuns, troublesLeft, begun, contested, orphaned>>

\* The process ends; the calls it has under way go on.
Dies(a) ==
  /\ agent' = [agent EXCEPT ![a] = Idle]
  /\ timer' = [timer EXCEPT ![a] = [m \in Module |-> "off"]]
  /\ cts' = [cts EXCEPT ![a] = [m \in Module |-> FALSE]]
  /\ isRunning' = [isRunning EXCEPT ![a] = [m \in Module |-> FALSE]]
  /\ writes' = {IF w.agent = a THEN [w EXCEPT !.agent = None] ELSE w : w \in writes}
  /\ orphaned' = IF agent[a].list = <<>> THEN orphaned ELSE orphaned \cup {Work(a)}

\* The timer disposes of CurrentCts; one that is gone ends the process, for nobody catches
\* what a timer's callback throws.
TimerCloses(a, m) ==
  /\ timer[a][m] = "closing"
  /\ IF cts[a][m]
     THEN /\ cts' = [cts EXCEPT ![a][m] = FALSE] /\ TimerTo(a, m, "off")
          /\ UNCHANGED <<agent, isRunning, writes, orphaned>>
     ELSE Dies(a)
  /\ UNCHANGED <<row, due, timerRuns, troublesLeft, begun, contested>>

Crash(a) ==
  /\ Trouble /\ Dies(a)
  /\ UNCHANGED <<row, due, timerRuns, begun, contested>>

-----------------------------------------------------------------------------
AgentStep(a) ==
  \/ PollTriggers(a) \/ Claim(a) \/ Report(a, "start", "running", "starting")
  \/ Report(a, "report", "completed", "reporting") \/ Answered(a)
  \/ Skip(a) \/ TriggerNow(a) \/ SyncBegins(a) \/ SyncEnds(a)

Next ==
  \/ \E t \in Trigger : (\E m \in Module : Create(t, m)) \/ BecomesDue(t) \/ Cancel(t)
  \/ \E w \in writes : Save(w)
  \/ \E a \in Agent :
       AgentStep(a) \/ ClaimLost(a) \/ ReportLost(a) \/ Crash(a)
  \/ \E a \in Agent, m \in Module :
       \/ TimerFires(a, m) \/ TimerSyncs(a, m) \/ TimerDone(a, m) \/ TimerCloses(a, m)

Spec == Init /\ [][Next]_triggerVars

\* The trigger poll goes on every ten seconds, a run ends, the backend answers.
FairSpec ==
  /\ Spec
  /\ WF_triggerVars(\E w \in writes : Save(w))
  /\ \A a \in Agent : WF_triggerVars(AgentStep(a))

-----------------------------------------------------------------------------
(* Properties.                                                             *)

\* Types; of a module one trigger is active, whatever late save comes after its cancel.
TypeOK ==
  /\ row \in [Trigger -> [module : Module, status : Active \cup Ended \cup {"none"}]]
  /\ \A t, u \in Trigger :
       t # u /\ {Status(t), Status(u)} \subseteq Active => row[t].module # row[u].module
  /\ due \subseteq Trigger
  /\ writes \subseteq
       [trigger : Trigger, status : {"running", "completed", "cancelled"}, agent : Agent \cup {None}]
  /\ agent \in [Agent -> [pc : Steps, list : Seq(Trigger)]]
  /\ \A a \in Agent : agent[a].list = <<>> <=> At(a, "idle")
  /\ timer \in [Agent -> [Module -> Timers]]
  /\ cts \in [Agent -> [Module -> BOOLEAN]] /\ isRunning \in [Agent -> [Module -> BOOLEAN]]
  /\ timerRuns \in Nat /\ troublesLeft \in Nat
  /\ begun \in [Trigger -> 0 .. 2] /\ contested \subseteq Trigger /\ orphaned \subseteq Trigger

\* A trigger is worked off once at most, unless the claim was answered "claimed" to an agent whose
\* list was old: the row had been taken, cancelled or expired meanwhile.
WorkedOnce == \A t \in Trigger : begun[t] <= 1 \/ t \in contested

\* An agent runs one synchronization of a module at a time; not so one that begins with
\* diagnostics: the timer looks at IsRunning, which the diagnostics do not set yet.
OneRunPerModule ==
  \A a \in Agent, m \in Module \ Diagnosed :
    ~(timer[a][m] = "running" /\ At(a, "running") /\ Mod(a) = m)

\* Every trigger comes to an end and makes room for the next one of its module, unless a claim or
\* a report of it went astray: nobody looks after it then.
TriggerEnds ==
  \A t \in Trigger : []<>(Status(t) \notin Active \/ t \in orphaned)

\* "Sync engine atomically claims a pending trigger" (ingest.controller.ts:192): nobody works on a
\* trigger that was not his.
ClaimIsExclusive == contested = {}

=============================================================================
