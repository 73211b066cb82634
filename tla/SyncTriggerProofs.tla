--------------------------- MODULE SyncTriggerProofs ---------------------------
(***************************************************************************)
(* Proofs about SyncTrigger, for any triggers, modules and agents.         *)
(***************************************************************************)
EXTENDS SyncTrigger, FiniteSetTheorems, SequenceTheorems, TLAPS

-----------------------------------------------------------------------------
(* The types in parts.                                                     *)

RowState   == [module : Module, status : Active \cup Ended \cup {"none"}]
Write      == [trigger : Trigger, status : {"running", "completed", "cancelled"}, agent : Agent \cup {None}]
AgentState == {x \in [pc : Steps, list : Seq(Trigger)] : x.list = <<>> <=> x.pc = "idle"}

OneActive == \A t, u \in Trigger :
               t # u /\ {Status(t), Status(u)} \subseteq Active => row[t].module # row[u].module

RowsOK   == row \in [Trigger -> RowState] /\ OneActive
WritesOK == writes \subseteq Write /\ due \subseteq Trigger
AgentsOK == agent \in [Agent -> AgentState]
RunsOK   == /\ timer \in [Agent -> [Module -> Timers]]
            /\ cts \in [Agent -> [Module -> BOOLEAN]] /\ isRunning \in [Agent -> [Module -> BOOLEAN]]
            /\ timerRuns \in Nat
PastOK   == /\ begun \in [Trigger -> 0 .. 2] /\ contested \subseteq Trigger /\ orphaned \subseteq Trigger
            /\ troublesLeft \in Nat
Parts    == RowsOK /\ WritesOK /\ AgentsOK /\ RunsOK /\ PastOK

LEMMA TypeParts == TypeOK <=> Parts
<1>1. AgentsOK <=> /\ agent \in [Agent -> [pc : Steps, list : Seq(Trigger)]]
                   /\ \A a \in Agent : agent[a].list = <<>> <=> At(a, "idle")
  BY DEF AgentsOK, AgentState, At
<1> QED BY <1>1 DEF TypeOK, Parts, RowsOK, OneActive, WritesOK, RunsOK, PastOK, RowState, Write

-----------------------------------------------------------------------------
(* What the steps put where.                                               *)

Put(table, x, v) == [table EXCEPT ![x] = v]
Updated(table, a, m, v) == [table EXCEPT ![a][m] = v]

LEMMA CtsPut ==
  ASSUME RunsOK, NEW a \in Agent, NEW m \in Module, NEW v \in BOOLEAN, cts' = Updated(cts, a, m, v)
  PROVE  /\ cts' \in [Agent -> [Module -> BOOLEAN]] /\ (cts'[a][m] <=> v)
         /\ \A b \in Agent, n \in Module : b # a \/ n # m => cts'[b][n] = cts[b][n]
<1> DEFINE line == [cts[a] EXCEPT ![m] = v]
<1>1. cts \in [Agent -> [Module -> BOOLEAN]] /\ cts' = [cts EXCEPT ![a] = line]
  BY DEF Updated, RunsOK
<1>2. line \in [Module -> BOOLEAN] /\ line[m] = v /\ \A n \in Module : n # m => line[n] = cts[a][n]
  BY <1>1
<1> HIDE DEF line
<1> QED BY <1>1, <1>2

LEMMA RunningPut ==
  ASSUME RunsOK, NEW a \in Agent, NEW m \in Module, NEW v \in BOOLEAN, isRunning' = Updated(isRunning, a, m, v)
  PROVE  /\ isRunning' \in [Agent -> [Module -> BOOLEAN]] /\ (isRunning'[a][m] <=> v)
         /\ \A b \in Agent, n \in Module : b # a \/ n # m => isRunning'[b][n] = isRunning[b][n]
<1> DEFINE line == [isRunning[a] EXCEPT ![m] = v]
<1>1. isRunning \in [Agent -> [Module -> BOOLEAN]] /\ isRunning' = [isRunning EXCEPT ![a] = line]
  BY DEF Updated, RunsOK
<1>2. line \in [Module -> BOOLEAN] /\ line[m] = v /\ \A n \in Module : n # m => line[n] = isRunning[a][n]
  BY <1>1
<1> HIDE DEF line
<1> QED BY <1>1, <1>2

LEMMA TimerPut ==
  ASSUME RunsOK, NEW a \in Agent, NEW m \in Module, NEW v \in Timers, timer' = Updated(timer, a, m, v)
  PROVE  /\ timer' \in [Agent -> [Module -> Timers]] /\ timer'[a][m] = v
         /\ \A b \in Agent, n \in Module : b # a \/ n # m => timer'[b][n] = timer[b][n]
<1> DEFINE line == [timer[a] EXCEPT ![m] = v]
<1>1. timer \in [Agent -> [Module -> Timers]] /\ timer' = [timer EXCEPT ![a] = line]
  BY DEF Updated, RunsOK
<1>2. line \in [Module -> Timers] /\ line[m] = v /\ \A n \in Module : n # m => line[n] = timer[a][n]
  BY <1>1
<1> HIDE DEF line
<1> QED BY <1>1, <1>2

\* An agent that is not idle has a trigger to work on.
LEMMA AtAgent ==
  ASSUME Parts, NEW a \in Agent
  PROVE  /\ agent[a] \in AgentState /\ agent[a].list \in Seq(Trigger) /\ agent[a].pc \in Steps
         /\ agent[a].pc # "idle" => agent[a].list # <<>> /\ Work(a) \in Trigger /\ Mod(a) \in Module
<1>1. agent[a] \in AgentState
  BY DEF Parts, AgentsOK
<1>2. agent[a].list \in Seq(Trigger) /\ agent[a].pc \in Steps /\ (agent[a].pc # "idle" => agent[a].list # <<>>)
  BY <1>1 DEF AgentState
<1>3. agent[a].pc # "idle" => Work(a) \in Trigger
  BY <1>2 DEF Work
<1> QED BY <1>1, <1>2, <1>3 DEF Mod, Parts, RowsOK, RowState

LEMMA AgentPut ==
  ASSUME Parts, NEW a \in Agent, NEW x \in AgentState, agent' = Put(agent, a, x)
  PROVE  AgentsOK' /\ agent'[a] = x /\ \A b \in Agent : b # a => agent'[b] = agent[b]
BY DEF Parts, AgentsOK, Put

\* The agent goes on with its trigger.
LEMMA GotoIs ==
  ASSUME Parts, NEW a \in Agent, agent[a].pc # "idle", NEW pc \in Steps \ {"idle"}, Goto(a, pc)
  PROVE  /\ AgentsOK' /\ agent'[a].pc = pc /\ agent'[a].list = agent[a].list
         /\ \A b \in Agent : b # a => agent'[b] = agent[b]
<1> DEFINE x == [agent[a] EXCEPT !.pc = pc]
<1>1. agent' = Put(agent, a, x)
  BY DEF Goto, Put
<1>2. x \in AgentState /\ x.pc = pc /\ x.list = agent[a].list
  BY AtAgent DEF AgentState
<1> HIDE DEF x
<1> QED BY <1>1, <1>2, AgentPut

\* Every entry of the list is one of before.
Shrinks(new, old) == \A i \in DOMAIN new : \E j \in DOMAIN old : new[i] = old[j]

LEMMA OneLess == \A n \in Nat : n > 1 => n - 1 \in Nat /\ n - 1 # 0
OBVIOUS

\* The agent goes on to the next trigger of its list, or waits.
LEMMA NextOfIs ==
  ASSUME Parts, NEW a \in Agent, agent[a].pc # "idle", NextOf(a)
  PROVE  /\ AgentsOK' /\ agent'[a].pc \in {"claim", "idle"} /\ Shrinks(agent'[a].list, agent[a].list)
         /\ \A b \in Agent : b # a => agent'[b] = agent[b]
<1> DEFINE s == agent[a].list
           x == IF Len(s) > 1 THEN [pc |-> "claim", list |-> Tail(s)] ELSE Idle
<1>1. agent' = Put(agent, a, x)
  BY DEF NextOf, Put, Parts, AgentsOK
<1>2. s \in Seq(Trigger) /\ s # <<>>
  BY AtAgent
<1>3. CASE Len(s) > 1
  <2>1. /\ Tail(s) \in Seq(Trigger) /\ Len(Tail(s)) = Len(s) - 1 /\ Tail(s) # <<>>
        /\ \A i \in DOMAIN Tail(s) : i + 1 \in DOMAIN s /\ Tail(s)[i] = s[i + 1]
    <3>1. Len(s) \in Nat /\ DOMAIN s = 1 .. Len(s)
      BY <1>2
    <3>2. /\ Tail(s) \in Seq(Trigger) /\ Len(Tail(s)) = Len(s) - 1
          /\ \A i \in 1 .. Len(Tail(s)) : Tail(s)[i] = s[i + 1]
      BY <1>2, HeadTailProperties
    <3>3. DOMAIN Tail(s) = 1 .. Len(s) - 1 /\ Tail(s) # <<>>
      <4>1. Len(s) - 1 \in Nat /\ Len(s) - 1 # 0
        BY <1>3, <3>1, OneLess
      <4> HIDE DEF s
      <4>2. DOMAIN Tail(s) = 1 .. Len(Tail(s))
        BY <3>2
      <4>3. Len(<<>>) = 0
        OBVIOUS
      <4> QED BY <3>2, <4>1, <4>2, <4>3
    <3>4. \A i \in 1 .. Len(s) - 1 : i + 1 \in 1 .. Len(s)
      BY <3>1
    <3> QED BY <3>1, <3>2, <3>3, <3>4
  <2>2. x.pc = "claim" /\ x.list = Tail(s) /\ x \in [pc : Steps, list : Seq(Trigger)]
    BY <1>3, <2>1 DEF Steps
  <2>3. x \in AgentState /\ Shrinks(x.list, s)
    BY <2>1, <2>2 DEF AgentState, Shrinks
  <2> HIDE DEF x
  <2> QED BY <1>1, <2>2, <2>3, AgentPut
<1>4. CASE ~(Len(s) > 1)
  <2>1. x = Idle /\ Idle \in AgentState /\ Idle.pc = "idle" /\ Idle.list = <<>>
    BY <1>4 DEF Idle, AgentState, Steps
  <2>2. Shrinks(x.list, s)
    BY <2>1 DEF Shrinks
  <2> HIDE DEF x
  <2> QED BY <1>1, <2>1, <2>2, AgentPut
<1> QED BY <1>3, <1>4

\* A row is put: if it is active, it was so before, or no other of its module is.
LEMMA RowPut ==
  ASSUME Parts, NEW t \in Trigger, NEW x \in RowState, row' = Put(row, t, x),
         x.status \in Active => (Status(t) \in Active /\ x.module = row[t].module) \/ ~Taken(x.module)
  PROVE  RowsOK' /\ row'[t] = x /\ \A u \in Trigger : u # t => row'[u] = row[u]
<1>1. row' \in [Trigger -> RowState] /\ row'[t] = x /\ \A u \in Trigger : u # t => row'[u] = row[u]
  BY DEF Parts, RowsOK, Put
<1>2. ASSUME NEW u \in Trigger, u # t, x.status \in Active, row[u].status \in Active
      PROVE  x.module # row[u].module
  BY <1>2 DEF Parts, RowsOK, OneActive, Taken, Status
<1>3. OneActive'
  <2> SUFFICES ASSUME NEW u \in Trigger, NEW v \in Trigger, u # v,
                      row'[u].status \in Active, row'[v].status \in Active
               PROVE  row'[u].module # row'[v].module
    BY DEF OneActive, Status
  <2>1. CASE u # t /\ v # t
    BY <1>1, <2>1 DEF Parts, RowsOK, OneActive, Status
  <2>2. CASE u = t
    BY <1>1, <1>2, <2>2
  <2>3. CASE v = t
    BY <1>1, <1>2, <2>3
  <2> QED BY <2>1, <2>2, <2>3
<1> QED BY <1>1, <1>3 DEF RowsOK

LEMMA RowsSame == Parts /\ UNCHANGED row => RowsOK'
BY DEF Parts, RowsOK, OneActive, Status

\* The rows that were created keep their module, stay, and are not pending again.
RowsStay == \A t \in Trigger :
              /\ Status(t) # "none" => row'[t].module = row[t].module /\ Status(t)' # "none"
              /\ Status(t)' \in {"none", "pending"} => Status(t) \in {"none", "pending"}

LEMMA ClaimedIs ==
  ASSUME Parts, NEW t \in Trigger, row' = Claimed(t)
  PROVE  RowsOK' /\ RowsStay
<1>1. CASE Status(t) = "pending" /\ t \notin due
  <2> DEFINE x == [row[t] EXCEPT !.status = "picked"]
  <2>1. row' = Put(row, t, x) /\ row[t] \in RowState
    BY <1>1 DEF Claimed, Put, Parts, RowsOK
  <2>2. x \in RowState /\ x.status = "picked" /\ x.module = row[t].module
    BY <2>1 DEF RowState, Active
  <2> HIDE DEF x
  <2>3. RowsOK' /\ row'[t] = x /\ \A u \in Trigger : u # t => row'[u] = row[u]
    BY <1>1, <2>1, <2>2, RowPut DEF Active
  <2> QED BY <2>2, <2>3 DEF RowsStay, Status
<1>2. CASE ~(Status(t) = "pending" /\ t \notin due)
  <2>1. UNCHANGED row
    BY <1>2 DEF Claimed
  <2> QED BY <2>1, RowsSame DEF RowsStay, Status
<1> QED BY <1>1, <1>2

-----------------------------------------------------------------------------
(* The invariant.  A trigger that nobody contested was claimed by one      *)
(* agent, while it was pending, and begun by that one only; a list holds   *)
(* created triggers, whose modules stay; a timer that is on has set        *)
(* CurrentCts, and a run of a module without diagnostics has set IsRunning.*)

Early == {"start", "starting", "trigger"}
Past  == Early \cup {"preparing", "running", "report", "reporting"}

Holds(a, t) == agent[a].pc \in Past /\ Work(a) = t

ClaimOnce(t) ==
  /\ Status(t) \in {"none", "pending"} => begun[t] = 0 /\ \A a \in Agent : ~Holds(a, t)
  /\ \A a, b \in Agent : Holds(a, t) /\ Holds(b, t) => a = b
  /\ \A a \in Agent : Holds(a, t) /\ agent[a].pc \in Early => begun[t] = 0
  /\ begun[t] <= 1

Claims == \A t \in Trigger : t \in contested \/ ClaimOnce(t)

Listing == \A a \in Agent : \A i \in DOMAIN agent[a].list : Status(agent[a].list[i]) # "none"

Apart(a, m) ==
  /\ ~At(a, "idle") /\ Mod(a) = m => ~At(a, "preparing")
  /\ At(a, "running") /\ Mod(a) = m => isRunning[a][m] /\ timer[a][m] = "off"
  /\ timer[a][m] # "off" => cts[a][m]

Exclusion == \A a \in Agent, m \in Module \ Diagnosed : Apart(a, m)

TriggerInv == Parts /\ Listing /\ Claims /\ Exclusion

\* What an agent may do next to the invariant: the trigger it has claimed stays the same, and it is
\* not begun.
Follows(a) == agent'[a].pc \in Past => /\ agent[a].pc \in Past /\ agent'[a].list = agent[a].list
                                       /\ agent'[a].pc \in Early => agent[a].pc \in Early
RunsOn(a)  == agent'[a].pc \in {"preparing", "running"} => agent'[a] = agent[a]
Calm(a)    == Follows(a) /\ RunsOn(a) /\ Shrinks(agent'[a].list, agent[a].list)

LEMMA SameCalm == ASSUME NEW a \in Agent, agent'[a] = agent[a] PROVE Calm(a)
BY DEF Calm, Follows, RunsOn, Shrinks

LEMMA ListingKept ==
  ASSUME Parts, AgentsOK', Listing, RowsStay, \A a \in Agent : Shrinks(agent'[a].list, agent[a].list)
  PROVE  Listing'
<1> SUFFICES ASSUME NEW a \in Agent, NEW i \in DOMAIN agent'[a].list
             PROVE  row'[agent'[a].list[i]].status # "none"
  BY DEF Listing, Status
<1>1. PICK j \in DOMAIN agent[a].list : agent'[a].list[i] = agent[a].list[j]
  BY DEF Shrinks
<1>2. agent[a].list[j] \in Trigger /\ Status(agent[a].list[j]) # "none"
  BY AtAgent DEF Listing
<1> QED BY <1>1, <1>2 DEF RowsStay, Status

\* The module of the trigger an agent works on does not change.
LEMMA ModStays ==
  ASSUME Parts, Listing, RowsStay, NEW a \in Agent, agent[a].pc # "idle", agent'[a].list = agent[a].list
  PROVE  Work(a) \in Trigger /\ Work(a)' = Work(a) /\ Mod(a)' = Mod(a) /\ Status(Work(a)) # "none"
<1>1. agent[a].list \in Seq(Trigger) /\ agent[a].list # <<>> /\ Work(a) \in Trigger
  BY AtAgent
<1>2. 1 \in DOMAIN agent[a].list /\ Work(a) = agent[a].list[1]
  BY <1>1 DEF Work
<1>3. Status(Work(a)) # "none"
  BY <1>2 DEF Listing
<1>4. Work(a)' = Work(a)
  BY DEF Work
<1> QED BY <1>1, <1>3, <1>4 DEF RowsStay, Mod

LEMMA HoldsStays ==
  ASSUME Parts, NEW a \in Agent, Follows(a), NEW t, Holds(a, t)'
  PROVE  Holds(a, t) /\ (agent'[a].pc \in Early => agent[a].pc \in Early)
BY DEF Holds, Follows, Work

LEMMA ClaimsKept ==
  ASSUME Parts, Claims, RowsStay, contested \subseteq contested', UNCHANGED begun, \A a \in Agent : Follows(a)
  PROVE  Claims'
<1> SUFFICES ASSUME NEW t \in Trigger, t \notin contested' PROVE ClaimOnce(t)'
  BY DEF Claims
<1>1. ClaimOnce(t)
  BY DEF Claims
<1>2. \A a \in Agent : Holds(a, t)' => Holds(a, t) /\ (agent'[a].pc \in Early => agent[a].pc \in Early)
  BY HoldsStays
<1>3. (Status(t) \in {"none", "pending"} => begun[t] = 0 /\ \A a \in Agent : ~Holds(a, t))'
  BY <1>1, <1>2 DEF ClaimOnce, RowsStay
<1>4. (\A a, b \in Agent : Holds(a, t) /\ Holds(b, t) => a = b)'
  BY <1>1, <1>2 DEF ClaimOnce
<1>5. (\A a \in Agent : Holds(a, t) /\ agent[a].pc \in Early => begun[t] = 0)'
  BY <1>1, <1>2 DEF ClaimOnce
<1> QED BY <1>1, <1>3, <1>4, <1>5 DEF ClaimOnce

LEMMA ApartKept ==
  ASSUME Parts, Listing, RowsStay, NEW a \in Agent, NEW m \in Module, Apart(a, m), RunsOn(a),
         timer'[a][m] = timer[a][m], cts'[a][m] = cts[a][m], isRunning'[a][m] = isRunning[a][m]
  PROVE  Apart(a, m)'
<1>1. CASE agent'[a].pc \notin {"preparing", "running"}
  BY <1>1 DEF Apart, At
<1>2. CASE agent'[a].pc \in {"preparing", "running"}
  <2>1. agent'[a] = agent[a] /\ agent[a].pc # "idle"
    BY <1>2 DEF RunsOn
  <2>2. Mod(a)' = Mod(a)
    BY <2>1, ModStays
  <2> QED BY <2>1, <2>2 DEF Apart, At
<1> QED BY <1>1, <1>2

LEMMA ExclusionKept ==
  ASSUME Parts, Listing, Exclusion, RowsStay, \A a \in Agent : RunsOn(a), UNCHANGED <<timer, cts, isRunning>>
  PROVE  Exclusion'
BY ApartKept DEF Exclusion

LEMMA CalmStep ==
  ASSUME TriggerInv, RowsOK', RowsStay, WritesOK', AgentsOK', PastOK', contested \subseteq contested',
         UNCHANGED <<timer, cts, isRunning, timerRuns, begun>>, \A a \in Agent : Calm(a)
  PROVE  TriggerInv'
<1>1. RunsOK'
  BY DEF TriggerInv, Parts, RunsOK
<1>2. Listing'
  BY ListingKept DEF TriggerInv, Calm
<1>3. Claims'
  BY ClaimsKept DEF TriggerInv, Calm
<1>4. Exclusion'
  BY ExclusionKept DEF TriggerInv, Calm
<1> QED BY <1>1, <1>2, <1>3, <1>4 DEF TriggerInv, Parts

-----------------------------------------------------------------------------
(* The backend.                                                            *)

LEMMA RowsSameStay == UNCHANGED row => RowsStay
BY DEF RowsStay, Status

LEMMA BackendInv ==
  ASSUME TriggerInv, \/ \E t \in Trigger : (\E m \in Module : Create(t, m)) \/ BecomesDue(t) \/ Cancel(t)
                     \/ \E w \in writes : Save(w)
  PROVE  TriggerInv'
<1>1. /\ UNCHANGED <<agent, timer, cts, isRunning, timerRuns, begun, contested, orphaned>>
      /\ Trouble \/ UNCHANGED troublesLeft
  BY DEF Create, BecomesDue, Cancel, Save, agentVars
<1>2. AgentsOK' /\ PastOK' /\ \A a \in Agent : Calm(a)
  BY <1>1, SameCalm DEF TriggerInv, Parts, AgentsOK, PastOK, Trouble
<1>3. ASSUME NEW t \in Trigger, NEW m \in Module, Create(t, m) PROVE RowsOK' /\ RowsStay /\ WritesOK'
  <2> DEFINE x == [module |-> m, status |-> "pending"]
  <2>1. row' = Put(row, t, x) /\ UNCHANGED <<due, writes>> /\ ~Taken(m) /\ Status(t) = "none"
    BY <1>3 DEF Create, Put
  <2>2. x \in RowState /\ x.module = m /\ x.status = "pending"
    BY DEF RowState, Active
  <2> HIDE DEF x
  <2>3. RowsOK' /\ row'[t] = x /\ \A u \in Trigger : u # t => row'[u] = row[u]
    BY <2>1, <2>2, RowPut DEF TriggerInv
  <2> QED BY <2>1, <2>2, <2>3 DEF RowsStay, Status, TriggerInv, Parts, WritesOK
<1>4. ASSUME NEW t \in Trigger, BecomesDue(t) \/ Cancel(t) PROVE RowsOK' /\ RowsStay /\ WritesOK'
  <2>1. UNCHANGED row
    BY <1>4 DEF BecomesDue, Cancel
  <2>2. WritesOK'
    BY <1>4 DEF BecomesDue, Cancel, TriggerInv, Parts, WritesOK, Write
  <2> QED BY <2>1, <2>2, RowsSame, RowsSameStay DEF TriggerInv
<1>5. ASSUME NEW w \in writes, Save(w) PROVE RowsOK' /\ RowsStay /\ WritesOK'
  <2>1. w \in Write /\ WritesOK'
    BY <1>5 DEF Save, TriggerInv, Parts, WritesOK
  <2>2. CASE UNCHANGED row
    BY <2>1, <2>2, RowsSame, RowsSameStay DEF TriggerInv
  <2>3. CASE /\ row' = [row EXCEPT ![w.trigger].status = w.status]
             /\ ~(w.status \in Active /\ Status(w.trigger) \notin Active /\ Taken(row[w.trigger].module))
    <3> DEFINE t == w.trigger
               x == [row[t] EXCEPT !.status = w.status]
    <3>1. row' = Put(row, t, x) /\ t \in Trigger /\ row[t] \in RowState
      BY <2>1, <2>3 DEF Put, TriggerInv, Parts, RowsOK, Write
    <3>2. x \in RowState /\ x.module = row[t].module /\ x.status = w.status
          /\ w.status \in {"running", "completed", "cancelled"}
      BY <2>1, <3>1 DEF RowState, Write, Active, Ended
    <3> HIDE DEF x, t
    <3>3. RowsOK' /\ row'[t] = x /\ \A u \in Trigger : u # t => row'[u] = row[u]
      <4>1. x.status \in Active => (Status(t) \in Active /\ x.module = row[t].module) \/ ~Taken(x.module)
        BY <2>3, <3>2 DEF t
      <4> QED BY <3>1, <3>2, <4>1, RowPut DEF TriggerInv
    <3> QED BY <2>1, <3>2, <3>3 DEF RowsStay, Status
  <2> QED BY <1>5, <2>2, <2>3 DEF Save
<1> QED BY <1>1, <1>2, <1>3, <1>4, <1>5, CalmStep

-----------------------------------------------------------------------------
(* The trigger poll.                                                       *)

LEMMA PassedOn ==
  ASSUME NEW P, NEW a \in Agent, \A b \in Agent : b # a => agent'[b] = agent[b], Calm(a)
  PROVE  \A b \in Agent : Calm(b)
BY SameCalm

\* The agent goes on with its trigger: what it has begun it does not begin again.
LEMMA GotoCalm ==
  ASSUME Parts, NEW a \in Agent, NEW pc \in Steps \ {"idle", "preparing", "running"}, Goto(a, pc),
         agent[a].pc \in Past, pc \in Early => agent[a].pc \in Early
  PROVE  AgentsOK' /\ \A b \in Agent : Calm(b)
<1>1. agent[a].pc # "idle"
  BY DEF Past, Early
<1>2. /\ AgentsOK' /\ agent'[a].pc = pc /\ agent'[a].list = agent[a].list
      /\ \A b \in Agent : b # a => agent'[b] = agent[b]
  BY <1>1, GotoIs
<1>3. Calm(a)
  BY <1>2 DEF Calm, Follows, RunsOn, Shrinks
<1> QED BY <1>2, <1>3, PassedOn

LEMMA NextOfCalm ==
  ASSUME Parts, NEW a \in Agent, agent[a].pc # "idle", NextOf(a)
  PROVE  AgentsOK' /\ \A b \in Agent : Calm(b)
<1>1. /\ AgentsOK' /\ agent'[a].pc \in {"claim", "idle"} /\ Shrinks(agent'[a].list, agent[a].list)
      /\ \A b \in Agent : b # a => agent'[b] = agent[b]
  BY NextOfIs
<1>2. Calm(a)
  BY <1>1 DEF Calm, Follows, RunsOn, Past, Early
<1> QED BY <1>1, <1>2, PassedOn

\* The list is one of the set, and holds something if the set does.
LEMMA ListedIs ==
  ASSUME NEW S \in SUBSET Trigger, NEW list \in Listed(S)
  PROVE  /\ list \in Seq(Trigger) /\ (S # {} => list # <<>>)
         /\ \A i \in DOMAIN list : list[i] \in S
<1>1. IsFiniteSet(S)
  <2>1. IsFiniteSet(Trigger)
    BY FS_Interval, TriggerAssumption DEF Trigger
  <2> QED BY <2>1, FS_Subset
<1> DEFINE n == Cardinality(S)
<1>2. n \in Nat /\ (S # {} => n # 0)
  BY <1>1, FS_CardinalityType, FS_EmptySet
<1>3. list \in [1 .. n -> S]
  BY DEF Listed
<1> HIDE DEF n
<1>4. list \in Seq(Trigger) /\ Len(list) = n /\ DOMAIN list = 1 .. n
  BY <1>2, <1>3
<1>5. S # {} => list # <<>>
  <2>1. Len(<<>>) = 0
    OBVIOUS
  <2> QED BY <1>2, <1>4, <2>1
<1> QED BY <1>3, <1>4, <1>5

LEMMA PollInv ==
  ASSUME TriggerInv, NEW a \in Agent, PollTriggers(a)
  PROVE  TriggerInv'
<1> DEFINE over == {t \in due : Status(t) = "pending"}
           pending == {t \in Trigger \ over : Status(t) = "pending"}
           first == {t \in pending : Cardinality({u \in pending : u < t}) < PollLimit}
<1>1. /\ row' = [t \in Trigger |-> IF t \in over THEN [row[t] EXCEPT !.status = "expired"] ELSE row[t]]
      /\ UNCHANGED <<due, writes, timer, cts, isRunning, timerRuns, troublesLeft, begun, contested, orphaned>>
      /\ At(a, "idle")
  BY DEF PollTriggers
<1>2. PICK list \in Listed(first) :
        agent' = Put(agent, a, IF first = {} THEN Idle ELSE [pc |-> "claim", list |-> list])
  BY DEF PollTriggers, Put
<1>3. /\ first \in SUBSET Trigger /\ \A t \in first : Status(t) = "pending" /\ t \notin over
      /\ \A t \in over : Status(t) = "pending" /\ t \in Trigger
  BY DEF TriggerInv, Parts, WritesOK
<1> HIDE DEF first, over
<1>4. /\ row' \in [Trigger -> RowState]
      /\ \A t \in Trigger : /\ row'[t].module = row[t].module
                            /\ row'[t].status = IF t \in over THEN "expired" ELSE row[t].status
  BY <1>1 DEF TriggerInv, Parts, RowsOK, RowState, Ended
<1>5. RowsOK'
  BY <1>4 DEF TriggerInv, Parts, RowsOK, OneActive, Status, Active
<1>6. RowsStay
  BY <1>3, <1>4 DEF RowsStay, Status
<1>7. WritesOK' /\ PastOK' /\ RunsOK'
  BY <1>1 DEF TriggerInv, Parts, WritesOK, PastOK, RunsOK
<1> DEFINE x == IF first = {} THEN Idle ELSE [pc |-> "claim", list |-> list]
<1>8. /\ x \in AgentState /\ x.pc \in {"idle", "claim"}
      /\ \A i \in DOMAIN x.list : x.list[i] \in first
  <2>1. CASE first = {}
    <3>1. x = Idle /\ Idle.list = <<>> /\ Idle.pc = "idle" /\ Idle \in AgentState
      BY <2>1 DEF Idle, AgentState, Steps
    <3> QED BY <3>1
  <2>2. CASE first # {}
    <3>1. x = [pc |-> "claim", list |-> list] /\ list \in Seq(Trigger) /\ list # <<>>
          /\ \A i \in DOMAIN list : list[i] \in first
      BY <1>2, <1>3, <2>2, ListedIs
    <3> QED BY <3>1 DEF AgentState, Steps
  <2> QED BY <2>1, <2>2
<1> HIDE DEF x
<1>9. AgentsOK' /\ agent'[a] = x /\ \A b \in Agent : b # a => agent'[b] = agent[b]
  <2>1. agent' = Put(agent, a, x)
    BY <1>2 DEF x
  <2> QED BY <1>8, <2>1, AgentPut DEF TriggerInv
<1>10. \A b \in Agent : Follows(b) /\ RunsOn(b)
  BY <1>8, <1>9, SameCalm DEF Calm, Follows, RunsOn, Past, Early
<1>11. Listing'
  <2> SUFFICES ASSUME NEW b \in Agent, NEW i \in DOMAIN agent'[b].list
               PROVE  row'[agent'[b].list[i]].status # "none"
    BY DEF Listing, Status
  <2>1. CASE b = a
    BY <1>3, <1>4, <1>8, <1>9, <2>1 DEF Status
  <2>2. CASE b # a
    <3>1. agent[b].list[i] \in Trigger /\ Status(agent[b].list[i]) # "none"
      BY <1>9, <2>2, AtAgent DEF TriggerInv, Listing
    <3> QED BY <1>6, <1>9, <2>2, <3>1 DEF RowsStay, Status
  <2> QED BY <2>1, <2>2
<1>12. Claims'
  BY <1>1, <1>6, <1>10, ClaimsKept DEF TriggerInv
<1>13. Exclusion'
  BY <1>1, <1>6, <1>10, ExclusionKept DEF TriggerInv
<1> QED BY <1>5, <1>7, <1>9, <1>11, <1>12, <1>13 DEF TriggerInv, Parts

\* A claim of a pending trigger is the first one; any other contests the trigger.
LEMMA ClaimInv ==
  ASSUME TriggerInv, NEW a \in Agent, Claim(a)
  PROVE  TriggerInv'
<1>2. PICK t \in Trigger : t = Work(a)
  BY AtAgent DEF TriggerInv, Claim, At
<1>1. /\ agent[a].pc = "claim" /\ row' = Claimed(t) /\ Goto(a, "start")
      /\ contested' = IF Status(t) = "pending" /\ t \notin due THEN contested ELSE contested \cup {t}
      /\ UNCHANGED <<due, writes, timer, cts, isRunning, timerRuns, troublesLeft, begun, orphaned>>
  BY <1>2 DEF Claim, At
<1>3. RowsOK' /\ RowsStay
  BY <1>1, <1>2, ClaimedIs DEF TriggerInv
<1>4. /\ AgentsOK' /\ agent'[a].pc = "start" /\ agent'[a].list = agent[a].list
      /\ \A b \in Agent : b # a => agent'[b] = agent[b]
  BY <1>1, GotoIs DEF TriggerInv, Steps
<1>5. WritesOK' /\ PastOK' /\ RunsOK'
  BY <1>1, <1>2 DEF TriggerInv, Parts, WritesOK, PastOK, RunsOK
<1>6. \A b \in Agent : RunsOn(b) /\ Shrinks(agent'[b].list, agent[b].list)
  BY <1>4 DEF RunsOn, Shrinks
<1>7. Listing'
  BY <1>3, <1>4, <1>6, ListingKept DEF TriggerInv
<1>8. Exclusion'
  BY <1>1, <1>3, <1>6, ExclusionKept DEF TriggerInv
<1>9. Claims'
  <2> SUFFICES ASSUME NEW u \in Trigger, u \notin contested' PROVE ClaimOnce(u)'
    BY DEF Claims
  <2>1. ClaimOnce(u)
    BY <1>1 DEF TriggerInv, Claims
  <2>2. /\ Work(a)' = t /\ Work(a) = t /\ \A b \in Agent : b # a => (Holds(b, u)' <=> Holds(b, u))
        /\ ~Holds(a, u)
    BY <1>1, <1>2, <1>4 DEF Holds, Work, Past, Early
  <2>3. CASE u = t
    <3>1. Status(t) = "pending" /\ t \notin due
      BY <1>1, <2>3
    <3>2. begun[t] = 0 /\ \A b \in Agent : ~Holds(b, t)
      BY <2>1, <2>3, <3>1 DEF ClaimOnce
    <3>3. Status(t)' = "picked"
      <4>1. row' = [row EXCEPT ![t].status = "picked"]
        BY <1>1, <3>1 DEF Claimed
      <4> QED BY <4>1 DEF Status, TriggerInv, Parts, RowsOK, RowState
    <3>4. \A b \in Agent : Holds(b, t)' => b = a
      BY <2>2, <2>3, <3>2
    <3>5. \A b, d \in Agent : Holds(b, t)' /\ Holds(d, t)' => b = d
      BY <3>4
    <3>6. begun'[t] = 0
      BY <1>1, <3>2
    <3>7. ClaimOnce(t)'
      BY <3>3, <3>5, <3>6 DEF ClaimOnce
    <3> QED BY <2>3, <3>7
  <2>4. CASE u # t
    <3>1. ~Holds(a, u)'
      BY <2>2, <2>4 DEF Holds
    <3>2. \A b \in Agent : Holds(b, u)' => Holds(b, u) /\ agent'[b].pc = agent[b].pc
      BY <1>4, <2>2, <3>1
    <3>3. begun'[u] = begun[u] /\ (Status(u)' \in {"none", "pending"} => Status(u) \in {"none", "pending"})
      BY <1>1, <1>3 DEF RowsStay
    <3>4. (Status(u) \in {"none", "pending"} => begun[u] = 0 /\ \A b \in Agent : ~Holds(b, u))'
      BY <2>1, <3>2, <3>3 DEF ClaimOnce
    <3>5. (\A b, d \in Agent : Holds(b, u) /\ Holds(d, u) => b = d)'
      BY <2>1, <3>2 DEF ClaimOnce
    <3>6. (\A b \in Agent : Holds(b, u) /\ agent[b].pc \in Early => begun[u] = 0)'
      BY <2>1, <3>2, <3>3 DEF ClaimOnce
    <3> QED BY <2>1, <3>3, <3>4, <3>5, <3>6 DEF ClaimOnce
  <2> QED BY <2>3, <2>4
<1> QED BY <1>3, <1>4, <1>5, <1>7, <1>8, <1>9 DEF TriggerInv, Parts

\* Lost calls, reports, their answers, and a module that is busy.
LEMMA ReportsInv ==
  ASSUME TriggerInv, NEW a \in Agent,
         \/ ClaimLost(a) \/ Report(a, "start", "running", "starting")
         \/ Report(a, "report", "completed", "reporting") \/ ReportLost(a) \/ Answered(a) \/ Skip(a)
  PROVE  TriggerInv'
<1>0. Parts /\ None \notin Agent /\ a \in Agent /\ (agent[a].pc # "idle" => Work(a) \in Trigger)
  BY TriggerAssumption, AtAgent DEF TriggerInv
<1>1. /\ UNCHANGED <<due, timer, cts, isRunning, timerRuns, begun, contested>>
      /\ agent[a].pc \in {"claim", "start", "report", "starting", "reporting", "trigger"}
      /\ orphaned' \in {orphaned, orphaned \cup {Work(a)}}
      /\ Trouble \/ UNCHANGED troublesLeft
  BY DEF ClaimLost, Report, ReportLost, Answered, Skip, At
<1>2. PastOK'
  BY <1>0, <1>1 DEF Parts, PastOK, Trouble
<1>3. AgentsOK' /\ \A b \in Agent : Calm(b)
  <2>1. CASE NextOf(a)
    BY <1>0, <1>1, <2>1, NextOfCalm
  <2>2. CASE \/ Goto(a, "starting") /\ agent[a].pc = "start"
             \/ Goto(a, "reporting") /\ agent[a].pc = "report"
             \/ Goto(a, "trigger") /\ agent[a].pc \in {"start", "starting"}
             \/ Goto(a, "report") /\ agent[a].pc = "trigger"
    BY <1>0, <2>2, GotoCalm DEF Steps, Past, Early
  <2> QED BY <2>1, <2>2 DEF ClaimLost, Report, ReportLost, Answered, Skip, At
<1>4. RowsOK' /\ RowsStay
  <2>1. row' = Claimed(Work(a)) \/ UNCHANGED row
    BY DEF ClaimLost, Report, ReportLost, Answered, Skip
  <2> QED BY <1>0, <1>1, <2>1, ClaimedIs, RowsSame, RowsSameStay
<1>5. WritesOK'
  <2>1. CASE UNCHANGED writes
    BY <1>0, <1>1, <2>1 DEF Parts, WritesOK
  <2>2. CASE \E s \in {"running", "completed"} :
               writes' = writes \cup {[trigger |-> Work(a), status |-> s, agent |-> a]}
    BY <1>0, <1>1, <2>2 DEF Parts, WritesOK, Write
  <2>3. CASE writes' = {IF w.agent = a THEN [w EXCEPT !.agent = None] ELSE w : w \in writes}
    BY <1>0, <1>1, <2>3 DEF Parts, WritesOK, Write
  <2>4. ASSUME NEW from, NEW s \in {"running", "completed"}, NEW to, Report(a, from, s, to) PROVE WritesOK'
    BY <2>1, <2>2, <2>4 DEF Report
  <2> QED BY <2>1, <2>3, <2>4 DEF ClaimLost, ReportLost, Answered, Skip
<1> QED BY <1>1, <1>2, <1>3, <1>4, <1>5, CalmStep

-----------------------------------------------------------------------------
(* The runs of an agent: by trigger and by timer.                          *)

\* Entries of the tables of runs change for one agent and module only.
LEMMA OthersApart ==
  ASSUME TriggerInv, UNCHANGED row, NEW a \in Agent, NEW m \in Module,
         \A b \in Agent : b # a => agent'[b] = agent[b],
         \A b \in Agent, n \in Module : b # a \/ n # m =>
           timer'[b][n] = timer[b][n] /\ cts'[b][n] = cts[b][n] /\ isRunning'[b][n] = isRunning[b][n],
         \/ RunsOn(a)
         \/ agent[a].pc # "idle" /\ agent'[a].list = agent[a].list /\ Mod(a) = m,
         m \notin Diagnosed => Apart(a, m)'
  PROVE  Exclusion'
<1> SUFFICES ASSUME NEW b \in Agent, NEW n \in Module \ Diagnosed PROVE Apart(b, n)'
  BY DEF Exclusion
<1>1. RowsStay /\ Apart(b, n) /\ Parts /\ Listing
  BY RowsSameStay DEF TriggerInv, Exclusion
<1>2. CASE b # a \/ (n # m /\ RunsOn(a))
  <2>1. RunsOn(b)
    BY <1>2, SameCalm DEF Calm
  <2> QED BY <1>1, <1>2, <2>1, ApartKept
<1>3. CASE b = a /\ n # m /\ ~RunsOn(a)
  <2>1. Mod(a)' = Mod(a) /\ Mod(a) # n
    BY <1>1, <1>3, ModStays
  <2> QED BY <1>1, <1>3, <2>1 DEF Apart, At
<1>4. CASE b = a /\ n = m
  BY <1>4
<1> QED BY <1>2, <1>3, <1>4

\* The module of the trigger that an agent works on, and what is known of it.
LEMMA AtWork ==
  ASSUME TriggerInv, NEW a \in Agent, agent[a].pc # "idle"
  PROVE  /\ Work(a) \in Trigger /\ Mod(a) \in Module /\ Status(Work(a)) # "none"
         /\ Mod(a) \notin Diagnosed => Apart(a, Mod(a))
<1>1. Work(a) \in Trigger /\ Mod(a) \in Module
  BY AtAgent DEF TriggerInv
<1>2. agent[a].list \in Seq(Trigger) /\ agent[a].list # <<>>
  BY AtAgent DEF TriggerInv
<1>3. 1 \in DOMAIN agent[a].list /\ Work(a) = agent[a].list[1]
  BY <1>2 DEF Work
<1> QED BY <1>1, <1>3 DEF TriggerInv, Listing, Exclusion

\* A run begins that nobody has begun before, for the module whose CurrentCts was not set.
LEMMA TriggerNowInv ==
  ASSUME TriggerInv, NEW a \in Agent, TriggerNow(a)
  PROVE  TriggerInv'
<1>0. PICK t \in Trigger, m \in Module : t = Work(a) /\ m = Mod(a) /\ (m \notin Diagnosed => Apart(a, m))
  BY AtWork DEF TriggerNow, At
<1> DEFINE pc == IF m \in Diagnosed THEN "preparing" ELSE "running"
<1>1. /\ agent[a].pc = "trigger" /\ ~cts[a][m] /\ cts' = Updated(cts, a, m, TRUE)
      /\ begun' = [begun EXCEPT ![t] = IF @ = 2 THEN 2 ELSE @ + 1]
      /\ Goto(a, pc) /\ (m \in Diagnosed => UNCHANGED isRunning)
      /\ m \notin Diagnosed => isRunning' = Updated(isRunning, a, m, TRUE)
      /\ UNCHANGED <<row, due, writes, timer, timerRuns, troublesLeft, contested, orphaned>>
  BY <1>0 DEF TriggerNow, At, Busy, Updated
<1>2. /\ AgentsOK' /\ agent'[a].pc = pc /\ agent'[a].list = agent[a].list
      /\ \A b \in Agent : b # a => agent'[b] = agent[b]
  BY <1>1, GotoIs DEF TriggerInv, Steps
<1>3. RunsOK
  BY DEF TriggerInv, Parts
<1>4. /\ cts' \in [Agent -> [Module -> BOOLEAN]] /\ cts'[a][m]
      /\ \A b \in Agent, n \in Module : b # a \/ n # m => cts'[b][n] = cts[b][n]
  BY <1>1, <1>3, CtsPut
<1>5. /\ isRunning' \in [Agent -> [Module -> BOOLEAN]] /\ (m \notin Diagnosed => isRunning'[a][m])
      /\ \A b \in Agent, n \in Module : b # a \/ n # m => isRunning'[b][n] = isRunning[b][n]
  <2>1. CASE m \in Diagnosed
    BY <1>1, <1>3, <2>1 DEF RunsOK
  <2>2. CASE m \notin Diagnosed
    BY <1>1, <1>3, <2>2, RunningPut
  <2> QED BY <2>1, <2>2
<1>6. RowsOK' /\ WritesOK' /\ RunsOK' /\ RowsStay
  BY <1>1, <1>4, <1>5, RowsSame, RowsSameStay DEF TriggerInv, Parts, WritesOK, RunsOK
<1>7. /\ PastOK' /\ (begun[t] = 0 => begun'[t] = 1)
      /\ \A u \in Trigger : u # t => begun'[u] = begun[u]
  <2>1. begun \in [Trigger -> 0 .. 2]
    BY DEF TriggerInv, Parts, PastOK
  <2>2. \A k \in 0 .. 2 : (IF k = 2 THEN 2 ELSE k + 1) \in 0 .. 2
    OBVIOUS
  <2>3. begun' \in [Trigger -> 0 .. 2]
    BY <1>1, <2>1, <2>2
  <2> QED BY <1>1, <2>1, <2>3 DEF TriggerInv, Parts, PastOK
<1>8. Listing'
  <2>1. \A b \in Agent : Shrinks(agent'[b].list, agent[b].list)
    BY <1>2 DEF Shrinks
  <2> QED BY <1>2, <1>6, <2>1, ListingKept DEF TriggerInv
<1>9. Exclusion'
  <2>1. Mod(a)' = m
    BY <1>0, <1>1, <1>2, <1>6, ModStays DEF TriggerInv
  <2>2. m \notin Diagnosed => timer'[a][m] = "off"
    BY <1>0, <1>1 DEF Apart
  <2>3. m \notin Diagnosed => Apart(a, m)'
    BY <1>2, <1>5, <2>1, <2>2 DEF Apart, At
  <2>4. agent[a].pc # "idle" /\ Mod(a) = m
    BY <1>0, <1>1
  <2>5. \A b \in Agent, n \in Module : b # a \/ n # m =>
          timer'[b][n] = timer[b][n] /\ cts'[b][n] = cts[b][n] /\ isRunning'[b][n] = isRunning[b][n]
    BY <1>1, <1>4, <1>5
  <2> QED BY <1>1, <1>2, <2>3, <2>4, <2>5, OthersApart
<1>10. Claims'
  <2> SUFFICES ASSUME NEW u \in Trigger, u \notin contested' PROVE ClaimOnce(u)'
    BY DEF Claims
  <2>1. ClaimOnce(u)
    BY <1>1 DEF TriggerInv, Claims
  <2>2. \A b \in Agent : /\ Holds(b, u)' <=> Holds(b, u)
                         /\ agent'[b].pc \in Early => agent[b].pc \in Early /\ b # a
    BY <1>1, <1>2 DEF Holds, Work, Past, Early
  <2>3. Status(u)' = Status(u)
    BY <1>1 DEF Status
  <2>4. (\A b, d \in Agent : Holds(b, u) /\ Holds(d, u) => b = d)'
    BY <2>1, <2>2 DEF ClaimOnce
  <2>5. CASE u = t
    <3>1. Holds(a, u) /\ agent[a].pc \in Early
      BY <1>0, <1>1, <2>5 DEF Holds, Past, Early
    <3>2. begun[u] = 0 /\ Status(u) \notin {"none", "pending"} /\ begun'[u] = 1
      BY <1>7, <2>1, <2>5, <3>1 DEF ClaimOnce
    <3>3. \A b \in Agent : ~(Holds(b, u)' /\ agent'[b].pc \in Early)
      BY <2>1, <2>2, <3>1 DEF ClaimOnce
    <3> QED BY <2>3, <2>4, <3>2, <3>3 DEF ClaimOnce
  <2>6. CASE u # t
    <3>1. begun'[u] = begun[u]
      BY <1>7, <2>6
    <3>2. (Status(u) \in {"none", "pending"} => begun[u] = 0 /\ \A b \in Agent : ~Holds(b, u))'
      BY <2>1, <2>2, <2>3, <3>1 DEF ClaimOnce
    <3>3. (\A b \in Agent : Holds(b, u) /\ agent[b].pc \in Early => begun[u] = 0)'
      BY <2>1, <2>2, <3>1 DEF ClaimOnce
    <3> QED BY <2>1, <2>4, <3>1, <3>2, <3>3 DEF ClaimOnce
  <2> QED BY <2>5, <2>6
<1> QED BY <1>2, <1>6, <1>7, <1>8, <1>9, <1>10 DEF TriggerInv, Parts

\* The tables of runs change for one agent and module; the triggers stay.
LEMMA RunStep ==
  ASSUME TriggerInv, NEW a \in Agent, NEW m \in Module, AgentsOK', RunsOK',
         UNCHANGED <<row, due, writes, troublesLeft, begun, contested, orphaned>>,
         \A b \in Agent : Follows(b) /\ Shrinks(agent'[b].list, agent[b].list), Exclusion'
  PROVE  TriggerInv'
<1>1. RowsOK' /\ RowsStay /\ WritesOK' /\ PastOK'
  BY RowsSame, RowsSameStay DEF TriggerInv, Parts, WritesOK, PastOK
<1>2. Listing' /\ Claims'
  BY <1>1, ListingKept, ClaimsKept DEF TriggerInv
<1> QED BY <1>1, <1>2 DEF TriggerInv, Parts

LEMMA SyncInv ==
  ASSUME TriggerInv, NEW a \in Agent, SyncBegins(a) \/ SyncEnds(a)
  PROVE  TriggerInv'
<1>0. PICK m \in Module : m = Mod(a) /\ (m \notin Diagnosed => Apart(a, m))
  BY AtWork DEF SyncBegins, SyncEnds, At
<1>1. PICK pc \in {"running", "report"}, c \in BOOLEAN, r \in BOOLEAN :
        /\ Goto(a, pc) /\ isRunning' = Updated(isRunning, a, m, r) /\ cts' = Updated(cts, a, m, c)
        /\ pc = "running" => m \in Diagnosed
        /\ pc = "report" => agent[a].pc = "running"
  <2>1. cts = Updated(cts, a, m, cts[a][m]) /\ cts[a][m] \in BOOLEAN
    BY DEF Updated, TriggerInv, Parts, RunsOK
  <2>2. CASE SyncBegins(a)
    <3>1. /\ Goto(a, "running") /\ isRunning' = Updated(isRunning, a, m, TRUE)
          /\ cts' = Updated(cts, a, m, cts[a][m]) /\ agent[a].pc = "preparing"
      BY <1>0, <2>1, <2>2 DEF SyncBegins, Updated, At
    <3>2. m \in Diagnosed
      BY <1>0, <3>1 DEF Apart, At
    <3> QED BY <2>1, <3>1, <3>2
  <2>3. CASE SyncEnds(a)
    <3>1. /\ Goto(a, "report") /\ isRunning' = Updated(isRunning, a, m, FALSE)
          /\ cts' = Updated(cts, a, m, FALSE) /\ agent[a].pc = "running"
      BY <1>0, <2>3 DEF SyncEnds, Updated, At
    <3> QED BY <3>1
  <2> QED BY <2>2, <2>3
<1>2. /\ agent[a].pc \in {"preparing", "running"}
      /\ UNCHANGED <<row, due, writes, timer, timerRuns, troublesLeft, begun, contested, orphaned>>
  BY DEF SyncBegins, SyncEnds, At
<1>3. /\ AgentsOK' /\ agent'[a].pc = pc /\ agent'[a].list = agent[a].list
      /\ \A b \in Agent : b # a => agent'[b] = agent[b]
  BY <1>1, <1>2, GotoIs DEF TriggerInv, Steps
<1>4. RunsOK
  BY DEF TriggerInv, Parts
<1>5. /\ cts' \in [Agent -> [Module -> BOOLEAN]]
      /\ \A b \in Agent, n \in Module : b # a \/ n # m => cts'[b][n] = cts[b][n]
  BY <1>1, <1>4, CtsPut
<1>6. /\ isRunning' \in [Agent -> [Module -> BOOLEAN]]
      /\ \A b \in Agent, n \in Module : b # a \/ n # m => isRunning'[b][n] = isRunning[b][n]
  BY <1>1, <1>4, RunningPut
<1>7. RunsOK'
  BY <1>2, <1>5, <1>6 DEF TriggerInv, Parts, RunsOK
<1>8. \A b \in Agent : Follows(b) /\ Shrinks(agent'[b].list, agent[b].list)
  BY <1>1, <1>2, <1>3 DEF Follows, Shrinks, Past, Early
<1>9. m \notin Diagnosed => Apart(a, m)'
  <2> SUFFICES ASSUME m \notin Diagnosed PROVE Apart(a, m)'
    OBVIOUS
  <2>1. agent'[a].pc = "report" /\ agent[a].pc = "running"
    BY <1>1, <1>3
  <2>2. timer'[a][m] = "off"
    BY <1>0, <1>2, <2>1 DEF Apart, At
  <2> QED BY <2>1, <2>2 DEF Apart, At
<1>10. Exclusion'
  BY <1>0, <1>2, <1>3, <1>5, <1>6, <1>9, OthersApart
<1> QED BY <1>2, <1>3, <1>7, <1>8, <1>10, RunStep

\* A timer's step: it fires when the module does not run, so that no trigger's run is under way.
LEMMA TimerInv ==
  ASSUME TriggerInv, NEW a \in Agent, NEW m \in Module,
         \/ TimerFires(a, m) \/ TimerSyncs(a, m) \/ TimerDone(a, m) \/ (TimerCloses(a, m) /\ cts[a][m])
  PROVE  TriggerInv'
<1>0. /\ UNCHANGED <<row, due, writes, agent, troublesLeft, begun, contested, orphaned>>
      /\ timerRuns' \in {timerRuns, timerRuns + 1}
  BY DEF TimerFires, TimerSyncs, TimerDone, TimerCloses
<1>1. /\ RunsOK /\ timer \in [Agent -> [Module -> Timers]] /\ cts \in [Agent -> [Module -> BOOLEAN]]
      /\ isRunning \in [Agent -> [Module -> BOOLEAN]] /\ timerRuns \in Nat
  BY DEF TriggerInv, Parts, RunsOK
<1>2. PICK s \in Timers, c \in BOOLEAN, r \in BOOLEAN :
        /\ timer' = Updated(timer, a, m, s) /\ cts' = Updated(cts, a, m, c)
        /\ isRunning' = Updated(isRunning, a, m, r)
        /\ timer[a][m] # "off" \/ ~isRunning[a][m]
        /\ s # "off" => c \/ (timer[a][m] # "off" /\ c = cts[a][m])
  <2>1. /\ cts = Updated(cts, a, m, cts[a][m]) /\ cts[a][m] \in BOOLEAN
        /\ isRunning = Updated(isRunning, a, m, isRunning[a][m]) /\ isRunning[a][m] \in BOOLEAN
    BY <1>1 DEF Updated
  <2>2. CASE TimerFires(a, m)
    <3>1. /\ timer' = Updated(timer, a, m, "preparing") /\ cts' = Updated(cts, a, m, TRUE)
          /\ isRunning' = Updated(isRunning, a, m, isRunning[a][m]) /\ ~isRunning[a][m]
      BY <2>1, <2>2 DEF TimerFires, TimerTo, Updated
    <3> QED BY <2>1, <3>1 DEF Timers
  <2>3. CASE TimerSyncs(a, m)
    <3>1. /\ timer' = Updated(timer, a, m, "running") /\ cts' = Updated(cts, a, m, cts[a][m])
          /\ isRunning' = Updated(isRunning, a, m, TRUE) /\ timer[a][m] # "off"
      BY <2>1, <2>3 DEF TimerSyncs, TimerTo, Updated
    <3> QED BY <2>1, <3>1 DEF Timers
  <2>4. CASE TimerDone(a, m)
    <3>1. /\ timer' = Updated(timer, a, m, "closing") /\ cts' = Updated(cts, a, m, cts[a][m])
          /\ isRunning' = Updated(isRunning, a, m, FALSE) /\ timer[a][m] # "off"
      BY <2>1, <2>4 DEF TimerDone, TimerTo, Updated
    <3> QED BY <2>1, <3>1 DEF Timers
  <2>5. CASE TimerCloses(a, m) /\ cts[a][m]
    <3>1. /\ timer' = Updated(timer, a, m, "off") /\ cts' = Updated(cts, a, m, FALSE)
          /\ isRunning' = Updated(isRunning, a, m, isRunning[a][m]) /\ timer[a][m] # "off"
      BY <2>1, <2>5 DEF TimerCloses, TimerTo, Updated
    <3> QED BY <2>1, <3>1 DEF Timers
  <2> QED BY <2>2, <2>3, <2>4, <2>5
<1>3. /\ timer' \in [Agent -> [Module -> Timers]] /\ timer'[a][m] = s
      /\ \A b \in Agent, n \in Module : b # a \/ n # m => timer'[b][n] = timer[b][n]
  BY <1>1, <1>2, TimerPut
<1>4. /\ cts' \in [Agent -> [Module -> BOOLEAN]] /\ (cts'[a][m] <=> c)
      /\ \A b \in Agent, n \in Module : b # a \/ n # m => cts'[b][n] = cts[b][n]
  BY <1>1, <1>2, CtsPut
<1>5. /\ isRunning' \in [Agent -> [Module -> BOOLEAN]]
      /\ \A b \in Agent, n \in Module : b # a \/ n # m => isRunning'[b][n] = isRunning[b][n]
  BY <1>1, <1>2, RunningPut
<1>6. RunsOK' /\ AgentsOK'
  BY <1>0, <1>1, <1>3, <1>4, <1>5 DEF RunsOK, TriggerInv, Parts, AgentsOK
<1>7. \A b \in Agent : Calm(b) /\ agent'[b] = agent[b]
  BY <1>0, SameCalm
<1>8. m \notin Diagnosed => Apart(a, m)'
  <2> SUFFICES ASSUME m \notin Diagnosed PROVE Apart(a, m)'
    OBVIOUS
  <2>1. Apart(a, m) /\ UNCHANGED <<row, agent>>
    BY <1>0 DEF TriggerInv, Exclusion
  <2>2. ~(At(a, "running") /\ Mod(a) = m)
    BY <1>2, <2>1 DEF Apart
  <2>3. timer'[a][m] # "off" => cts'[a][m]
    BY <1>2, <1>3, <1>4, <2>1 DEF Apart
  <2> QED BY <2>1, <2>2, <2>3 DEF Apart, At, Mod, Work
<1>9. Exclusion'
  BY <1>0, <1>3, <1>4, <1>5, <1>7, <1>8, OthersApart DEF Calm
<1> QED BY <1>0, <1>6, <1>7, <1>9, RunStep DEF Calm

\* The end of a process leaves nothing of its runs.
LEMMA DiesInv ==
  ASSUME TriggerInv, NEW a \in Agent, Dies(a), UNCHANGED <<row, due, timerRuns, begun, contested>>,
         Trouble \/ UNCHANGED troublesLeft
  PROVE  TriggerInv'
<1>1. /\ agent' = Put(agent, a, Idle) /\ timer' = Put(timer, a, [m \in Module |-> "off"])
      /\ cts' = Put(cts, a, [m \in Module |-> FALSE]) /\ isRunning' = Put(isRunning, a, [m \in Module |-> FALSE])
      /\ writes' = {IF w.agent = a THEN [w EXCEPT !.agent = None] ELSE w : w \in writes}
      /\ orphaned' = IF agent[a].list = <<>> THEN orphaned ELSE orphaned \cup {Work(a)}
  BY DEF Dies, Put
<1>2. AgentsOK' /\ agent'[a] = Idle /\ \A b \in Agent : b # a => agent'[b] = agent[b]
  <2>1. Idle \in AgentState
    BY DEF Idle, AgentState, Steps
  <2> QED BY <1>1, <2>1, AgentPut DEF TriggerInv
<1>3. RunsOK'
  BY <1>1 DEF Put, TriggerInv, Parts, RunsOK, Timers
<1>4. /\ \A m \in Module : timer'[a][m] = "off"
      /\ \A b \in Agent : b # a => timer'[b] = timer[b] /\ cts'[b] = cts[b] /\ isRunning'[b] = isRunning[b]
  BY <1>1 DEF Put, TriggerInv, Parts, RunsOK
<1>5. RowsOK' /\ RowsStay
  BY RowsSame, RowsSameStay DEF TriggerInv
<1>6. WritesOK'
  BY <1>1 DEF TriggerInv, Parts, WritesOK, Write
<1>7. PastOK'
  <2>1. orphaned' \subseteq Trigger
    <3>1. agent[a].list # <<>> => Work(a) \in Trigger
      BY AtAgent DEF TriggerInv, AgentState
    <3> QED BY <1>1, <3>1 DEF TriggerInv, Parts, PastOK
  <2> QED BY <2>1 DEF TriggerInv, Parts, PastOK, Trouble
<1>8. \A b \in Agent : Calm(b)
  <2>1. Calm(a)
    BY <1>2 DEF Idle, Calm, Follows, RunsOn, Shrinks, Past, Early
  <2> QED BY <1>2, <2>1, PassedOn
<1>9. Listing' /\ Claims'
  BY <1>2, <1>5, <1>8, ListingKept, ClaimsKept DEF TriggerInv, Calm
<1>10. Exclusion'
  <2> SUFFICES ASSUME NEW b \in Agent, NEW m \in Module \ Diagnosed PROVE Apart(b, m)'
    BY DEF Exclusion
  <2>1. CASE b = a
    BY <1>2, <1>4, <2>1 DEF Apart, At, Idle
  <2>2. CASE b # a
    <3>1. Apart(b, m) /\ RunsOn(b)
      BY <1>8 DEF TriggerInv, Exclusion, Calm
    <3> QED BY <1>4, <1>5, <2>2, <3>1, ApartKept DEF TriggerInv
  <2> QED BY <2>1, <2>2
<1> QED BY <1>2, <1>3, <1>5, <1>6, <1>7, <1>9, <1>10 DEF TriggerInv, Parts

-----------------------------------------------------------------------------
(* The theorems.                                                           *)

LEMMA TriggerNext == TriggerInv /\ [Next]_triggerVars => TriggerInv'
<1> SUFFICES ASSUME TriggerInv, [Next]_triggerVars PROVE TriggerInv'
  OBVIOUS
<1>1. CASE \/ \E t \in Trigger : (\E m \in Module : Create(t, m)) \/ BecomesDue(t) \/ Cancel(t)
           \/ \E w \in writes : Save(w)
  BY <1>1, BackendInv
<1>2. CASE \E a \in Agent : AgentStep(a) \/ ClaimLost(a) \/ ReportLost(a)
  BY <1>2, PollInv, ClaimInv, ReportsInv, TriggerNowInv, SyncInv DEF AgentStep
<1>3. CASE \E a \in Agent : Crash(a)
  BY <1>3, DiesInv DEF Crash
<1>4. CASE \E a \in Agent, m \in Module :
             \/ TimerFires(a, m) \/ TimerSyncs(a, m) \/ TimerDone(a, m) \/ TimerCloses(a, m)
  <2>1. PICK a \in Agent, m \in Module :
             \/ TimerFires(a, m) \/ TimerSyncs(a, m) \/ TimerDone(a, m) \/ TimerCloses(a, m)
    BY <1>4
  <2>2. CASE TimerCloses(a, m) /\ ~cts[a][m]
    BY <2>2, DiesInv DEF TimerCloses
  <2>3. CASE \/ TimerFires(a, m) \/ TimerSyncs(a, m) \/ TimerDone(a, m)
             \/ (TimerCloses(a, m) /\ cts[a][m])
    BY <2>3, TimerInv
  <2> QED BY <2>1, <2>2, <2>3
<1>5. CASE UNCHANGED triggerVars
  <2>1. UNCHANGED <<row, due, writes, agent, troublesLeft, orphaned, contested, timer, cts, isRunning, timerRuns, begun>>
    BY <1>5 DEF triggerVars, agentVars
  <2>2. RowsOK' /\ RowsStay /\ WritesOK' /\ AgentsOK' /\ PastOK' /\ \A a \in Agent : Calm(a)
    BY <2>1, RowsSame, RowsSameStay, SameCalm DEF TriggerInv, Parts, WritesOK, AgentsOK, PastOK
  <2> QED BY <2>1, <2>2, CalmStep
<1> QED BY <1>1, <1>2, <1>3, <1>4, <1>5 DEF Next

LEMMA InitInv == Init => TriggerInv
<1> SUFFICES ASSUME Init PROVE TriggerInv
  OBVIOUS
<1>1. \A t \in Trigger : row[t].status = "none" /\ row[t].module \in Module
  BY TriggerAssumption DEF Init
<1>2. RowsOK
  <2>1. row \in [Trigger -> RowState]
    BY TriggerAssumption DEF Init, RowState
  <2> QED BY <1>1, <2>1 DEF RowsOK, OneActive, Status, Active
<1>3. AgentsOK /\ \A a \in Agent : agent[a].pc = "idle" /\ agent[a].list = <<>>
  BY DEF Init, AgentsOK, AgentState, Idle, Steps
<1>4. WritesOK /\ RunsOK /\ PastOK
  BY TriggerAssumption DEF Init, WritesOK, RunsOK, PastOK, Timers
<1>5. Listing
  BY <1>3 DEF Listing
<1>6. Claims
  <2>1. \A t \in Trigger : begun[t] = 0
    BY DEF Init
  <2>2. \A t \in Trigger, a \in Agent : ~Holds(a, t)
    BY <1>3 DEF Holds, Past, Early
  <2> QED BY <2>1, <2>2 DEF Claims, ClaimOnce
<1>7. Exclusion
  BY <1>3 DEF Exclusion, Apart, At, Init
<1> QED BY <1>2, <1>3, <1>4, <1>5, <1>6, <1>7 DEF TriggerInv, Parts

LEMMA TriggerAlways == Spec => []TriggerInv
<1>1. Init => TriggerInv
  BY InitInv
<1>2. TriggerInv /\ [Next]_triggerVars => TriggerInv'
  BY TriggerNext
<1> QED BY <1>1, <1>2, PTL DEF Spec

\* Types; and of a module one trigger is active, whatever save arrives after whichever cancel or
\* report (ux_sync_triggers_active_tenant_module).
THEOREM TypeCorrect == Spec => []TypeOK
<1>1. TriggerInv => TypeOK
  BY TypeParts DEF TriggerInv
<1> QED BY <1>1, TriggerAlways, PTL

\* A trigger is begun once at most, unless an agent was told "claimed" of one that was not pending
\* any more (claimEngineTrigger, PollForTriggersAsync).
THEOREM BegunOnce == Spec => []WorkedOnce
<1>1. TriggerInv => WorkedOnce
  BY DEF TriggerInv, Claims, ClaimOnce, WorkedOnce
<1> QED BY <1>1, TriggerAlways, PTL

\* A timer and a trigger do not run a module at the same time, one without diagnostics
\* (ScheduleModule, TriggerNowAsync).
THEOREM RunsAreApart == Spec => []OneRunPerModule
<1>1. TriggerInv => OneRunPerModule
  BY DEF TriggerInv, Exclusion, Apart, OneRunPerModule
<1> QED BY <1>1, TriggerAlways, PTL

=============================================================================
