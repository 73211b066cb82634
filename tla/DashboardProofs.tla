--------------------------- MODULE DashboardProofs ---------------------------
(***************************************************************************)
(* Proofs about what the dashboard shows: the answers of ReadModel, for    *)
(* any tenants and views, any number of runs and of failing statements and *)
(* Redis calls; and the windows of days of Period, for every calendar.     *)
(***************************************************************************)
EXTENDS ReadModel, Period, TLAPS

-----------------------------------------------------------------------------
(* The read models: the types in parts.                                    *)

JobState  == [pc : {"rest", "ask", "refresh", "unlock", "invalidate"}, todo : Seq(Views)]
TaskState == [pc : {"none", "computing", "computed"}, answer : Answers]

\* The parts of TypeOK.
DataOK == /\ data \in [Tenant -> Nat] /\ settled \in [Tenant -> Nat]
          /\ view \in [Views -> [Tenant -> Nat]]
          /\ \A v \in Views, t \in Tenant : view[v][t] <= data[t]
JobsOK == /\ lock \in Refresher \cup {Nobody} /\ kept \in BOOLEAN /\ backoff \in BOOLEAN
          /\ job \in [Refresher -> JobState]
          /\ \A r \in Refresher : lock = r <=> job[r].pc \in {"refresh", "unlock"}
AnswersOK == /\ cache \in [Scope -> [Kind -> Answers]]
             /\ task \in [Scope -> [Kind -> TaskState]]
             /\ troublesLeft \in Nat

LEMMA TypeParts == TypeOK <=> DataOK /\ JobsOK /\ AnswersOK
BY DEF TypeOK, DataOK, JobsOK, AnswersOK, JobState, TaskState

LEMMA TypePartsNext == TypeOK' <=> DataOK' /\ JobsOK' /\ AnswersOK'
BY DEF TypeOK, DataOK, JobsOK, AnswersOK, JobState, TaskState

LEMMA Constants ==
  /\ NoAnswer \in Answers /\ NoTask \in TaskState /\ Resting \in JobState
  /\ View \in Seq(Views) /\ "customers" \in Kind
  /\ Nobody \notin Refresher /\ timer \in Refresher /\ Tenant \subseteq Refresher
BY ReadModelAssumption
   DEF NoAnswer, Answers, NoTask, TaskState, Resting, JobState, Views, Kind, Refresher

-----------------------------------------------------------------------------
(* The steps of a refresh.                                                 *)

\* A refresher goes on, and takes or gives back the lock if it has to.
LEMMA JobMoves ==
  ASSUME JobsOK, NEW r \in Refresher, NEW next \in JobState,
         job' = [job EXCEPT ![r] = next], backoff' \in BOOLEAN, kept' \in BOOLEAN,
         IF next.pc \in {"refresh", "unlock"} THEN lock' = r /\ lock \in {r, Nobody}
         ELSE lock' = IF lock = r THEN Nobody ELSE lock
  PROVE  JobsOK'
<1>1. /\ job' \in [Refresher -> JobState] /\ job'[r] = next
      /\ \A q \in Refresher : q # r => job'[q] = job[q]
  BY DEF JobsOK
<1>2. lock' \in Refresher \cup {Nobody}
  BY DEF JobsOK
<1>3. ASSUME NEW q \in Refresher PROVE lock' = q <=> job'[q].pc \in {"refresh", "unlock"}
  BY <1>1, Constants DEF JobsOK
<1> QED BY <1>1, <1>2, <1>3 DEF JobsOK

LEMMA JobStepOK ==
  ASSUME TypeOK, NEW r \in Refresher, JobStep(r)
  PROVE  TypeOK'
<1> USE Constants
<1>1. DataOK /\ JobsOK /\ AnswersOK /\ job[r] \in JobState /\ (lock = r <=> job[r].pc \in {"refresh", "unlock"})
  BY TypeParts DEF JobsOK
<1>2. Behind(r) \in {"rest", "invalidate"}
  BY DEF Behind
<1>3. ASSUME NEW pc \in {"rest", "ask", "refresh", "unlock", "invalidate"}
      PROVE  /\ [job[r] EXCEPT !.pc = pc] \in JobState
             /\ [job[r] EXCEPT !.pc = pc].pc = pc
             /\ [job EXCEPT ![r].pc = pc] = [job EXCEPT ![r] = [job[r] EXCEPT !.pc = pc]]
  BY <1>1 DEF JobState, JobsOK
<1>4. ASSUME NEW pc \in {"rest", "ask", "refresh", "unlock", "invalidate"}
      PROVE  [pc |-> pc, todo |-> <<>>] \in JobState
  BY DEF JobState
<1>5. CASE Skip(r)
  <2>1. JobsOK'
    BY <1>1, <1>2, <1>4, <1>5, JobMoves DEF Skip, At, JobsOK
  <2> QED BY <1>1, <1>5, <2>1, TypePartsNext DEF Skip, DataOK, AnswersOK
<1>6. CASE TryLock(r)
  <2>1. JobsOK'
    BY <1>1, <1>3, <1>6, JobMoves DEF TryLock, To, JobsOK
  <2> QED BY <1>1, <1>6, <2>1, TypePartsNext DEF TryLock, DataOK, AnswersOK
<1>7. CASE Refresh(r)
  <2>1. /\ lock = r /\ lock' = lock /\ kept' = kept /\ backoff' = backoff
        /\ job[r].todo \in Seq(Views) /\ job[r].todo # <<>>
    BY <1>1, <1>7 DEF Refresh, At, JobState
  <2>2. PICK todo \in {<<>>, Tail(job[r].todo)} : job' = [job EXCEPT ![r].todo = todo]
    BY <1>1, <1>7 DEF Refresh, JobsOK, JobState
  <2>3. todo \in Seq(Views)
    <3>1. Tail(job[r].todo) \in Seq(Views)
      BY <2>1
    <3>2. <<>> \in Seq(Views)
      OBVIOUS
    <3> QED BY <2>2, <3>1, <3>2
  <2>4. /\ [job[r] EXCEPT !.todo = todo] \in JobState
        /\ [job[r] EXCEPT !.todo = todo].pc = "refresh"
        /\ job' = [job EXCEPT ![r] = [job[r] EXCEPT !.todo = todo]]
    BY <1>1, <1>7, <2>2, <2>3 DEF JobState, JobsOK, Refresh, At
  <2>5. JobsOK'
    BY <1>1, <2>1, <2>4, JobMoves DEF JobsOK
  <2>6. DataOK'
    <3>1. PICK now : view' = [v \in Views |-> IF v \in now THEN data ELSE view[v]]
      BY <1>7 DEF Refresh
    <3> QED BY <1>1, <1>7, <3>1 DEF Refresh, DataOK
  <2> QED BY <1>1, <1>7, <2>5, <2>6, TypePartsNext DEF Refresh, AnswersOK
<1>8. CASE RefreshFails(r)
  <2>1. JobsOK'
    BY <1>1, <1>4, <1>8, JobMoves DEF RefreshFails, At, JobsOK
  <2> QED BY <1>1, <1>8, <2>1, TypePartsNext DEF RefreshFails, Trouble, DataOK, AnswersOK
<1>9. CASE Refreshed(r)
  <2>1. JobsOK'
    BY <1>1, <1>3, <1>9, JobMoves DEF Refreshed, At, To, JobsOK
  <2> QED BY <1>1, <1>9, <2>1, TypePartsNext DEF Refreshed, DataOK, AnswersOK
<1>10. CASE Unlock(r)
  <2>1. JobsOK'
    BY <1>1, <1>2, <1>3, <1>10, JobMoves DEF Unlock, At, To, JobsOK
  <2> QED BY <1>1, <1>10, <2>1, TypePartsNext DEF Unlock, DataOK, AnswersOK
<1>11. CASE ConnectFails(r)
  <2>1. JobsOK'
    BY <1>1, <1>2, <1>4, <1>11, JobMoves DEF ConnectFails, At, JobsOK
  <2> QED BY <1>1, <1>11, <2>1, TypePartsNext DEF ConnectFails, Trouble, DataOK, AnswersOK
<1>12. CASE UnlockFails(r)
  <2>1. JobsOK'
    BY <1>1, <1>2, <1>3, <1>12, JobMoves DEF UnlockFails, At, To, JobsOK
  <2> QED BY <1>1, <1>12, <2>1, TypePartsNext DEF UnlockFails, Trouble, DataOK, AnswersOK
<1> QED BY <1>5, <1>6, <1>7, <1>8, <1>9, <1>10, <1>11, <1>12 DEF JobStep

-----------------------------------------------------------------------------
(* The other steps.                                                        *)

\* A run of tenant t begins or ends.
LEMMA RunStepOK ==
  ASSUME TypeOK, NEW t \in Tenant, Commit(t) \/ RunEndStep(t)
  PROVE  TypeOK'
<1> USE Constants
<1>1. /\ DataOK /\ JobsOK /\ AnswersOK /\ t \in Refresher
      /\ lock = t <=> job[t].pc \in {"refresh", "unlock"}
  BY TypeParts DEF JobsOK
<1>2. [pc |-> "ask", todo |-> View] \in JobState
  BY DEF JobState
<1>3. CASE Commit(t)
  <2>1. JobsOK'
    BY <1>1, <1>2, <1>3, JobMoves DEF Commit, At, JobsOK
  <2>2. DataOK'
    <3>1. data' \in [Tenant -> Nat] /\ \A u \in Tenant : data[u] <= data'[u]
      <4>1. data' = [data EXCEPT ![t] = @ + 1] /\ data \in [Tenant -> Nat]
        BY <1>1, <1>3 DEF Commit, DataOK
      <4>2. data[t] \in Nat /\ data[t] + 1 \in Nat /\ data[t] <= data[t] + 1
        BY <4>1
      <4> QED BY <4>1, <4>2
    <3>2. view' = view /\ settled' = settled
      BY <1>3 DEF Commit
    <3>3. ASSUME NEW v \in Views, NEW u \in Tenant PROVE view'[v][u] <= data'[u]
      <4>1. view[v][u] \in Nat /\ data[u] \in Nat /\ data'[u] \in Nat /\ view[v][u] <= data[u]
        BY <1>1, <3>1 DEF DataOK
      <4> QED BY <3>1, <3>2, <4>1
    <3> QED BY <1>1, <3>1, <3>2, <3>3 DEF DataOK
  <2> QED BY <1>1, <1>3, <2>1, <2>2, TypePartsNext DEF Commit, AnswersOK
<1>4. CASE Invalidate(t)
  <2>1. JobsOK'
    BY <1>1, <1>4, JobMoves DEF Invalidate, At, JobsOK, Resting
  <2>2. DataOK'
    BY <1>1, <1>4 DEF Invalidate, DataOK
  <2>3. cache' \in [Scope -> [Kind -> Answers]]
    BY <1>1, <1>4 DEF Invalidate, AnswersOK
  <2>4. task' \in [Scope -> [Kind -> TaskState]]
    <3>1. ASSUME NEW x \in TaskState PROVE [x EXCEPT !.answer.late = TRUE] \in TaskState
      <4>1. x.answer \in Answers /\ [x.answer EXCEPT !.late = TRUE] \in Answers
        BY DEF TaskState, Answers
      <4>2. [x EXCEPT !.answer.late = TRUE] = [x EXCEPT !.answer = [x.answer EXCEPT !.late = TRUE]]
        BY DEF TaskState
      <4> QED BY <4>1, <4>2 DEF TaskState
    <3>2. \A s \in Scope, k \in Kind : task[s][k] \in TaskState
      BY <1>1 DEF AnswersOK
    <3>3. \A s \in Scope, k \in Kind : Overtaken(s, k) \in TaskState
      BY <3>1, <3>2 DEF Overtaken
    <3> QED BY <1>4, <3>2, <3>3 DEF Invalidate
  <2>5. AnswersOK'
    BY <1>1, <1>4, <2>3, <2>4 DEF Invalidate, AnswersOK
  <2> QED BY <2>1, <2>2, <2>5, TypePartsNext
<1>5. CASE InvalidateFails(t)
  <2>1. JobsOK'
    BY <1>1, <1>5, JobMoves DEF InvalidateFails, At, JobsOK, Resting
  <2> QED BY <1>1, <1>5, <2>1, TypePartsNext DEF InvalidateFails, Trouble, DataOK, AnswersOK
<1> QED BY <1>3, <1>4, <1>5 DEF RunEndStep

LEMMA TimerStepOK ==
  ASSUME TypeOK, TimerFires \/ BackoffEnds \/ PoolCloses
  PROVE  TypeOK'
<1> USE Constants
<1>1. /\ DataOK /\ JobsOK /\ AnswersOK
      /\ lock = timer <=> job[timer].pc \in {"refresh", "unlock"}
  BY TypeParts DEF JobsOK
<1>2. [pc |-> "ask", todo |-> View] \in JobState
  BY DEF JobState
<1>3. CASE TimerFires
  <2>1. JobsOK'
    BY <1>1, <1>2, <1>3, JobMoves DEF TimerFires, At, JobsOK
  <2> QED BY <1>1, <1>3, <2>1, TypePartsNext DEF TimerFires, DataOK, AnswersOK
<1>4. CASE BackoffEnds
  BY <1>1, <1>4, TypePartsNext DEF BackoffEnds, DataOK, JobsOK, AnswersOK
<1>5. CASE PoolCloses
  BY <1>1, <1>5, TypePartsNext DEF PoolCloses, DataOK, JobsOK, AnswersOK
<1> QED BY <1>3, <1>4, <1>5

\* A request, its computation and the life of its answer: each puts something in one place of
\* a table.
RequestStep(s, k) == Miss(s, k) \/ TaskStep(s, k) \/ Expire(s, k)
Updated(table, s, k, x) == [table EXCEPT ![s][k] = x]

LEMMA UpdatedOK ==
  ASSUME NEW X, NEW f \in [Scope -> [Kind -> X]], NEW s \in Scope, NEW k \in Kind, NEW x \in X
  PROVE  Updated(f, s, k, x) \in [Scope -> [Kind -> X]]
<1> DEFINE line == [f[s] EXCEPT ![k] = x]
<1>1. Updated(f, s, k, x) = [f EXCEPT ![s] = line]
  BY DEF Updated
<1>2. line \in [Kind -> X]
  OBVIOUS
<1> HIDE DEF line
<1> QED BY <1>1, <1>2

LEMMA UpdatedAt ==
  ASSUME NEW X, NEW f \in [Scope -> [Kind -> X]], NEW s \in Scope, NEW k \in Kind, NEW x \in X,
         NEW u \in Scope, NEW j \in Kind
  PROVE  /\ u = s /\ j = k => Updated(f, s, k, x)[u][j] = x
         /\ u # s \/ j # k => Updated(f, s, k, x)[u][j] = f[u][j]
<1> DEFINE line == [f[s] EXCEPT ![k] = x]
<1>1. Updated(f, s, k, x) = [f EXCEPT ![s] = line]
  BY DEF Updated
<1>2. line[j] = IF j = k THEN x ELSE f[s][j]
  OBVIOUS
<1> HIDE DEF line
<1>3. Updated(f, s, k, x)[u] = IF u = s THEN line ELSE f[u]
  BY <1>1
<1> QED BY <1>2, <1>3

\* What a request step puts: an answer that was computed or none; a task that is over, one that
\* computes, or what it has seen.
PutsAnswer(s, k, a) == a \in {cache[s][k], NoAnswer} \/ (task[s][k].pc = "computed" /\ a = task[s][k].answer)
PutsTask(s, k, x) ==
  \/ x.pc # "computed" \/ x = task[s][k]
  \/ \E n \in Seen(s, k) : x = [pc |-> "computed", answer |-> [ver |-> n, late |-> FALSE]]

LEMMA RequestPuts ==
  ASSUME TypeOK, NEW s \in Scope, NEW k \in Kind, RequestStep(s, k)
  PROVE  /\ \E a \in Answers : cache' = Updated(cache, s, k, a) /\ PutsAnswer(s, k, a)
         /\ \E x \in TaskState : task' = Updated(task, s, k, x) /\ PutsTask(s, k, x)
         /\ troublesLeft' \in Nat /\ UNCHANGED <<data, view, lock, kept, backoff, job, settled>>
<1> USE Constants
<1>1. DataOK /\ AnswersOK /\ cache[s][k] \in Answers /\ task[s][k] \in TaskState
  BY TypeParts DEF AnswersOK
<1>2. \A n \in Seen(s, k) : [pc |-> "computed", answer |-> [ver |-> n, late |-> FALSE]] \in TaskState
  <2>1. ASSUME NEW f \in [Tenant -> Nat]
        PROVE  [t \in Tenant |-> IF t \in s THEN f[t] ELSE 0] \in [Tenant -> Nat \cup {-1}]
    OBVIOUS
  <2>2. data \in [Tenant -> Nat] /\ \A v \in Views : view[v] \in [Tenant -> Nat]
    BY <1>1 DEF DataOK
  <2>3. \A n \in Seen(s, k) : n \in [Tenant -> Nat \cup {-1}]
    BY <2>1, <2>2 DEF Seen
  <2> QED BY <2>3 DEF TaskState, Answers
<1>3. cache' = cache => cache' = Updated(cache, s, k, cache[s][k]) /\ PutsAnswer(s, k, cache[s][k])
  <2>1. Updated(cache, s, k, cache[s][k]) = cache
    BY <1>1 DEF Updated, AnswersOK
  <2> QED BY <2>1 DEF PutsAnswer
<1>4. task' = task => task' = Updated(task, s, k, task[s][k]) /\ PutsTask(s, k, task[s][k])
  <2>1. Updated(task, s, k, task[s][k]) = task
    BY <1>1 DEF Updated, AnswersOK
  <2> QED BY <2>1 DEF PutsTask
<1>5. CASE Miss(s, k)
  <2> DEFINE x == [NoTask EXCEPT !.pc = "computing"]
  <2>1. x \in TaskState /\ x.pc # "computed"
    BY DEF TaskState, NoTask
  <2>2. task' = Updated(task, s, k, x) /\ PutsTask(s, k, x)
    BY <1>5, <2>1 DEF Miss, Put, Updated, PutsTask
  <2> QED BY <1>1, <1>3, <1>5, <2>1, <2>2 DEF Miss, AnswersOK
<1>6. CASE Compute(s, k)
  <2>1. PICK n \in Seen(s, k) : Put(s, k, [pc |-> "computed", answer |-> [ver |-> n, late |-> FALSE]])
    BY <1>6 DEF Compute
  <2> DEFINE x == [pc |-> "computed", answer |-> [ver |-> n, late |-> FALSE]]
  <2>2. x \in TaskState /\ task' = Updated(task, s, k, x) /\ PutsTask(s, k, x)
    BY <1>2, <2>1 DEF Put, Updated, PutsTask
  <2> QED BY <1>1, <1>3, <1>6, <2>2 DEF Compute, AnswersOK
<1>7. CASE ComputeFails(s, k)
  <2>1. task' = Updated(task, s, k, NoTask) /\ PutsTask(s, k, NoTask)
    BY <1>7 DEF ComputeFails, Put, Updated, PutsTask, NoTask
  <2> QED BY <1>1, <1>3, <1>7, <2>1 DEF ComputeFails, Trouble, AnswersOK
<1>8. CASE Store(s, k)
  <2>1. task' = Updated(task, s, k, NoTask) /\ PutsTask(s, k, NoTask)
    BY <1>8 DEF Store, Put, Updated, PutsTask, NoTask
  <2>2. /\ task[s][k].answer \in Answers /\ PutsAnswer(s, k, task[s][k].answer)
        /\ cache' = Updated(cache, s, k, task[s][k].answer)
    BY <1>1, <1>8 DEF Store, Updated, PutsAnswer, TaskState
  <2> QED BY <1>1, <1>8, <2>1, <2>2 DEF Store, AnswersOK
<1>9. CASE Expire(s, k)
  <2>1. cache' = Updated(cache, s, k, NoAnswer) /\ PutsAnswer(s, k, NoAnswer)
    BY <1>9 DEF Expire, Updated, PutsAnswer
  <2> QED BY <1>1, <1>4, <1>9, <2>1 DEF Expire, AnswersOK
<1> QED BY <1>5, <1>6, <1>7, <1>8, <1>9 DEF RequestStep, TaskStep

LEMMA RequestStepOK ==
  ASSUME TypeOK, NEW s \in Scope, NEW k \in Kind, RequestStep(s, k)
  PROVE  TypeOK'
<1>1. DataOK /\ JobsOK /\ AnswersOK
  BY TypeParts
<1>2. UNCHANGED <<data, view, lock, kept, backoff, job, settled>> /\ troublesLeft' \in Nat
  BY RequestPuts
<1>3. cache' \in [Scope -> [Kind -> Answers]] /\ task' \in [Scope -> [Kind -> TaskState]]
  <2>1. PICK a \in Answers : cache' = Updated(cache, s, k, a)
    BY RequestPuts
  <2>2. PICK x \in TaskState : task' = Updated(task, s, k, x)
    BY RequestPuts
  <2>3. cache' \in [Scope -> [Kind -> Answers]]
    BY <1>1, <2>1, UpdatedOK DEF AnswersOK
  <2>4. task' \in [Scope -> [Kind -> TaskState]]
    BY <1>1, <2>2, UpdatedOK DEF AnswersOK
  <2> QED BY <2>3, <2>4
<1> QED BY <1>1, <1>2, <1>3, TypePartsNext DEF DataOK, JobsOK, AnswersOK

\* A step is one of those above.
LEMMA NextCases ==
  Next => \/ TimerFires \/ BackoffEnds \/ PoolCloses
          \/ \E r \in Refresher : JobStep(r)
          \/ \E t \in Tenant : Commit(t) \/ RunEndStep(t)
          \/ \E s \in Scope, k \in Kind : RequestStep(s, k)
BY DEF Next, RequestStep

-----------------------------------------------------------------------------
(* The theorems about the read models.                                     *)

LEMMA TypeInit == Init => TypeOK
<1> SUFFICES ASSUME Init PROVE TypeOK
  OBVIOUS
<1> USE Constants DEF Init
<1>1. DataOK
  BY DEF DataOK
<1>2. JobsOK
  BY DEF JobsOK, Resting
<1>3. AnswersOK
  BY ReadModelAssumption DEF AnswersOK
<1> QED BY <1>1, <1>2, <1>3, TypeParts

LEMMA TypeNext == TypeOK /\ [Next]_readVars => TypeOK'
<1> SUFFICES ASSUME TypeOK, [Next]_readVars PROVE TypeOK'
  OBVIOUS
<1>1. CASE Next
  BY <1>1, NextCases, TimerStepOK, JobStepOK, RunStepOK, RequestStepOK
<1>2. CASE UNCHANGED readVars
  BY <1>2, TypeParts, TypePartsNext DEF readVars, DataOK, JobsOK, AnswersOK
<1> QED BY <1>1, <1>2

\* The answers about the customers of one company, stored or on their way, are of its last
\* invalidated run or later.
TasksFresh == \A t \in Tenant : {t} \in Scope =>
  LET x == task[{t}]["customers"] IN x.pc = "computed" => NotOlder(x.answer, t)
IInv == TypeOK /\ CustomersFresh /\ TasksFresh /\ \A t \in Tenant : settled[t] <= data[t]

LEMMA FreshInit == Init => IInv
<1> SUFFICES ASSUME Init PROVE IInv
  OBVIOUS
<1>1. TypeOK /\ "customers" \in Kind
  BY TypeInit, Constants
<1>2. \A t \in Tenant : settled[t] <= data[t]
  BY DEF Init
<1>3. CustomersFresh
  BY <1>1 DEF Init, CustomersFresh, NotOlder
<1>4. TasksFresh
  BY <1>1 DEF Init, TasksFresh, NoTask
<1> QED BY <1>1, <1>2, <1>3, <1>4 DEF IInv

\* Steps that change none of the answers, and take no run back.
LEMMA FreshAside ==
  ASSUME IInv, TypeOK', UNCHANGED <<cache, task, settled>>, \A t \in Tenant : data[t] <= data'[t]
  PROVE  IInv'
<1>1. \A t \in Tenant : settled[t] \in Nat /\ data[t] \in Nat /\ data'[t] \in Nat
  BY DEF IInv, TypeOK
<1>2. CustomersFresh' /\ TasksFresh'
  BY DEF IInv, CustomersFresh, TasksFresh, NotOlder
<1> QED BY <1>1, <1>2 DEF IInv

LEMMA FreshCommit ==
  ASSUME IInv, TypeOK', NEW t \in Tenant, Commit(t)
  PROVE  IInv'
<1>1. data' = [data EXCEPT ![t] = @ + 1] /\ data \in [Tenant -> Nat] /\ UNCHANGED <<cache, task, settled>>
  BY DEF Commit, IInv, TypeOK
<1>2. data[t] \in Nat /\ data[t] <= data[t] + 1
  BY <1>1
<1>3. \A u \in Tenant : data[u] \in Nat /\ data[u] <= data'[u]
  BY <1>1, <1>2
<1> QED BY <1>1, <1>3, FreshAside

\* The invalidation takes the stored answers away and overtakes the ones on their way.
LEMMA FreshInvalidate ==
  ASSUME IInv, TypeOK', NEW t \in Tenant, Invalidate(t)
  PROVE  IInv'
<1>1. /\ cache \in [Scope -> [Kind -> Answers]] /\ task \in [Scope -> [Kind -> TaskState]]
      /\ settled \in [Tenant -> Nat] /\ data \in [Tenant -> Nat] /\ "customers" \in Kind
  BY Constants DEF IInv, TypeOK, TaskState
<1>2. settled' = [settled EXCEPT ![t] = data[t]] /\ data' = data
  BY DEF Invalidate
<1>3. ASSUME {t} \in Scope
      PROVE  /\ cache'[{t}]["customers"] = NoAnswer
             /\ task'[{t}]["customers"].pc = "computed" => task'[{t}]["customers"].answer.late
  <2>1. cache'[{t}]["customers"] = NoAnswer
    BY <1>1, <1>3 DEF Invalidate, Matched
  <2>2. task'[{t}]["customers"] = Overtaken({t}, "customers")
    BY <1>1, <1>3 DEF Invalidate
  <2>3. task[{t}]["customers"] \in TaskState
    BY <1>1, <1>3
  <2>4. ASSUME NEW x \in TaskState
        PROVE  [x EXCEPT !.answer.late = TRUE].answer.late
    BY DEF TaskState, Answers
  <2> QED BY <2>1, <2>2, <2>3, <2>4 DEF Overtaken
<1>4. ASSUME NEW u \in Tenant, u # t, {u} \in Scope
      PROVE  /\ cache'[{u}]["customers"] = cache[{u}]["customers"] /\ settled'[u] = settled[u]
             /\ task'[{u}]["customers"] = task[{u}]["customers"]
  <2>1. {u} # {t} /\ t \notin {u}
    BY <1>4
  <2>2. <<{u}, "customers">> \notin Matched(t)
    BY <2>1 DEF Matched
  <2> QED BY <1>1, <1>2, <1>4, <2>1, <2>2 DEF Invalidate
<1>5. \A u \in Tenant : settled'[u] <= data'[u]
  BY <1>1, <1>2 DEF IInv
<1>6. CustomersFresh'
  BY <1>3, <1>4 DEF IInv, CustomersFresh, NotOlder
<1>7. TasksFresh'
  BY <1>3, <1>4 DEF IInv, TasksFresh, NotOlder
<1> QED BY <1>5, <1>6, <1>7 DEF IInv

\* What a request stores or sees of one company's customers.
LEMMA FreshRequest ==
  ASSUME IInv, TypeOK', NEW s \in Scope, NEW k \in Kind, RequestStep(s, k)
  PROVE  IInv'
<1>1. /\ cache \in [Scope -> [Kind -> Answers]] /\ task \in [Scope -> [Kind -> TaskState]]
      /\ settled' = settled /\ data' = data /\ "customers" \in Kind
  BY Constants, RequestPuts DEF IInv, TypeOK, TaskState
<1>2. PICK a \in Answers : cache' = Updated(cache, s, k, a) /\ PutsAnswer(s, k, a)
  BY RequestPuts DEF IInv
<1>3. PICK x \in TaskState : task' = Updated(task, s, k, x) /\ PutsTask(s, k, x)
  BY RequestPuts DEF IInv
<1>4. \A u \in Scope, j \in Kind : cache'[u][j] = IF u = s /\ j = k THEN a ELSE cache[u][j]
  <2>1. cache \in [Scope -> [Kind -> Answers]] /\ a \in Answers
    BY <1>1, <1>2
  <2>2. ASSUME NEW u \in Scope, NEW j \in Kind
        PROVE  /\ u = s /\ j = k => Updated(cache, s, k, a)[u][j] = a
               /\ u # s \/ j # k => Updated(cache, s, k, a)[u][j] = cache[u][j]
    BY <2>1, UpdatedAt
  <2> QED BY <2>2, <1>2
<1>5. \A u \in Scope, j \in Kind : task'[u][j] = IF u = s /\ j = k THEN x ELSE task[u][j]
  <2>1. task \in [Scope -> [Kind -> TaskState]] /\ x \in TaskState
    BY <1>1, <1>3
  <2>2. ASSUME NEW u \in Scope, NEW j \in Kind
        PROVE  /\ u = s /\ j = k => Updated(task, s, k, x)[u][j] = x
               /\ u # s \/ j # k => Updated(task, s, k, x)[u][j] = task[u][j]
    BY <2>1, UpdatedAt
  <2> QED BY <2>2, <1>3
<1>6. ASSUME NEW t \in Tenant, s = {t}, k = "customers" PROVE NotOlder(a, t)
  BY <1>2, <1>6 DEF PutsAnswer, IInv, CustomersFresh, TasksFresh, NotOlder
<1>7. ASSUME NEW t \in Tenant, s = {t}, k = "customers", x.pc = "computed" PROVE NotOlder(x.answer, t)
  <2>1. CASE x = task[s][k]
    BY <1>7, <2>1 DEF IInv, TasksFresh
  <2>2. CASE x # task[s][k]
    <3>1. PICK n \in Seen(s, k) : x = [pc |-> "computed", answer |-> [ver |-> n, late |-> FALSE]]
      BY <1>3, <1>7, <2>2 DEF PutsTask
    <3>2. n[t] = data[t]
      BY <1>7 DEF Seen
    <3> QED BY <3>1, <3>2 DEF NotOlder, IInv
  <2> QED BY <2>1, <2>2
<1>8. CustomersFresh'
  BY <1>1, <1>4, <1>6 DEF IInv, CustomersFresh, NotOlder
<1>9. TasksFresh'
  BY <1>1, <1>5, <1>7 DEF IInv, TasksFresh, NotOlder
<1> QED BY <1>1, <1>8, <1>9 DEF IInv

LEMMA FreshNext == IInv /\ [Next]_readVars => IInv'
<1> SUFFICES ASSUME IInv, [Next]_readVars PROVE IInv'
  OBVIOUS
<1>1. TypeOK'
  BY TypeNext DEF IInv
<1>2. \A u \in Tenant : data[u] \in Nat
  BY DEF IInv, TypeOK
<1>3. CASE UNCHANGED <<data, cache, task, settled>>
  BY <1>1, <1>2, <1>3, FreshAside
<1>4. TimerFires \/ BackoffEnds \/ PoolCloses => UNCHANGED <<data, cache, task, settled>>
  BY DEF TimerFires, BackoffEnds, PoolCloses
<1>5. ASSUME NEW r \in Refresher, JobStep(r) PROVE UNCHANGED <<data, cache, task, settled>>
  BY <1>5 DEF JobStep, Skip, TryLock, ConnectFails, Refresh, RefreshFails, Refreshed, Unlock, UnlockFails
<1>6. ASSUME NEW t \in Tenant, RunEndStep(t) PROVE IInv'
  <2>1. InvalidateFails(t) => UNCHANGED <<data, cache, task, settled>>
    BY DEF InvalidateFails
  <2> QED BY <1>1, <1>3, <1>6, <2>1, FreshInvalidate DEF RunEndStep
<1>7. CASE Next
  BY <1>1, <1>3, <1>4, <1>5, <1>6, <1>7, NextCases, FreshCommit, FreshRequest
<1>8. CASE UNCHANGED readVars
  BY <1>3, <1>8 DEF readVars
<1> QED BY <1>7, <1>8

\* What a dashboard is told of one company's customers (CustomersService, CacheService.getOrSet) is
\* never older than the company's last run whose invalidation went through (IngestService.processIngest), but for an answer overtaken by it.
THEOREM CustomersStayFresh == Spec => []CustomersFresh
<1>1. Spec => []IInv
  BY FreshInit, FreshNext, PTL DEF Spec
<1> QED BY <1>1, PTL DEF IInv

\* The state of the read models is of the declared types, and the advisory lock is with the
\* refresher that refreshes (MatviewRefreshCoordinator.refresh): nobody keeps it.
THEOREM TypeCorrect == Spec => []TypeOK
BY TypeInit, TypeNext, PTL DEF Spec

-----------------------------------------------------------------------------
(* The windows of days: the calendar.                                      *)

LEMMA MonthsInOrder ==
  ASSUME Calendar, NEW i \in Int, NEW j \in Int
  PROVE  /\ MonthStart[i] \in Int
         /\ i <= j => MonthStart[i] <= MonthStart[j]
         /\ i < j => MonthStart[i] < MonthStart[j]
BY DEF Calendar

LEMMA YearFollows ==
  ASSUME Calendar, NEW m \in Int
  PROVE  MonthStart[m + 12] - MonthStart[m] \in {365, 366}
BY DEF Calendar

\* The quarter and the year of a month begin before it does.
LEMMA StartsOfMonth ==
  ASSUME Calendar, NEW m \in Int
  PROVE  /\ QuarterOf(m) \in Int /\ YearOf(m) \in Int
         /\ MonthStart[QuarterOf(m)] <= MonthStart[m]
         /\ MonthStart[YearOf(m)] <= MonthStart[m]
<1>1. /\ m % 3 \in 0 .. 2 /\ m % 12 \in 0 .. 11
      /\ QuarterOf(m) = m - (m % 3) /\ YearOf(m) = m - (m % 12)
  BY DEF QuarterOf, YearOf
<1>2. QuarterOf(m) \in Int /\ YearOf(m) \in Int
  BY <1>1
<1>3. QuarterOf(m) <= m /\ YearOf(m) <= m
  BY <1>1
<1> QED BY <1>2, <1>3, MonthsInOrder

-----------------------------------------------------------------------------
(* The named windows.                                                      *)

\* Every named window has days and none after today (dateRange, resolvePeriod), as long as the
\* server's clock does not show another year than UTC's.
THEOREM WindowsAreOrdered ==
  ASSUME Calendar, NEW d \in Int, NEW m \in Int, InMonth(d, m), Year2000 <= d, NEW n \in Nat
  PROVE  \A w \in {Today(d), Yesterday(d), ThisMonth(d, m), PreviousMonth(m), ThisQuarter(d, m),
                   PreviousQuarter(m), ThisYear(d, m), PreviousYear(m), Everything(d), Lookback(d, n),
                   YearToDate(d, m)} : Ordered(w) /\ w.end <= d
<1>1. MonthStart[m] <= d /\ MonthStart[m] \in Int
  BY MonthsInOrder DEF InMonth
<1>2. /\ MonthStart[QuarterOf(m)] <= MonthStart[m] /\ MonthStart[YearOf(m)] <= MonthStart[m]
      /\ QuarterOf(m) \in Int /\ YearOf(m) \in Int
      /\ MonthStart[QuarterOf(m)] \in Int /\ MonthStart[YearOf(m)] \in Int
  BY StartsOfMonth, MonthsInOrder
<1>3. MonthStart[m - 1] < MonthStart[m]
  BY MonthsInOrder
<1>4. /\ (QuarterOf(m) - 3) + 3 = QuarterOf(m)
      /\ MonthStart[QuarterOf(m) - 3] \in Int /\ MonthStart[QuarterOf(m) - 3] < MonthStart[QuarterOf(m)]
  BY <1>2, MonthsInOrder
<1>5. MonthStart[YearOf(m) - 12] < MonthStart[YearOf(m)]
  BY <1>2, MonthsInOrder
<1>6. MonthStart[m - 1] \in Int /\ MonthStart[YearOf(m) - 12] \in Int
  BY <1>2 DEF Calendar
<1>7. /\ Ordered(Today(d)) /\ Today(d).end <= d
      /\ Ordered(Yesterday(d)) /\ Yesterday(d).end <= d
      /\ Ordered(Everything(d)) /\ Everything(d).end <= d
      /\ Ordered(Lookback(d, n)) /\ Lookback(d, n).end <= d
  BY DEF Ordered, Today, Yesterday, Everything, Lookback, W
<1>8. /\ Ordered(ThisMonth(d, m)) /\ ThisMonth(d, m).end <= d
      /\ Ordered(ThisQuarter(d, m)) /\ ThisQuarter(d, m).end <= d
      /\ Ordered(ThisYear(d, m)) /\ ThisYear(d, m).end <= d
      /\ Ordered(YearToDate(d, m)) /\ YearToDate(d, m).end <= d
  BY <1>1, <1>2 DEF Ordered, ThisMonth, ThisQuarter, ThisYear, YearToDate, W
<1>9. /\ Ordered(PreviousMonth(m)) /\ PreviousMonth(m).end <= d
      /\ Ordered(PreviousYear(m)) /\ PreviousYear(m).end <= d
  BY <1>1, <1>2, <1>3, <1>5, <1>6 DEF Ordered, PreviousMonth, PreviousYear, W
<1>10. Ordered(PreviousQuarter(m)) /\ PreviousQuarter(m).end <= d
  BY <1>1, <1>2, <1>4 DEF Ordered, PreviousQuarter, W
<1> QED BY <1>7, <1>8, <1>9, <1>10

\* The previous month, quarter or year is all of the one before and ends on the eve of this one
\* (the day 0 of Date.UTC, the month -3 of a quarter in January): no day is in both or in neither.
THEOREM PreviousAdjoins ==
  ASSUME Calendar, NEW d \in Int, NEW m \in Int, InMonth(d, m)
  PROVE  /\ PreviousMonth(m).end + 1 = ThisMonth(d, m).start
         /\ PreviousQuarter(m).end + 1 = ThisQuarter(d, m).start
         /\ PreviousYear(m).end + 1 = ThisYear(d, m).start
         /\ Length(PreviousYear(m)) \in {365, 366}
<1>1. QuarterOf(m) \in Int /\ YearOf(m) \in Int
  BY StartsOfMonth
<1>2. (QuarterOf(m) - 3) + 3 = QuarterOf(m) /\ (YearOf(m) - 12) + 12 = YearOf(m) /\ YearOf(m) - 12 \in Int
  BY <1>1
<1>3. /\ MonthStart[m] \in Int /\ MonthStart[QuarterOf(m)] \in Int /\ MonthStart[YearOf(m)] \in Int
      /\ MonthStart[YearOf(m) - 12] \in Int
  BY <1>1, <1>2 DEF Calendar
<1>4. MonthStart[YearOf(m)] - MonthStart[YearOf(m) - 12] \in {365, 366}
  BY <1>2, YearFollows
<1>5. PreviousQuarter(m).end = MonthStart[QuarterOf(m)] - 1
  BY <1>2 DEF PreviousQuarter, W
<1> QED BY <1>3, <1>4, <1>5
        DEF PreviousMonth, ThisMonth, ThisQuarter, PreviousYear, ThisYear, Length, W

-----------------------------------------------------------------------------
(* The comparisons.                                                        *)

\* The comparison service compares a window with the one just before it: as long, no day in both
\* and none between (comparisonPeriod).
THEOREM PreviousPeriodAdjoins ==
  ASSUME NEW w \in Window, Ordered(w)
  PROVE  /\ Length(PreviousPeriod(w)) = Length(w)
         /\ PreviousPeriod(w).end + 1 = w.start
         /\ Days(PreviousPeriod(w)) \cap Days(w) = {}
<1>1. Length(w) \in Int /\ Length(w) >= 1 /\ w.start \in Int /\ w.end \in Int /\ w.start <= w.end
  BY DEF Window, Ordered, Length
<1>2. PreviousPeriod(w) = W(w.start - Length(w), w.end - Length(w))
  BY <1>1 DEF PreviousPeriod, Shifted
<1>3. PreviousPeriod(w).start = w.start - Length(w) /\ PreviousPeriod(w).end = w.end - Length(w)
  BY <1>2 DEF W
<1> QED BY <1>1, <1>3 DEF Length, Days

\* The dashboards do not: the window they compare with (prevPeriod) is as long, but ends on the day
\* the current one starts, which is then counted in both; a single day (TODAY, YESTERDAY) is
\* compared with itself; beyond a year the two share all but a year.
THEOREM PrevPeriodOverlaps ==
  ASSUME NEW w \in Window, Ordered(w)
  PROVE  /\ Length(PrevPeriod(w)) = Length(w)
         /\ Length(w) <= 366 => Days(PrevPeriod(w)) \cap Days(w) = {w.start}
         /\ Length(w) = 1 => PrevPeriod(w) = w
         /\ Length(w) > 366 => Days(PrevPeriod(w)) \cap Days(w) = w.start .. (w.end - 365)
<1>1. w.start \in Int /\ w.end \in Int /\ w.start <= w.end /\ w = W(w.start, w.end)
  BY DEF Window, Ordered, W
<1>2. Length(w) <= 366 => PrevPeriod(w).start = w.start - (w.end - w.start) /\ PrevPeriod(w).end = w.start
  BY <1>1 DEF PrevPeriod, Shifted, W, Length
<1>3. Length(w) > 366 => PrevPeriod(w).start = w.start - 365 /\ PrevPeriod(w).end = w.end - 365
  BY <1>1 DEF PrevPeriod, Shifted, W, Length
<1>4. Length(w) = 1 => PrevPeriod(w) = w
  BY <1>1 DEF PrevPeriod, Shifted, W, Length
<1>5. Length(PrevPeriod(w)) = Length(w)
  BY <1>1, <1>2, <1>3 DEF Length
<1>6. Length(w) <= 366 => Days(PrevPeriod(w)) \cap Days(w) = {w.start}
  BY <1>1, <1>2 DEF Days
<1>7. Length(w) > 366 => Days(PrevPeriod(w)) \cap Days(w) = w.start .. (w.end - 365)
  BY <1>1, <1>3 DEF Days, Length
<1> QED BY <1>4, <1>5, <1>6, <1>7

\* A day a year before lies in the same month of that year, or on the day after it: 29 February.
LEMMA YearBeforeInMonth ==
  ASSUME Calendar, NEW m \in Int, NEW d \in Int, InMonth(d, m)
  PROVE  /\ YearBefore(d, m) \in Int
         /\ MonthStart[m - 12] <= YearBefore(d, m) /\ YearBefore(d, m) <= MonthStart[m - 11]
         /\ d - YearBefore(d, m) \in {365, 366}
<1>1. m - 12 \in Int /\ (m - 12) + 12 = m /\ (m - 12) + 1 = m - 11 /\ (m - 12) + 13 = m + 1
  OBVIOUS
<1>2. /\ MonthStart[m - 12] \in Int /\ MonthStart[m - 11] \in Int
      /\ MonthStart[m] \in Int /\ MonthStart[m + 1] \in Int
  BY DEF Calendar
<1>3. /\ MonthStart[m] - MonthStart[m - 12] \in {365, 366}
      /\ (MonthStart[m + 1] - MonthStart[m]) - (MonthStart[m - 11] - MonthStart[m - 12]) \in {-1, 0, 1}
  BY <1>1 DEF Calendar
<1> QED BY <1>2, <1>3 DEF YearBefore, InMonth

\* A year earlier (comparisonPeriod, setUTCFullYear) a window still runs forward, 29 February or
\* not, and is at most a day longer or shorter; it meets the current one only if that has more than
\* a year.
THEOREM AYearEarlierFits ==
  ASSUME Calendar, NEW w \in Window, Ordered(w), NEW ms \in Int, NEW me \in Int, ms <= me,
         InMonth(w.start, ms), InMonth(w.end, me)
  PROVE  LET y == AYearEarlier(w, ms, me)
         IN /\ Ordered(y) /\ Length(y) - Length(w) \in {-1, 0, 1}
            /\ Length(w) <= 365 => Days(y) \cap Days(w) = {}
<1> DEFINE a == YearBefore(w.start, ms)
           b == YearBefore(w.end, me)
<1>1. w.start \in Int /\ w.end \in Int /\ w.start <= w.end
  BY DEF Window, Ordered
<1>2. /\ a \in Int /\ w.start - a \in {365, 366} /\ MonthStart[ms - 12] <= a /\ a <= MonthStart[ms - 11]
      /\ b \in Int /\ w.end - b \in {365, 366} /\ MonthStart[me - 12] <= b /\ b <= MonthStart[me - 11]
  BY <1>1, YearBeforeInMonth
<1>3. a <= b
  <2>1. CASE ms = me
    BY <1>1, <2>1 DEF YearBefore, Calendar
  <2>2. CASE ms < me
    <3>1. ms - 11 <= me - 12 /\ ms - 11 \in Int /\ me - 12 \in Int
      BY <2>2
    <3>2. MonthStart[ms - 11] <= MonthStart[me - 12] /\ MonthStart[ms - 11] \in Int /\ MonthStart[me - 12] \in Int
      BY <3>1, MonthsInOrder
    <3> QED BY <1>2, <3>2
  <2> QED BY <2>1, <2>2
<1>4. AYearEarlier(w, ms, me).start = a /\ AYearEarlier(w, ms, me).end = b
  BY DEF AYearEarlier, W
<1> HIDE DEF a, b
<1>5. Ordered(AYearEarlier(w, ms, me))
  BY <1>3, <1>4 DEF Ordered
<1>6. Length(AYearEarlier(w, ms, me)) - Length(w) \in {-1, 0, 1}
  BY <1>1, <1>2, <1>4 DEF Length
<1>7. Length(w) <= 365 => Days(AYearEarlier(w, ms, me)) \cap Days(w) = {}
  BY <1>1, <1>2, <1>4 DEF Length, Days
<1> QED BY <1>5, <1>6, <1>7

=============================================================================
