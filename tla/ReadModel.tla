----------------------------- MODULE ReadModel -----------------------------
(***************************************************************************)
(* What the dashboard reads after an ingest: materialized views, which     *)
(* the end of a run and a timer refresh under one advisory lock and one    *)
(* backoff (MatviewRefreshCoordinator, MaintenanceService), and answers in *)
(* Redis, computed at most once at a time and invalidated by the end of a  *)
(* run (CacheService, IngestService).  One backend process, as production  *)
(* runs it.                                                                *)
(*                                                                         *)
(* A tenant's data is the number of its runs of orders; a view shows each  *)
(* tenant as of so many, and so does a cached answer, which is about a     *)
(* scope: one company, or for a super admin all of them together.          *)
(***************************************************************************)
EXTENDS Integers, FiniteSets, Sequences, SequencesExt, Functions

CONSTANTS
  Tenant,
  View,         \* the views a run of orders refreshes, a sequence
  timer,        \* MaintenanceService's interval, which is switched on
  Scope,        \* the scopes of requests: sets of tenants
  Asked,        \* bound: the answers that are asked for, <<scope, kind>>
  MaxRuns,      \* bound: runs of all tenants
  MaxTroubles   \* bound: statements and Redis calls that fail

Nobody == "nobody"

ASSUME ReadModelAssumption ==
  /\ View \in Seq(Range(View)) /\ timer \notin Tenant /\ Nobody \notin Tenant \cup {timer}
  /\ Scope \subseteq SUBSET Tenant
  /\ MaxRuns \in Nat /\ MaxTroubles \in Nat

Views     == Range(View)
Refresher == Tenant \cup {timer}
Kind      == {"sales", "customers"}   \* answers from the views, and answers from the tables
NoAnswer  == [ver |-> [t \in Tenant |-> -1], late |-> FALSE]

VARIABLES
  data,        \* [Tenant -> runs committed]
  view,        \* [Views -> [Tenant -> runs the view shows]]
  lock,        \* the refresher whose session holds the advisory lock
  kept,        \* a connection went back to the pool and still holds the lock
  backoff,     \* nextAllowedAt is still to come
  job,         \* [Refresher -> pc and the views to refresh], of an ingest's last batch or the timer
  cache,       \* [Scope -> [Kind -> answer]] of Redis
  task,        \* [Scope -> [Kind -> pc and answer]] of the computations in flight
  troublesLeft,
  settled      \* history: [Tenant -> runs up to the last one whose invalidation went through]

readVars == <<data, view, lock, kept, backoff, job, cache, task, troublesLeft, settled>>

Resting == [pc |-> "rest", todo |-> <<>>]
NoTask  == [pc |-> "none", answer |-> NoAnswer]

Init ==
  /\ data = [t \in Tenant |-> 0] /\ view = [v \in Views |-> data]
  /\ lock = Nobody /\ kept = FALSE /\ backoff = FALSE
  /\ job = [r \in Refresher |-> Resting]
  /\ cache = [s \in Scope |-> [k \in Kind |-> NoAnswer]]
  /\ task = [s \in Scope |-> [k \in Kind |-> NoTask]]
  /\ troublesLeft = MaxTroubles
  /\ settled = data

Trouble == troublesLeft > 0 /\ troublesLeft' = troublesLeft - 1
At(r, pc) == job[r].pc = pc
To(r, pc) == job' = [job EXCEPT ![r].pc = pc]

-----------------------------------------------------------------------------
(* The end of a run, and the timer.                                        *)

\* The last batch of a run commits.  The next run of the tenant waits for this one's end.
Commit(t) ==
  /\ At(t, "rest") /\ FoldFunction(+, 0, data) < MaxRuns
  /\ data' = [data EXCEPT ![t] = @ + 1]
  /\ job' = [job EXCEPT ![t] = [pc |-> "ask", todo |-> View]]
  /\ UNCHANGED <<view, lock, kept, backoff, cache, task, troublesLeft, settled>>

TimerFires ==
  /\ At(timer, "rest")
  /\ job' = [job EXCEPT ![timer] = [pc |-> "ask", todo |-> View]]
  /\ UNCHANGED <<data, view, lock, kept, backoff, cache, task, troublesLeft, settled>>

\* What comes behind the refresh: the invalidation, or nothing.
Behind(r) == IF r = timer THEN "rest" ELSE "invalidate"

\* A refresh is skipped during a backoff and while another session holds the lock.
Skip(r) ==
  /\ At(r, "ask") /\ (backoff \/ lock # Nobody \/ kept)
  /\ job' = [job EXCEPT ![r] = [pc |-> Behind(r), todo |-> <<>>]]
  /\ UNCHANGED <<data, view, lock, kept, backoff, cache, task, troublesLeft, settled>>

\* The connection that kept the lock is given it again: advisory locks are counted per session.
TryLock(r) ==
  /\ At(r, "ask") /\ ~backoff /\ lock = Nobody
  /\ lock' = r /\ To(r, "refresh")
  /\ UNCHANGED <<data, view, kept, backoff, cache, task, troublesLeft, settled>>

\* The pool has no connection in time, or the question for the lock fails.
ConnectFails(r) ==
  /\ At(r, "ask") /\ ~backoff /\ Trouble
  /\ backoff' = TRUE
  /\ job' = [job EXCEPT ![r] = [pc |-> Behind(r), todo |-> <<>>]]
  /\ UNCHANGED <<data, view, lock, kept, cache, task, settled>>

\* An ingest refreshes one view after the other; the timer's function is one statement.  The
\* snapshot of a statement and its end are one step.
Refresh(r) ==
  /\ At(r, "refresh") /\ job[r].todo # <<>>
  /\ LET now == IF r = timer THEN Range(job[r].todo) ELSE {Head(job[r].todo)}
     IN /\ view' = [v \in Views |-> IF v \in now THEN data ELSE view[v]]
        /\ job' = [job EXCEPT ![r].todo = IF r = timer THEN <<>> ELSE Tail(@)]
  /\ UNCHANGED <<data, lock, kept, backoff, cache, task, troublesLeft, settled>>

\* Fault: a refresh that fails does not get to the unlock.
RefreshFails_Locked(r) ==
  /\ At(r, "refresh") /\ job[r].todo # <<>> /\ Trouble
  /\ backoff' = TRUE
  /\ job' = [job EXCEPT ![r] = [pc |-> Behind(r), todo |-> <<>>]]
  /\ UNCHANGED <<data, view, lock, cache, task, settled, kept>>

RefreshFails(r) ==
  /\ At(r, "refresh") /\ job[r].todo # <<>> /\ Trouble
  /\ backoff' = TRUE
  /\ job' = [job EXCEPT ![r] = [pc |-> "unlock", todo |-> <<>>]]
  /\ UNCHANGED <<data, view, lock, cache, task, settled, kept>>

Refreshed(r) ==
  /\ At(r, "refresh") /\ job[r].todo = <<>>
  /\ backoff' = FALSE /\ To(r, "unlock")
  /\ UNCHANGED <<data, view, lock, cache, task, troublesLeft, settled, kept>>

Unlock(r) ==
  /\ At(r, "unlock")
  /\ lock' = Nobody /\ To(r, Behind(r))
  /\ UNCHANGED <<data, view, kept, backoff, cache, task, troublesLeft, settled>>

\* A failing unlock is only logged, and the connection goes back to the pool with the lock.
UnlockFails(r) ==
  /\ At(r, "unlock") /\ Trouble
  /\ lock' = Nobody /\ kept' = TRUE /\ To(r, Behind(r))
  /\ UNCHANGED <<data, view, backoff, cache, task, settled>>

\* The pool closes a connection that nobody used for a while.
PoolCloses ==
  /\ kept /\ lock = Nobody /\ kept' = FALSE
  /\ UNCHANGED <<data, view, lock, backoff, job, cache, task, troublesLeft, settled>>

BackoffEnds ==
  /\ backoff /\ backoff' = FALSE
  /\ UNCHANGED <<data, view, lock, kept, job, cache, task, troublesLeft, settled>>

\* Fault: its patterns match no key at all.
Matched_None(t) == {}

\* The keys the patterns of a run of orders match, <<scope, kind>>: a key of customers begins with
\* the ids of its whole scope, which is the pattern's tenant alone for one company only; a key of
\* sales carries the settings of the scope before "sales".
Matched(t) == {<<{t}, "customers">>}

\* Whatever is computed from older data counts as late from now on.
Overtaken(s, k) ==
  IF task[s][k].pc = "computed" THEN [task[s][k] EXCEPT !.answer.late = TRUE] ELSE task[s][k]

Invalidate(t) ==
  /\ At(t, "invalidate")
  /\ cache' = [s \in Scope |-> [k \in Kind |->
                 IF <<s, k>> \in Matched(t) THEN NoAnswer ELSE cache[s][k]]]
  /\ task' = [s \in Scope |-> [k \in Kind |-> IF t \in s THEN Overtaken(s, k) ELSE task[s][k]]]
  /\ settled' = [settled EXCEPT ![t] = data[t]]
  /\ job' = [job EXCEPT ![t] = Resting]
  /\ UNCHANGED <<data, view, lock, kept, backoff, troublesLeft>>

\* Redis fails, or its circuit breaker is open: the run ends all the same.
InvalidateFails(t) ==
  /\ At(t, "invalidate") /\ Trouble
  /\ job' = [job EXCEPT ![t] = Resting]
  /\ UNCHANGED <<data, view, lock, kept, backoff, cache, task, settled>>

-----------------------------------------------------------------------------
(* Requests.                                                               *)

Put(s, k, x) == task' = [task EXCEPT ![s][k] = x]

\* A request that finds no answer and no computation in flight starts one; a later one joins it.
Miss(s, k) ==
  /\ <<s, k>> \in Asked /\ cache[s][k] = NoAnswer /\ task[s][k].pc = "none"
  /\ Put(s, k, [NoTask EXCEPT !.pc = "computing"])
  /\ UNCHANGED <<data, view, lock, kept, backoff, job, cache, troublesLeft, settled>>

\* What the queries see: the views, or the tables.
Seen(s, k) ==
  LET of(f) == [t \in Tenant |-> IF t \in s THEN f[t] ELSE 0]
  IN IF k = "sales" THEN {of(view[v]) : v \in Views} ELSE {of(data)}

Compute(s, k) ==
  /\ task[s][k].pc = "computing"
  /\ \E n \in Seen(s, k) :
       Put(s, k, [pc |-> "computed", answer |-> [ver |-> n, late |-> FALSE]])
  /\ UNCHANGED <<data, view, lock, kept, backoff, job, cache, troublesLeft, settled>>

\* The queries fail: nothing is stored, and the next request starts again.
ComputeFails(s, k) ==
  /\ task[s][k].pc # "none" /\ Trouble
  /\ Put(s, k, NoTask)
  /\ UNCHANGED <<data, view, lock, kept, backoff, job, cache, settled>>

Store(s, k) ==
  /\ task[s][k].pc = "computed"
  /\ cache' = [cache EXCEPT ![s][k] = task[s][k].answer]
  /\ Put(s, k, NoTask)
  /\ UNCHANGED <<data, view, lock, kept, backoff, job, troublesLeft, settled>>

Expire(s, k) ==
  /\ cache[s][k] # NoAnswer
  /\ cache' = [cache EXCEPT ![s][k] = NoAnswer]
  /\ UNCHANGED <<data, view, lock, kept, backoff, job, task, troublesLeft, settled>>

-----------------------------------------------------------------------------
JobStep(r) ==
  \/ Skip(r) \/ TryLock(r) \/ ConnectFails(r) \/ Refresh(r) \/ RefreshFails(r) \/ Refreshed(r)
  \/ Unlock(r) \/ UnlockFails(r)
RunEndStep(t) == Invalidate(t) \/ InvalidateFails(t)
TaskStep(s, k) == Compute(s, k) \/ ComputeFails(s, k) \/ Store(s, k)

Next ==
  \/ TimerFires \/ BackoffEnds \/ PoolCloses
  \/ \E r \in Refresher : JobStep(r)
  \/ \E t \in Tenant : Commit(t) \/ RunEndStep(t)
  \/ \E s \in Scope, k \in Kind : Miss(s, k) \/ TaskStep(s, k) \/ Expire(s, k)

Spec == Init /\ [][Next]_readVars

\* Statements end, the timer fires again and again, a backoff passes, an answer expires.  The pool
\* may use a connection again and again and never close it.
FairSpec ==
  /\ Spec /\ WF_readVars(TimerFires) /\ WF_readVars(BackoffEnds)
  /\ \A r \in Refresher : WF_readVars(JobStep(r))
  /\ \A t \in Tenant : WF_readVars(RunEndStep(t))
  /\ \A s \in Scope, k \in Kind : WF_readVars(TaskStep(s, k)) /\ WF_readVars(Expire(s, k))

-----------------------------------------------------------------------------
(* Properties.                                                             *)

Answers == [ver : [Tenant -> Nat \cup {-1}], late : BOOLEAN]

\* Types; the lock is held by the refresher that refreshes, by nobody else and not longer; no
\* view is ahead of the data.
TypeOK ==
  /\ data \in [Tenant -> Nat] /\ settled \in [Tenant -> Nat]
  /\ view \in [Views -> [Tenant -> Nat]]
  /\ \A v \in Views, t \in Tenant : view[v][t] <= data[t]
  /\ lock \in Refresher \cup {Nobody} /\ kept \in BOOLEAN /\ backoff \in BOOLEAN
  /\ job \in [Refresher -> [pc : {"rest", "ask", "refresh", "unlock", "invalidate"}, todo : Seq(Views)]]
  /\ \A r \in Refresher : lock = r <=> job[r].pc \in {"refresh", "unlock"}
  /\ cache \in [Scope -> [Kind -> Answers]]
  /\ task \in [Scope -> [Kind -> [pc : {"none", "computing", "computed"}, answer : Answers]]]
  /\ troublesLeft \in Nat

\* An answer is of the last run of t whose invalidation went through or of a later one, unless it
\* was computed before that invalidation and stored after it.
NotOlder(a, t) == a # NoAnswer /\ ~a.late => a.ver[t] >= settled[t]

\* An answer about the customers of one company (CustomersService) is not older than the last
\* invalidation of that company that went through (IngestService.processIngest).
CustomersFresh ==
  \A t \in Tenant : {t} \in Scope => NotOlder(cache[{t}]["customers"], t)

\* "Invalidate customer cache so dashboard shows fresh computed stats" (ingest.service.ts:378):
\* an answer about customers is not older than the invalidation of any company it is about.
AllCompaniesFresh ==
  \A s \in Scope : \A t \in s : NotOlder(cache[s]["customers"], t)

\* When nothing is ingested any more, the views show all there is sooner or later, and the cache
\* holds no older answer: a refresh that was skipped is made good by the timer, as long as no
\* connection of the pool keeps the lock for ever.
EventuallyFresh ==
  \/ <>[]kept
  \/ <>[](/\ \A v \in Views : view[v] = data
          /\ \A s \in Scope, k \in Kind, t \in Tenant :
               t \in s /\ cache[s][k] # NoAnswer => cache[s][k].ver[t] = data[t])

=============================================================================
