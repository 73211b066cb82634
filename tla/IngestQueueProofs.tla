-------------------------- MODULE IngestQueueProofs --------------------------
(***************************************************************************)
(* TLAPS proofs about IngestQueue, for any sets of batches, tenants,       *)
(* requests, drains and workers and any limits.                            *)
(***************************************************************************)
EXTENDS IngestQueue, FiniteSetTheorems, WellFoundedInduction, TLAPS

-----------------------------------------------------------------------------
(* Lists.                                                                  *)

\* Removing an index of a list leaves a list without that entry: every other
\* index keeps its element, shifted by one behind the gap.
LEMMA RemoveIndexIsSeq ==
  ASSUME NEW S, NEW s \in Seq(S), NEW i
  PROVE  RemoveQueuedIndex(s, i) \in Seq(S)
<1>1. CASE i \in 1 .. Len(s)
  <2>1. SubSeq(s, 1, i - 1) \in Seq(S)
    BY <1>1
  <2>2. SubSeq(s, i + 1, Len(s)) \in Seq(S)
    BY <1>1
  <2>3. SubSeq(s, 1, i - 1) \o SubSeq(s, i + 1, Len(s)) \in Seq(S)
    BY <2>1, <2>2
  <2> QED BY <1>1, <2>3 DEF RemoveQueuedIndex
<1>2. CASE i \notin 1 .. Len(s)
  BY <1>2 DEF RemoveQueuedIndex
<1> QED BY <1>1, <1>2

\* What RemoveQueuedIndex removes is the one entry at the index.
LEMMA RemoveIndexElements ==
  ASSUME NEW S, NEW s \in Seq(S), NEW i \in 1 .. Len(s), NEW b \in Elements(s), b # s[i]
  PROVE  b \in Elements(RemoveQueuedIndex(s, i))
<1> DEFINE p == SubSeq(s, 1, i - 1)
           q == SubSeq(s, i + 1, Len(s))
<1>1. /\ p \in Seq(S) /\ Len(p) = i - 1 /\ \A k \in 1 .. i - 1 : p[k] = s[k]
      /\ q \in Seq(S) /\ Len(q) = Len(s) - i /\ \A k \in 1 .. Len(s) - i : q[k] = s[i + k]
  OBVIOUS
<1>2. RemoveQueuedIndex(s, i) = p \o q
  BY DEF RemoveQueuedIndex
<1>3. PICK j \in 1 .. Len(s) : s[j] = b
  BY DEF Elements
<1> HIDE DEF p, q
<1>4. /\ Len(p \o q) = Len(p) + Len(q)
      /\ \A k \in 1 .. Len(p) : (p \o q)[k] = p[k]
      /\ \A k \in 1 .. Len(q) : (p \o q)[Len(p) + k] = q[k]
  <2>1. p \in Seq(S) /\ q \in Seq(S)
    BY <1>1
  <2> QED BY <2>1
<1>5. CASE j < i
  <2>1. (p \o q)[j] = b /\ j \in 1 .. Len(p \o q)
    BY <1>1, <1>3, <1>4, <1>5
  <2> QED BY <1>2, <2>1 DEF Elements
<1>6. CASE j > i
  <2>1. j - i \in 1 .. Len(q) /\ Len(p) + (j - i) = j - 1
    BY <1>1, <1>3, <1>6
  <2>2. (p \o q)[j - 1] = q[j - i]
    BY <1>4, <2>1
  <2>3. q[j - i] = s[j]
    BY <1>1, <1>3, <1>6
  <2>4. (p \o q)[j - 1] = b /\ j - 1 \in 1 .. Len(p \o q)
    BY <2>2, <2>3, <1>1, <1>3, <1>4, <1>6
  <2> QED BY <1>2, <2>4 DEF Elements
<1> QED BY <1>3, <1>5, <1>6

\* LREM of a value keeps every entry of another value.
LEMMA RemoveFirstKeeps ==
  ASSUME NEW S, NEW s \in Seq(S), NEW a, NEW b \in Elements(s), b # a
  PROVE  b \in Elements(RemoveFirst(s, a))
<1> DEFINE first == {i \in 1 .. Len(s) : s[i] = a /\ \A j \in 1 .. i - 1 : s[j] # a}
           c == CHOOSE i \in first : TRUE
<1>1. CASE first = {}
  BY <1>1 DEF RemoveFirst
<1>2. CASE first # {}
  <2>1. c \in first
    BY <1>2
  <2>2. c \in 1 .. Len(s) /\ s[c] = a
    BY <2>1
  <2>3. RemoveFirst(s, a) = RemoveQueuedIndex(s, c)
    BY <1>2 DEF RemoveFirst
  <2> HIDE DEF c
  <2> QED BY <2>2, <2>3, RemoveIndexElements
<1> QED BY <1>1, <1>2

\* LREM leaves a list of the same elements.
LEMMA RemoveFirstIsSeq ==
  ASSUME NEW S, NEW s \in Seq(S), NEW a
  PROVE  RemoveFirst(s, a) \in Seq(S)
BY RemoveIndexIsSeq DEF RemoveFirst

\* Appending and concatenating keep the entries that were there.
LEMMA AppendElements ==
  ASSUME NEW S, NEW s \in Seq(S), NEW e \in S
  PROVE  /\ Append(s, e) \in Seq(S)
         /\ Elements(s) \subseteq Elements(Append(s, e))
         /\ e \in Elements(Append(s, e))
<1>1. /\ Append(s, e) \in Seq(S) /\ Len(Append(s, e)) = Len(s) + 1
      /\ Append(s, e)[Len(s) + 1] = e
      /\ \A i \in 1 .. Len(s) : Append(s, e)[i] = s[i]
  OBVIOUS
<1> QED BY <1>1 DEF Elements

LEMMA ConcatElements ==
  ASSUME NEW S, NEW s \in Seq(S), NEW t \in Seq(S)
  PROVE  /\ s \o t \in Seq(S)
         /\ Elements(s) \subseteq Elements(s \o t)
         /\ Elements(t) \subseteq Elements(s \o t)
<1>1. /\ s \o t \in Seq(S) /\ Len(s \o t) = Len(s) + Len(t)
      /\ \A i \in 1 .. Len(s) : (s \o t)[i] = s[i]
      /\ \A i \in 1 .. Len(t) : (s \o t)[Len(s) + i] = t[i]
  OBVIOUS
<1>2. Elements(s) \subseteq Elements(s \o t)
  BY <1>1 DEF Elements
<1>3. ASSUME NEW b \in Elements(t) PROVE b \in Elements(s \o t)
  <2>1. PICK i \in 1 .. Len(t) : t[i] = b
    BY <1>3 DEF Elements
  <2>2. Len(s) + i \in 1 .. Len(s \o t)
    BY <1>1, <2>1
  <2> QED BY <1>1, <2>1, <2>2 DEF Elements
<1> QED BY <1>1, <1>2, <1>3

-----------------------------------------------------------------------------
(* Type correctness.                                                       *)

\* Whoever calls drainSoon, the loop states stay loop states.
LEMMA DrainSoonType ==
  ASSUME DrainsOK, NEW ds \in [Drain -> DrainState], DrainSoon(ds),
         \A d \in Drain : ds[d].pc \in {"remove", "push"} => ds[d].job \in Batch
  PROVE  /\ drain' \in [Drain -> DrainState] /\ draining' \in BOOLEAN
         /\ \A d \in Drain : drain'[d].pc \in {"remove", "push"} => drain'[d].job \in Batch
<1>1. CASE draining \/ stopped
  BY <1>1 DEF DrainSoon, DrainsOK
<1>2. CASE ~(draining \/ stopped)
  <2>1. PICK d \in Drain : drain' = [ds EXCEPT ![d].pc = "loop"]
    BY <1>2 DEF DrainSoon
  <2> QED BY <1>2, <2>1 DEF DrainSoon, DrainState
<1> QED BY <1>1, <1>2

\* The initial state has the types declared.
LEMMA InitTypeOK == Init => TypeOK
<1> SUFFICES ASSUME Init PROVE TypeOK
  OBVIOUS
<1>1. StoreOK /\ HistoryOK
  BY DEF Init, StoreOK, HistoryOK, QueueStatus, RunStates
<1>2. HandlersOK
  BY DEF Init, HandlersOK, HandlerState, HandlerIdle, QueueStatus
<1>3. DrainsOK
  BY DEF Init, DrainsOK, DrainState, DrainOff
<1>4. WorkersOK
  BY DEF Init, WorkersOK, WorkerState, WorkerIdle
<1> QED BY <1>1, <1>2, <1>3, <1>4 DEF TypeOK

\* Every step of a request keeps the types.
LEMMA EnqueueTypeOK ==
  ASSUME TypeOK, NEW h \in Handler, Enqueue(h)
  PROVE  TypeOK'
<1> USE DEF TypeOK, redis, telemetry, loop, history
<1>1. ASSUME NEW b \in Batch, Lookup(h, b) PROVE TypeOK'
  <2>0. status[b] \in QueueStatus
    BY DEF StoreOK
  <2>1. HandlersOK'
    BY <1>1, <2>0 DEF Lookup, HandlersOK, HandlerState
  <2>2. StoreOK' /\ HistoryOK'
    BY <1>1 DEF Lookup, StoreOK, HistoryOK
  <2>3. DrainsOK' /\ WorkersOK'
    BY <1>1 DEF Lookup, DrainsOK, WorkersOK
  <2> QED BY <2>1, <2>2, <2>3
<1>2. CASE MeasureQueue(h)
  <2>1. Len(queue) \in Nat
    BY DEF StoreOK
  <2>2. HandlersOK'
    BY <1>2, <2>1 DEF MeasureQueue, HandlersOK, HandlerState
  <2>3. StoreOK' /\ HistoryOK' /\ DrainsOK' /\ WorkersOK'
    BY <1>2 DEF MeasureQueue, StoreOK, HistoryOK, DrainsOK, WorkersOK
  <2> QED BY <2>2, <2>3
<1>3. CASE MeasureRest(h)
  <2>1. HandlersOK'
    BY <1>3 DEF MeasureRest, HandlersOK, HandlerState, HandlerIdle, QueueStatus
  <2>2. StoreOK' /\ HistoryOK' /\ DrainsOK' /\ WorkersOK'
    BY <1>3 DEF MeasureRest, StoreOK, HistoryOK, DrainsOK, WorkersOK
  <2> QED BY <2>1, <2>2
<1>4. CASE MarkQueued(h)
  <2>1. HandlersOK' /\ handler[h].batch \in Batch
    BY <1>4 DEF MarkQueued, HandlersOK, HandlerState
  <2>2. StoreOK'
    BY <1>4 DEF MarkQueued, StoreOK, QueueStatus, RunStates, RunRecorded, TerminalRun
  <2>3. HistoryOK'
    BY <1>4, <2>1 DEF MarkQueued, HistoryOK
  <2>4. DrainsOK' /\ WorkersOK'
    BY <1>4 DEF MarkQueued, DrainsOK, WorkersOK
  <2> QED BY <2>1, <2>2, <2>3, <2>4
<1>5. CASE PushQueued(h)
  <2>1. HandlersOK' /\ handler[h].batch \in Batch
    BY <1>5 DEF PushQueued, HandlersOK, HandlerState, HandlerIdle, QueueStatus
  <2>2. StoreOK' /\ HistoryOK' /\ WorkersOK'
    BY <1>5, <2>1 DEF PushQueued, StoreOK, HistoryOK, WorkersOK
  <2>3. DrainsOK'
    BY <1>5, DrainSoonType DEF PushQueued, DrainsOK
  <2> QED BY <2>1, <2>2, <2>3
<1>6. CASE PushFails(h)
  <2>1. HandlersOK' /\ handler[h].batch \in Batch
    BY <1>6 DEF PushFails, HandlersOK, HandlerState, HandlerIdle, QueueStatus
  <2>2. HistoryOK'
    BY <1>6, <2>1 DEF PushFails, HistoryOK
  <2>3. StoreOK' /\ DrainsOK' /\ WorkersOK'
    BY <1>6 DEF PushFails, StoreOK, DrainsOK, WorkersOK
  <2> QED BY <2>1, <2>2, <2>3
<1> QED BY <1>1, <1>2, <1>3, <1>4, <1>5, <1>6 DEF Enqueue

\* What a scan may take is in the queue and belongs to an idle tenant.
LEMMA TakeableInQueue ==
  ASSUME StoreOK, DrainsOK, NEW d \in Drain, NEW i \in Takeable(d)
  PROVE  i \in 1 .. Len(queue) /\ TenantOf[queue[i]] \notin active
<1>1. Len(queue) \in Nat /\ drain[d].seen \in Nat
  BY DEF StoreOK, DrainsOK, DrainState
<1>2. i \in 1 .. MinOf(drain[d].seen, Len(queue)) /\ TenantOf[queue[i]] \notin active
  BY DEF Takeable
<1> QED BY <1>1, <1>2 DEF MinOf

\* Every step of a drain keeps the types.
LEMMA DrainTypeOK ==
  ASSUME TypeOK, NEW d \in Drain, DrainStep(d)
  PROVE  TypeOK'
<1> USE DEF TypeOK, redis, telemetry, loop, history
<1>0. ASSUME LeaveLoop(d)
      PROVE /\ drain' \in [Drain -> DrainState] /\ draining' \in BOOLEAN
            /\ \A e \in Drain : drain'[e].pc \in {"remove", "push"} => drain'[e].job \in Batch
  BY <1>0 DEF LeaveLoop, DrainsOK, DrainState, DrainOff
<1>1. CASE DrainLength(d)
  <2>1. DrainsOK'
    <3>1. CASE stopped
      BY <1>0, <1>1, <3>1 DEF DrainLength, DrainsOK
    <3>2. CASE ~stopped
      <4>1. Len(queue) \in Nat
        BY DEF StoreOK
      <4>2. MinOf(Len(queue), ScanLimit) \in Nat
        BY <4>1, QueueAssumption DEF MinOf
      <4> DEFINE n == MinOf(Len(queue), ScanLimit)
      <4>3. /\ drain' = [drain EXCEPT ![d].pc = "scan", ![d].seen = n]
            /\ UNCHANGED <<active, draining, stopped>>
        BY <1>1, <3>2 DEF DrainLength
      <4>4. n \in Nat
        BY <4>2
      <4> HIDE DEF n
      <4> DEFINE x == [drain[d] EXCEPT !.pc = "scan", !.seen = n]
      <4>5. drain' = [drain EXCEPT ![d] = x] /\ x.pc = "scan"
        BY <4>3 DEF DrainsOK, DrainState
      <4>6. x \in DrainState
        BY <4>4 DEF DrainsOK, DrainState
      <4> HIDE DEF x
      <4> QED BY <4>3, <4>5, <4>6 DEF DrainsOK
    <3> QED BY <3>1, <3>2
  <2>2. StoreOK' /\ HistoryOK' /\ HandlersOK' /\ WorkersOK'
    BY <1>1 DEF DrainLength, StoreOK, HistoryOK, HandlersOK, WorkersOK
  <2> QED BY <2>1, <2>2
<1>2. CASE DrainScan(d)
  <2>1. DrainsOK'
    <3>1. CASE Takeable(d) = {}
      BY <1>0, <1>2, <3>1 DEF DrainScan, DrainsOK
    <3>2. CASE Takeable(d) # {}
      <4>1. PICK i \in Takeable(d) :
              drain' = [drain EXCEPT ![d] = [pc |-> "remove", seen |-> 0, index |-> i,
                                             job |-> queue[i]]]
        BY <1>2, <3>2 DEF DrainScan
      <4>2. i \in 1 .. Len(queue)
        BY TakeableInQueue DEF StoreOK, DrainsOK
      <4>3. i \in Nat /\ queue[i] \in Batch
        BY <4>2 DEF StoreOK
      <4>4. UNCHANGED <<active, draining, stopped>>
        BY <1>2, <3>2 DEF DrainScan
      <4> QED BY <4>1, <4>3, <4>4 DEF DrainsOK, DrainState
    <3> QED BY <3>1, <3>2
  <2>2. StoreOK' /\ HistoryOK' /\ HandlersOK' /\ WorkersOK'
    BY <1>2 DEF DrainScan, StoreOK, HistoryOK, HandlersOK, WorkersOK
  <2> QED BY <2>1, <2>2
<1>3. CASE DrainRemove(d)
  <2>1. StoreOK'
    BY <1>3, RemoveIndexIsSeq DEF DrainRemove, StoreOK
  <2>2. DrainsOK'
    BY <1>3 DEF DrainRemove, DrainsOK, DrainState
  <2>3. HistoryOK' /\ HandlersOK' /\ WorkersOK'
    BY <1>3 DEF DrainRemove, HistoryOK, HandlersOK, WorkersOK
  <2> QED BY <2>1, <2>2, <2>3
<1>4. CASE DrainPush(d)
  <2>1. drain[d].job \in Batch
    BY <1>4 DEF DrainPush, DrainsOK
  <2>2. StoreOK'
    BY <1>4, <2>1 DEF DrainPush, StoreOK
  <2>3. DrainsOK'
    BY <1>4, <2>1, QueueAssumption DEF DrainPush, DrainsOK, DrainState, DrainOff
  <2>4. WorkersOK'
    BY <1>4, <2>1 DEF DrainPush, WorkersOK, WorkerState
  <2>5. HistoryOK' /\ HandlersOK'
    BY <1>4 DEF DrainPush, HistoryOK, HandlersOK
  <2> QED BY <2>2, <2>3, <2>4, <2>5
<1>5. CASE DrainRecheck(d)
  <2> DEFINE ds == [drain EXCEPT ![d] = DrainOff]
  <2>1. /\ ds \in [Drain -> DrainState]
        /\ \A e \in Drain : ds[e].pc \in {"remove", "push"} => ds[e].job \in Batch
    BY DEF DrainsOK, DrainState, DrainOff
  <2>2. DrainsOK'
    <3>1. CASE queue # <<>>
      BY <1>5, <3>1, <2>1, DrainSoonType DEF DrainRecheck, DrainsOK
    <3>2. CASE queue = <<>>
      BY <1>5, <3>2, <2>1 DEF DrainRecheck, DrainsOK
    <3> QED BY <3>1, <3>2
  <2>3. StoreOK' /\ HistoryOK' /\ HandlersOK' /\ WorkersOK'
    BY <1>5 DEF DrainRecheck, StoreOK, HistoryOK, HandlersOK, WorkersOK
  <2> QED BY <2>2, <2>3
<1> QED BY <1>1, <1>2, <1>3, <1>4, <1>5 DEF DrainStep

\* Every step of a worker keeps the types.
LEMMA WorkerTypeOK ==
  ASSUME TypeOK, NEW w \in Worker, WorkerStep(w)
  PROVE  TypeOK'
<1> USE DEF TypeOK, redis, telemetry, loop, history
<1>0. ASSUME NEW pc \in {"ingest", "succeeded", "failed", "release"}, worker[w].pc # "idle",
             Continue(w, pc)
      PROVE  WorkersOK' /\ worker[w].job \in Batch
  BY <1>0 DEF Continue, WorkersOK, WorkerState
<1>1. CASE WorkerBegin(w)
  <2>1. WorkersOK' /\ worker[w].job \in Batch
    BY <1>0, <1>1 DEF WorkerBegin
  <2>2. StoreOK'
    BY <1>1, <2>1 DEF WorkerBegin, StoreOK, QueueStatus, RunStates
  <2>3. HistoryOK' /\ HandlersOK' /\ DrainsOK'
    BY <1>1 DEF WorkerBegin, HistoryOK, HandlersOK, DrainsOK
  <2> QED BY <2>1, <2>2, <2>3
<1>2. CASE IngestOk(w)
  <2>1. WorkersOK' /\ worker[w].job \in Batch
    BY <1>0, <1>2 DEF IngestOk
  <2>2. StoreOK'
    BY <1>2, <2>1 DEF IngestOk, RunAfterOk, StoreOK, QueueStatus, RunStates
  <2>3. HistoryOK'
    BY <1>2, <2>1 DEF IngestOk, HistoryOK
  <2>4. HandlersOK' /\ DrainsOK'
    BY <1>2 DEF IngestOk, HandlersOK, DrainsOK
  <2> QED BY <2>1, <2>2, <2>3, <2>4
<1>3. CASE IngestRefused(w)
  <2>1. WorkersOK'
    BY <1>0, <1>3 DEF IngestRefused
  <2>2. StoreOK' /\ HistoryOK' /\ HandlersOK' /\ DrainsOK'
    BY <1>3 DEF IngestRefused, StoreOK, HistoryOK, HandlersOK, DrainsOK
  <2> QED BY <2>1, <2>2
<1>4. ASSUME NEW committed \in BOOLEAN, IngestFails(w, committed) PROVE TypeOK'
  <2>1. WorkersOK' /\ worker[w].job \in Batch
    BY <1>0, <1>4 DEF IngestFails
  <2>2. StoreOK'
    BY <1>4, <2>1 DEF IngestFails, StoreOK, QueueStatus, RunStates
  <2>3. HistoryOK'
    BY <1>4, <2>1 DEF IngestFails, HistoryOK
  <2>4. HandlersOK' /\ DrainsOK'
    BY <1>4 DEF IngestFails, HandlersOK, DrainsOK
  <2> QED BY <2>1, <2>2, <2>3, <2>4
<1>5. ASSUME NEW committed \in BOOLEAN, IngestRetries(w, committed) PROVE TypeOK'
  <2>1. WorkersOK' /\ worker[w].job \in Batch
    BY <1>5 DEF IngestRetries, WorkersOK, WorkerState
  <2>2. HistoryOK'
    BY <1>5, <2>1 DEF IngestRetries, HistoryOK
  <2>3. StoreOK' /\ HandlersOK' /\ DrainsOK'
    BY <1>5 DEF IngestRetries, StoreOK, HandlersOK, DrainsOK
  <2> QED BY <2>1, <2>2, <2>3
<1>6. CASE SuccessNotSaved(w)
  <2>1. WorkersOK' /\ worker[w].job \in Batch
    BY <1>0, <1>6 DEF SuccessNotSaved
  <2>2. HistoryOK'
    BY <1>6, <2>1 DEF SuccessNotSaved, HistoryOK
  <2>3. StoreOK' /\ HandlersOK' /\ DrainsOK'
    BY <1>6 DEF SuccessNotSaved, StoreOK, HandlersOK, DrainsOK
  <2> QED BY <2>1, <2>2, <2>3
<1>7. CASE SettleOk(w)
  <2>1. WorkersOK' /\ worker[w].job \in Batch
    BY <1>0, <1>7 DEF SettleOk
  <2>2. StoreOK'
    BY <1>7, <2>1 DEF SettleOk, StoreOK, QueueStatus
  <2>3. HistoryOK' /\ HandlersOK' /\ DrainsOK'
    BY <1>7 DEF SettleOk, HistoryOK, HandlersOK, DrainsOK
  <2> QED BY <2>1, <2>2, <2>3
<1>8. CASE SettleFailed(w)
  <2>1. WorkersOK' /\ worker[w].job \in Batch
    BY <1>0, <1>8 DEF SettleFailed
  <2>2. StoreOK'
    BY <1>8, <2>1 DEF SettleFailed, StoreOK, QueueStatus, RunStates, RunRecorded, TerminalRun
  <2>3. HistoryOK' /\ HandlersOK' /\ DrainsOK'
    BY <1>8 DEF SettleFailed, HistoryOK, HandlersOK, DrainsOK
  <2> QED BY <2>1, <2>2, <2>3
<1>9. CASE WorkerRelease(w)
  <2>1. StoreOK'
    BY <1>9, RemoveFirstIsSeq DEF WorkerRelease, StoreOK
  <2>2. WorkersOK'
    BY <1>9 DEF WorkerRelease, WorkersOK, WorkerState, WorkerIdle
  <2>3. DrainsOK'
    BY <1>9, DrainSoonType DEF WorkerRelease, DrainsOK
  <2>4. HistoryOK' /\ HandlersOK'
    BY <1>9 DEF WorkerRelease, HistoryOK, HandlersOK
  <2> QED BY <2>1, <2>2, <2>3, <2>4
<1> QED BY <1>1, <1>2, <1>3, <1>4, <1>5, <1>6, <1>7, <1>8, <1>9 DEF WorkerStep

\* So does a restart, whatever was left in the processing list.
LEMMA RebootTypeOK ==
  ASSUME TypeOK, NEW kept \in Seq(Batch), NEW gone \in SUBSET Batch, Reboot(kept, gone)
  PROVE  TypeOK'
<1> USE DEF TypeOK, telemetry
<1>1. StoreOK'
  BY ConcatElements DEF Reboot, StoreOK
<1>2. Elements(kept) \subseteq Batch
  BY DEF Elements
<1>3. HistoryOK'
  BY <1>2 DEF Reboot, HistoryOK
<1>4. HandlersOK'
  BY DEF Reboot, HandlersOK, HandlerIdle, HandlerState, QueueStatus
<1>5. WorkersOK'
  BY DEF Reboot, WorkersOK, WorkerIdle, WorkerState
<1>6. DrainsOK'
  <2>1. PICK d \in Drain : drain' = [[e \in Drain |-> DrainOff] EXCEPT ![d].pc = "loop"]
    BY DEF Reboot
  <2> QED BY <2>1 DEF Reboot, DrainsOK, DrainOff, DrainState
<1> QED BY <1>1, <1>3, <1>4, <1>5, <1>6

\* The types are an invariant of every step.
LEMMA StepTypeOK == TypeOK /\ [Next]_vars => TypeOK'
<1> SUFFICES ASSUME TypeOK, [Next]_vars PROVE TypeOK'
  OBVIOUS
<1>1. CASE Shutdown
  BY <1>1 DEF Shutdown, TypeOK, StoreOK, HistoryOK, HandlersOK, DrainsOK, WorkersOK,
              redis, telemetry, loop, history
<1>2. CASE Restart
  BY <1>2, RebootTypeOK DEF Restart, InHand, TypeOK, StoreOK
<1>3. ASSUME NEW w \in Worker, DieInCatch(w) PROVE TypeOK'
  <2>1. worker[w].job \in Batch /\ RemoveFirst(processing, worker[w].job) \in Seq(Batch)
    BY <1>3, RemoveFirstIsSeq DEF DieInCatch, TypeOK, StoreOK, WorkersOK
  <2>2. InHand \cup {worker[w].job} \in SUBSET Batch
    BY <2>1 DEF InHand
  <2> QED BY <1>3, <2>1, <2>2, RebootTypeOK DEF DieInCatch
<1>4. CASE UNCHANGED vars
  BY <1>4 DEF vars, TypeOK, StoreOK, HistoryOK, HandlersOK, DrainsOK, WorkersOK,
              redis, telemetry, loop, history
<1> QED BY <1>1, <1>2, <1>3, <1>4, EnqueueTypeOK, DrainTypeOK, WorkerTypeOK DEF Next

\* Every reachable state has the types declared, so a request, a drain and a worker
\* always carry a batch when the code uses one.
THEOREM TypeCorrect == Spec => []TypeOK
BY InitTypeOK, StepTypeOK, PTL DEF Spec

-----------------------------------------------------------------------------
(* One drain loop, and one job per tenant.                                 *)

LoopPc == {"loop", "scan", "remove", "push"}

\* What FlagCovers and OneLoop say, of loop states ds under a flag.
Loops(ds, flag) ==
  \A d \in Drain : ds[d].pc \in LoopPc => flag /\ \A c \in Drain : ds[c].pc \in LoopPc => c = d

LEMMA LoopsMeaning == Loops(drain, draining) <=> OneLoop /\ FlagCovers
BY DEF Loops, LoopPc, OneLoop, FlagCovers, InLoop

\* drainSoon starts a loop only when there is none, and moves no loop that carries
\* a job.
LEMMA DrainSoonLoops ==
  ASSUME NEW ds \in [Drain -> DrainState], Loops(ds, draining), DrainSoon(ds)
  PROVE  /\ Loops(drain', draining')
         /\ \A d \in Drain : drain'[d].pc \in {"remove", "push"} => drain'[d] = ds[d]
         /\ \A d \in Drain : ds[d].pc # "off" => drain'[d] = ds[d]
<1>1. CASE draining \/ stopped
  BY <1>1 DEF DrainSoon
<1>2. CASE ~(draining \/ stopped)
  <2>1. PICK d \in Drain : /\ draining' = TRUE /\ drain' = [ds EXCEPT ![d].pc = "loop"]
                           /\ ds[d].pc = "off"
    BY <1>2 DEF DrainSoon
  <2>2. \A c \in Drain : ds[c].pc \notin LoopPc
    BY <1>2 DEF Loops
  <2> QED BY <2>1, <2>2 DEF Loops, LoopPc, DrainState
<1> QED BY <1>1, <1>2

\* A restart leaves the one loop onModuleInit schedules.
LEMMA RebootLoops ==
  ASSUME NEW kept, NEW gone, Reboot(kept, gone)
  PROVE  /\ Loops(drain', draining')
         /\ \A d \in Drain : drain'[d].pc \notin {"remove", "push"}
         /\ \A w \in Worker : worker'[w].pc = "idle"
<1>1. PICK d \in Drain : draining' = TRUE
                         /\ drain' = [[e \in Drain |-> DrainOff] EXCEPT ![d].pc = "loop"]
  BY DEF Reboot
<1> QED BY <1>1 DEF Reboot, Loops, LoopPc, DrainOff, WorkerIdle

\* The steps of one drain keep the loops single.
LEMMA DrainLoops ==
  ASSUME TypeOK, Loops(drain, draining), NEW d \in Drain, DrainStep(d)
  PROVE  Loops(drain', draining')
<1>0. drain \in [Drain -> DrainState]
  BY DEF TypeOK, DrainsOK
<1>1. ASSUME LeaveLoop(d), drain[d].pc \in LoopPc PROVE Loops(drain', draining')
  BY <1>0, <1>1 DEF LeaveLoop, Loops, LoopPc, DrainOff
<1>2. CASE DrainLength(d)
  <2>1. CASE LeaveLoop(d)
    BY <1>1, <1>2, <2>1 DEF DrainLength, LoopPc
  <2>2. CASE ~LeaveLoop(d)
    BY <1>0, <1>2, <2>2 DEF DrainLength, Loops, LoopPc, DrainState
  <2> QED BY <2>1, <2>2
<1>3. CASE DrainScan(d)
  <2>1. CASE LeaveLoop(d)
    BY <1>1, <1>3, <2>1 DEF DrainScan, LoopPc
  <2>2. CASE ~LeaveLoop(d)
    BY <1>0, <1>3, <2>2 DEF DrainScan, Loops, LoopPc, DrainState
  <2> QED BY <2>1, <2>2
<1>4. CASE DrainRemove(d)
  BY <1>0, <1>4 DEF DrainRemove, Loops, LoopPc, DrainState
<1>5. CASE DrainPush(d)
  BY <1>0, <1>5 DEF DrainPush, Loops, LoopPc, DrainState, DrainOff
<1>6. CASE DrainRecheck(d)
  <2> DEFINE ds == [drain EXCEPT ![d] = DrainOff]
  <2>1. ds \in [Drain -> DrainState] /\ Loops(ds, draining)
    <3>1. ds \in [Drain -> DrainState]
      BY <1>0 DEF DrainState, DrainOff
    <3>2. Loops(ds, draining)
      BY <1>0 DEF Loops, LoopPc, DrainOff
    <3> QED BY <3>1, <3>2
  <2>2. CASE queue # <<>>
    BY <1>6, <2>1, <2>2, DrainSoonLoops DEF DrainRecheck
  <2>3. CASE queue = <<>>
    BY <1>6, <2>1, <2>3 DEF DrainRecheck
  <2> QED BY <2>2, <2>3
<1> QED BY <1>2, <1>3, <1>4, <1>5, <1>6 DEF DrainStep

\* No step makes a second loop.
LEMMA StepLoops == TypeOK /\ Loops(drain, draining) /\ [Next]_vars => Loops(drain', draining')
<1> SUFFICES ASSUME TypeOK, Loops(drain, draining), [Next]_vars PROVE Loops(drain', draining')
  OBVIOUS
<1>0. drain \in [Drain -> DrainState]
  BY DEF TypeOK, DrainsOK
<1>1. ASSUME NEW h \in Handler, Enqueue(h) PROVE Loops(drain', draining')
  <2>1. CASE PushQueued(h)
    BY <1>0, <2>1, DrainSoonLoops DEF PushQueued
  <2>2. CASE ~PushQueued(h)
    BY <1>1, <2>2 DEF Enqueue, Lookup, MeasureQueue, MeasureRest, MarkQueued, PushFails, loop
  <2> QED BY <2>1, <2>2
<1>2. ASSUME NEW w \in Worker, WorkerStep(w) PROVE Loops(drain', draining')
  <2>1. CASE WorkerRelease(w)
    BY <1>0, <2>1, DrainSoonLoops DEF WorkerRelease
  <2>2. CASE ~WorkerRelease(w)
    BY <1>2, <2>2 DEF WorkerStep, WorkerBegin, IngestOk, IngestRefused, IngestFails, IngestRetries,
                      SuccessNotSaved, SettleOk, SettleFailed, loop
  <2> QED BY <2>1, <2>2
<1>3. CASE Shutdown
  BY <1>3 DEF Shutdown, loop
<1>4. CASE UNCHANGED vars
  BY <1>4 DEF vars, loop
<1>5. CASE Restart
  BY <1>5, RebootLoops DEF Restart
<1>6. ASSUME NEW w \in Worker, DieInCatch(w) PROVE Loops(drain', draining')
  BY <1>6, RebootLoops DEF DieInCatch
<1> QED BY <1>1, <1>2, <1>3, <1>4, <1>5, <1>6, DrainLoops DEF Next

TenantInv == CarriesIdle /\ BusyIsActive /\ TenantExclusive

\* A worker step other than the release keeps the worker's job and changes neither
\* activeTenants nor the loops nor the processing list.
LEMMA WorkerKeepsJob ==
  ASSUME WorkersOK, NEW w \in Worker, WorkerStep(w), ~WorkerRelease(w)
  PROVE  /\ UNCHANGED <<active, drain, draining, queue, processing, handler>>
         /\ Busy(w) /\ worker'[w].pc # "idle" /\ worker'[w].job = worker[w].job
         /\ \A v \in Worker : v # w => worker'[v] = worker[v]
<1> USE DEF WorkersOK, WorkerState, Busy, Continue, redis, loop
<1>1. CASE WorkerBegin(w)
  BY <1>1 DEF WorkerBegin
<1>2. CASE IngestOk(w)
  BY <1>2 DEF IngestOk
<1>3. CASE IngestRefused(w)
  BY <1>3 DEF IngestRefused
<1>4. ASSUME NEW committed \in BOOLEAN, IngestFails(w, committed)
      PROVE  /\ UNCHANGED <<active, drain, draining, queue, processing, handler>>
             /\ Busy(w) /\ worker'[w].pc # "idle" /\ worker'[w].job = worker[w].job
             /\ \A v \in Worker : v # w => worker'[v] = worker[v]
  BY <1>4 DEF IngestFails
<1>5. ASSUME NEW committed \in BOOLEAN, IngestRetries(w, committed)
      PROVE  /\ UNCHANGED <<active, drain, draining, queue, processing, handler>>
             /\ Busy(w) /\ worker'[w].pc # "idle" /\ worker'[w].job = worker[w].job
             /\ \A v \in Worker : v # w => worker'[v] = worker[v]
  BY <1>5 DEF IngestRetries
<1>6. CASE SuccessNotSaved(w)
  BY <1>6 DEF SuccessNotSaved
<1>7. CASE SettleOk(w)
  BY <1>7 DEF SettleOk
<1>8. CASE SettleFailed(w)
  BY <1>8 DEF SettleFailed
<1> QED BY <1>1, <1>2, <1>3, <1>4, <1>5, <1>6, <1>7, <1>8 DEF WorkerStep

\* Taking a job of an idle tenant and giving its worker the tenant.
LEMMA DrainTenants ==
  ASSUME TypeOK, Loops(drain, draining), TenantInv, NEW d \in Drain, DrainStep(d)
  PROVE  TenantInv'
<1> USE DEF TenantInv
<1>0. /\ drain \in [Drain -> DrainState] /\ worker \in [Worker -> WorkerState]
      /\ StoreOK /\ DrainsOK
  BY DEF TypeOK, DrainsOK, WorkersOK
<1>1. ASSUME UNCHANGED <<worker, active>>, CarriesIdle' PROVE TenantInv'
  BY <1>1 DEF TenantExclusive, BusyIsActive, Busy
<1>2. ASSUME LeaveLoop(d), UNCHANGED active PROVE CarriesIdle'
  BY <1>0, <1>2 DEF LeaveLoop, CarriesIdle, DrainOff
<1>3. CASE DrainLength(d)
  <2>1. UNCHANGED <<worker, active>>
    BY <1>3 DEF DrainLength
  <2>2. CASE LeaveLoop(d)
    BY <1>1, <1>2, <2>1, <2>2
  <2>3. CASE ~LeaveLoop(d)
    <3> DEFINE n == MinOf(Len(queue), ScanLimit)
    <3>1. drain' = [drain EXCEPT ![d].pc = "scan", ![d].seen = n]
      BY <1>3, <2>3 DEF DrainLength
    <3> HIDE DEF n
    <3>2. CarriesIdle'
      BY <1>0, <2>1, <3>1 DEF CarriesIdle, DrainState
    <3> QED BY <1>1, <2>1, <3>2
  <2> QED BY <2>2, <2>3
<1>4. CASE DrainScan(d)
  <2>1. UNCHANGED <<worker, active>>
    BY <1>4 DEF DrainScan
  <2>2. CASE LeaveLoop(d)
    BY <1>1, <1>2, <2>1, <2>2
  <2>3. CASE ~LeaveLoop(d)
    <3>1. PICK i \in Takeable(d) :
            drain' = [drain EXCEPT ![d] = [pc |-> "remove", seen |-> 0, index |-> i,
                                           job |-> queue[i]]]
      BY <1>4, <2>3 DEF DrainScan
    <3>2. TenantOf[queue[i]] \notin active
      BY <1>0, TakeableInQueue
    <3>3. CarriesIdle'
      BY <1>0, <2>1, <3>1, <3>2 DEF CarriesIdle
    <3> QED BY <1>1, <2>1, <3>3
  <2> QED BY <2>2, <2>3
<1>5. CASE DrainRemove(d)
  <2>1. UNCHANGED <<worker, active>>
    BY <1>5 DEF DrainRemove
  <2>2. CarriesIdle'
    BY <1>0, <1>5, <2>1 DEF DrainRemove, CarriesIdle, DrainState
  <2> QED BY <1>1, <2>1, <2>2
<1>6. CASE DrainPush(d)
  <2> DEFINE b == drain[d].job
  <2>1. PICK w \in Worker :
          worker[w].pc = "idle" /\ worker' = [worker EXCEPT ![w] = [pc |-> "begin", job |-> b, attempt |-> 1]]
    BY <1>6 DEF DrainPush
  <2>2. active' = active \cup {TenantOf[b]} /\ TenantOf[b] \notin active
    BY <1>6 DEF DrainPush, CarriesIdle
  <2>3. BusyIsActive'
    BY <1>0, <2>1, <2>2 DEF BusyIsActive, Busy
  <2>4. TenantExclusive'
    BY <1>0, <2>1, <2>2 DEF TenantExclusive, BusyIsActive, Busy
  <2>5. CarriesIdle'
    <3>1. \A e \in Drain : drain'[e].pc \notin {"remove", "push"}
      BY <1>0, <1>6 DEF DrainPush, Loops, LoopPc, DrainOff
    <3> QED BY <3>1 DEF CarriesIdle
  <2> QED BY <2>3, <2>4, <2>5
<1>7. CASE DrainRecheck(d)
  <2> DEFINE ds == [drain EXCEPT ![d] = DrainOff]
  <2>1. ds \in [Drain -> DrainState] /\ Loops(ds, draining)
    <3>1. ds \in [Drain -> DrainState]
      BY <1>0 DEF DrainState, DrainOff
    <3>2. Loops(ds, draining)
      BY <1>0 DEF Loops, LoopPc, DrainOff
    <3> QED BY <3>1, <3>2
  <2>2. \A e \in Drain : drain'[e].pc \in {"remove", "push"} => drain'[e] = ds[e]
    BY <1>7, <2>1, DrainSoonLoops DEF DrainRecheck
  <2>3. CarriesIdle'
    BY <1>0, <1>7, <2>2 DEF DrainRecheck, CarriesIdle, DrainOff
  <2> QED BY <1>1, <1>7, <2>3 DEF DrainRecheck
<1> QED BY <1>3, <1>4, <1>5, <1>6, <1>7 DEF DrainStep

\* No step gives a tenant a second job.
LEMMA StepTenants ==
  TypeOK /\ Loops(drain, draining) /\ TenantInv /\ [Next]_vars => TenantInv'
<1> SUFFICES ASSUME TypeOK, Loops(drain, draining), TenantInv, [Next]_vars PROVE TenantInv'
  OBVIOUS
<1> USE DEF TenantInv
<1>0. /\ drain \in [Drain -> DrainState] /\ worker \in [Worker -> WorkerState] /\ WorkersOK
  BY DEF TypeOK, DrainsOK, WorkersOK
<1>1. ASSUME UNCHANGED <<worker, active>>,
             \A d \in Drain : drain'[d].pc \in {"remove", "push"} => drain'[d] = drain[d]
      PROVE  TenantInv'
  BY <1>1 DEF CarriesIdle, TenantExclusive, BusyIsActive, Busy
<1>2. ASSUME NEW h \in Handler, Enqueue(h) PROVE TenantInv'
  <2>1. CASE PushQueued(h)
    BY <1>0, <1>1, <2>1, DrainSoonLoops DEF PushQueued
  <2>2. CASE ~PushQueued(h)
    BY <1>1, <1>2, <2>2
       DEF Enqueue, Lookup, MeasureQueue, MeasureRest, MarkQueued, PushFails, loop
  <2> QED BY <2>1, <2>2
<1>3. ASSUME NEW w \in Worker, WorkerStep(w) PROVE TenantInv'
  <2>1. CASE WorkerRelease(w)
    <3>1. /\ worker' = [worker EXCEPT ![w] = WorkerIdle] /\ Busy(w)
          /\ active' = active \ {TenantOf[worker[w].job]}
      BY <2>1 DEF WorkerRelease, Busy
    <3>2. \A d \in Drain : drain'[d].pc \in {"remove", "push"} => drain'[d] = drain[d]
      BY <1>0, <2>1, DrainSoonLoops DEF WorkerRelease
    <3>3. CarriesIdle'
      BY <3>1, <3>2 DEF CarriesIdle
    <3>4. worker'[w].pc = "idle" /\ \A v \in Worker : v # w => worker'[v] = worker[v]
      BY <1>0, <3>1 DEF WorkerIdle
    <3>5. TenantExclusive'
      BY <3>4 DEF TenantExclusive, Busy
    <3>6. ASSUME NEW v \in Worker, Busy(v)' PROVE TenantOf[worker'[v].job] \in active'
      <4>1. v # w /\ worker'[v] = worker[v] /\ Busy(v)
        BY <3>4, <3>6 DEF Busy
      <4>2. TenantOf[worker[v].job] \in active /\ TenantOf[worker[v].job] # TenantOf[worker[w].job]
        BY <3>1, <4>1 DEF BusyIsActive, TenantExclusive
      <4> QED BY <3>1, <4>1, <4>2
    <3>7. BusyIsActive'
      BY <3>6 DEF BusyIsActive
    <3> QED BY <3>3, <3>5, <3>7
  <2>2. CASE ~WorkerRelease(w)
    BY <1>0, <1>3, <2>2, WorkerKeepsJob DEF CarriesIdle, BusyIsActive, TenantExclusive, Busy
  <2> QED BY <2>1, <2>2
<1>4. CASE Shutdown
  BY <1>1, <1>4 DEF Shutdown, loop
<1>5. CASE UNCHANGED vars
  BY <1>1, <1>5 DEF vars, loop
<1>6. ASSUME NEW kept, NEW gone, Reboot(kept, gone) PROVE TenantInv'
  BY <1>6, RebootLoops DEF CarriesIdle, BusyIsActive, TenantExclusive, Busy
<1> QED BY <1>2, <1>3, <1>4, <1>5, <1>6, DrainTenants DEF Next, Restart, DieInCatch

\* In every reachable state at most one job of a tenant is being ingested, although
\* takeNextJob tests activeTenants two awaits before drain() adds to it.
THEOREM TenantsExclusive == Spec => []TenantExclusive
<1> DEFINE I == TypeOK /\ Loops(drain, draining) /\ TenantInv
<1>1. Init => I
  BY InitTypeOK DEF Init, Loops, LoopPc, TenantInv, CarriesIdle, BusyIsActive, TenantExclusive,
                    Busy, DrainOff, WorkerIdle
<1>2. I /\ [Next]_vars => I'
  <2>1. Loops(drain, draining)' <=> Loops(drain', draining')
    BY DEF Loops
  <2> QED BY <2>1, StepTypeOK, StepLoops, StepTenants
<1>3. I => TenantExclusive
  BY DEF TenantInv
<1> QED BY <1>1, <1>2, <1>3, PTL DEF Spec

-----------------------------------------------------------------------------
(* No accepted batch is forgotten.                                         *)

\* DrainRecheck is a drainSoon, or nothing, on the loops without its own.
LEMMA RecheckKeeps ==
  ASSUME TypeOK, Loops(drain, draining), NEW d \in Drain, DrainRecheck(d)
  PROVE  /\ \A e \in Drain : drain'[e].pc \in {"remove", "push"} => drain'[e] = drain[e]
         /\ \A e \in Drain : drain[e].pc \in {"remove", "push"} => drain'[e] = drain[e]
<1>0. drain \in [Drain -> DrainState]
  BY DEF TypeOK, DrainsOK
<1> DEFINE ds == [drain EXCEPT ![d] = DrainOff]
<1>1. ds \in [Drain -> DrainState]
  BY <1>0 DEF DrainState, DrainOff
<1>2. Loops(ds, draining)
  BY <1>0 DEF Loops, LoopPc, DrainOff
<1>3. /\ \A e \in Drain : drain'[e].pc \in {"remove", "push"} => drain'[e] = ds[e]
      /\ \A e \in Drain : ds[e].pc # "off" => drain'[e] = ds[e]
  BY <1>1, <1>2, DrainSoonLoops DEF DrainRecheck
<1>4. \A e \in Drain : e # d => ds[e] = drain[e]
  BY <1>0
<1>5. ds[d].pc = "off" /\ drain[d].pc = "recheck"
  BY <1>0 DEF DrainOff, DrainRecheck
<1> HIDE DEF ds
<1> QED BY <1>3, <1>4, <1>5

\* The index a loop carries stays the index of its job: only that loop removes, and
\* pushes go to the other end.
LEMMA StepIndexFresh ==
  ASSUME TypeOK, Loops(drain, draining), IndexFresh, [Next]_vars
  PROVE  IndexFresh'
<1>0. /\ drain \in [Drain -> DrainState] /\ queue \in Seq(Batch) /\ StoreOK /\ DrainsOK
  BY DEF TypeOK, DrainsOK, StoreOK
<1>1. ASSUME UNCHANGED queue,
             \A d \in Drain : drain'[d].pc = "remove" => drain'[d] = drain[d]
      PROVE  IndexFresh'
  BY <1>1 DEF IndexFresh
<1>2. ASSUME NEW h \in Handler, Enqueue(h) PROVE IndexFresh'
  <2>1. CASE PushQueued(h)
    <3>1. handler[h].batch \in Batch
      BY <2>1 DEF PushQueued, TypeOK, HandlersOK
    <3>2. \A d \in Drain : drain'[d].pc \in {"remove", "push"} => drain'[d] = drain[d]
      BY <1>0, <2>1, DrainSoonLoops DEF PushQueued
    <3>3. /\ Len(queue') = Len(queue) + 1
          /\ \A i \in 1 .. Len(queue) : queue'[i] = queue[i]
      BY <1>0, <2>1, <3>1 DEF PushQueued
    <3>4. Len(queue) \in Nat
      BY <1>0
    <3> QED BY <3>2, <3>3, <3>4 DEF IndexFresh
  <2>2. CASE ~PushQueued(h)
    BY <1>1, <1>2, <2>2
       DEF Enqueue, Lookup, MeasureQueue, MeasureRest, MarkQueued, PushFails, loop, redis
  <2> QED BY <2>1, <2>2
<1>3. ASSUME NEW d \in Drain, LeaveLoop(d), UNCHANGED queue PROVE IndexFresh'
  BY <1>0, <1>1, <1>3 DEF LeaveLoop, DrainOff
<1>4. ASSUME NEW d \in Drain, DrainLength(d) PROVE IndexFresh'
  <2>1. CASE LeaveLoop(d)
    BY <1>3, <1>4, <2>1 DEF DrainLength, redis
  <2>2. CASE ~LeaveLoop(d)
    <3> DEFINE n == MinOf(Len(queue), ScanLimit)
    <3>1. UNCHANGED queue /\ drain' = [drain EXCEPT ![d].pc = "scan", ![d].seen = n]
      BY <1>4, <2>2 DEF DrainLength, redis
    <3> HIDE DEF n
    <3>2. \A e \in Drain : drain'[e].pc = "remove" => drain'[e] = drain[e]
      BY <1>0, <3>1 DEF DrainState
    <3> QED BY <1>1, <3>1, <3>2
  <2> QED BY <2>1, <2>2
<1>5. ASSUME NEW d \in Drain, DrainScan(d) PROVE IndexFresh'
  <2>1. CASE LeaveLoop(d)
    BY <1>3, <1>5, <2>1 DEF DrainScan, redis
  <2>2. CASE ~LeaveLoop(d)
    <3>1. PICK i \in Takeable(d) :
            drain' = [drain EXCEPT ![d] = [pc |-> "remove", seen |-> 0, index |-> i,
                                           job |-> queue[i]]]
      BY <1>5, <2>2 DEF DrainScan
    <3>2. i \in 1 .. Len(queue)
      BY <1>0, TakeableInQueue
    <3>3. UNCHANGED queue
      BY <1>5 DEF DrainScan, redis
    <3> QED BY <1>0, <3>1, <3>2, <3>3 DEF IndexFresh
  <2> QED BY <2>1, <2>2
<1>6. ASSUME NEW d \in Drain, DrainRemove(d) PROVE IndexFresh'
  <2>1. \A e \in Drain : drain'[e].pc # "remove"
    BY <1>0, <1>6 DEF DrainRemove, Loops, LoopPc, DrainState
  <2> QED BY <2>1 DEF IndexFresh
<1>7. ASSUME NEW d \in Drain, DrainPush(d) PROVE IndexFresh'
  BY <1>0, <1>1, <1>7 DEF DrainPush, DrainOff
<1>8. ASSUME NEW d \in Drain, DrainRecheck(d) PROVE IndexFresh'
  BY <1>1, <1>8, RecheckKeeps DEF DrainRecheck, redis
<1>9. ASSUME NEW w \in Worker, WorkerStep(w) PROVE IndexFresh'
  <2>1. CASE WorkerRelease(w)
    BY <1>0, <1>1, <2>1, DrainSoonLoops DEF WorkerRelease
  <2>2. CASE ~WorkerRelease(w)
    BY <1>1, <1>9, <2>2, WorkerKeepsJob DEF TypeOK
  <2> QED BY <2>1, <2>2
<1>10. CASE Shutdown
  BY <1>1, <1>10 DEF Shutdown, loop, redis
<1>11. CASE UNCHANGED vars
  BY <1>1, <1>11 DEF vars, loop, redis
<1>12. ASSUME NEW kept, NEW gone, Reboot(kept, gone) PROVE IndexFresh'
  BY <1>12, RebootLoops DEF IndexFresh
<1> QED BY <1>2, <1>4, <1>5, <1>6, <1>7, <1>8, <1>9, <1>10, <1>11, <1>12
        DEF Next, DrainStep, Restart, DieInCatch

\* A running job stays in the processing list until its own worker releases it,
\* because another worker's job is another tenant's.
LEMMA StepListed ==
  ASSUME TypeOK, Loops(drain, draining), TenantInv, BusyIsListed, [Next]_vars
  PROVE  BusyIsListed'
<1>0. /\ worker \in [Worker -> WorkerState] /\ WorkersOK /\ processing \in Seq(Batch)
  BY DEF TypeOK, WorkersOK, StoreOK
<1>1. ASSUME UNCHANGED <<processing, worker>> PROVE BusyIsListed'
  BY <1>1 DEF BusyIsListed, Busy, Elements
<1>2. ASSUME NEW h \in Handler, Enqueue(h) PROVE BusyIsListed'
  BY <1>1, <1>2
     DEF Enqueue, Lookup, MeasureQueue, MeasureRest, MarkQueued, PushQueued, PushFails, redis
<1>3. ASSUME NEW d \in Drain, DrainStep(d) PROVE BusyIsListed'
  <2>1. CASE DrainPush(d)
    <3> DEFINE b == drain[d].job
    <3>1. b \in Batch
      BY <2>1 DEF DrainPush, TypeOK, DrainsOK
    <3>2. PICK w \in Worker :
            worker' = [worker EXCEPT ![w] = [pc |-> "begin", job |-> b, attempt |-> 1]]
      BY <2>1 DEF DrainPush
    <3>3. Elements(processing) \subseteq Elements(processing') /\ b \in Elements(processing')
      BY <1>0, <2>1, <3>1, AppendElements DEF DrainPush
    <3>4. Elements(processing)' = Elements(processing')
      BY DEF Elements
    <3> QED BY <1>0, <3>2, <3>3, <3>4 DEF BusyIsListed, Busy
  <2>2. CASE ~DrainPush(d)
    BY <1>1, <1>3, <2>2
       DEF DrainStep, DrainLength, DrainScan, DrainRemove, DrainRecheck, redis
  <2> QED BY <2>1, <2>2
<1>4. ASSUME NEW w \in Worker, WorkerStep(w) PROVE BusyIsListed'
  <2>1. CASE WorkerRelease(w)
    <3>1. ASSUME NEW v \in Worker, Busy(v)'
          PROVE  worker'[v].job \in Elements(processing')
      <4>1. v # w /\ worker'[v] = worker[v] /\ Busy(v) /\ Busy(w)
        BY <1>0, <2>1, <3>1 DEF WorkerRelease, Busy, WorkerIdle
      <4>2. worker[v].job # worker[w].job
        BY <4>1 DEF TenantInv, TenantExclusive
      <4>3. worker[v].job \in Elements(processing)
        BY <4>1 DEF BusyIsListed
      <4>4. processing' = RemoveFirst(processing, worker[w].job)
        BY <2>1 DEF WorkerRelease
      <4> QED BY <1>0, <4>1, <4>2, <4>3, <4>4, RemoveFirstKeeps
    <3> QED BY <3>1 DEF BusyIsListed, Elements
  <2>2. CASE ~WorkerRelease(w)
    BY <1>0, <1>4, <2>2, WorkerKeepsJob DEF BusyIsListed, Busy, Elements
  <2> QED BY <2>1, <2>2
<1>5. CASE Shutdown
  BY <1>1, <1>5 DEF Shutdown, redis
<1>6. CASE UNCHANGED vars
  BY <1>1, <1>6 DEF vars, redis
<1>7. ASSUME NEW kept, NEW gone, Reboot(kept, gone) PROVE BusyIsListed'
  BY <1>7, RebootLoops DEF BusyIsListed, Busy
<1> QED BY <1>2, <1>3, <1>4, <1>5, <1>6, <1>7 DEF Next, Restart, DieInCatch

Owed(b) == status[b] \in {"queued", "processing"} /\ b \notin stranded

\* The steps of a request keep the promises: a batch is marked before it is pushed.
LEMMA EnqueuePromise ==
  ASSUME TypeOK, Loops(drain, draining), NEW h \in Handler, Enqueue(h),
         NEW b \in Batch, Owed(b)', Owed(b) => Pending(b)
  PROVE  Pending(b)'
<1>0. /\ handler \in [Handler -> HandlerState] /\ status \in [Batch -> QueueStatus]
      /\ drain \in [Drain -> DrainState] /\ queue \in Seq(Batch) /\ stranded \in SUBSET Batch
  BY DEF TypeOK, HandlersOK, DrainsOK, StoreOK, HistoryOK
<1> USE DEF Owed, Pending, PendingApart, Posting, Moving, Settling
<1>1. ASSUME UNCHANGED <<redis, loop, worker, history>>, handler[h].pc # "push",
             \A g \in Handler : g # h => handler'[g] = handler[g]
      PROVE  Pending(b)'
  BY <1>1 DEF redis, loop, history, Elements
<1>2. ASSUME NEW c \in Batch, Lookup(h, c) PROVE Pending(b)'
  BY <1>0, <1>1, <1>2 DEF Lookup
<1>3. CASE MeasureQueue(h)
  BY <1>0, <1>1, <1>3 DEF MeasureQueue
<1>4. CASE MeasureRest(h)
  BY <1>0, <1>1, <1>4 DEF MeasureRest
<1>5. CASE MarkQueued(h)
  <2>1. handler' = [handler EXCEPT ![h].pc = "push"]
    BY <1>5 DEF MarkQueued
  <2>2. CASE b = handler[h].batch
    BY <1>0, <2>1, <2>2 DEF HandlerState
  <2>3. CASE b # handler[h].batch
    <3>1. Owed(b)
      BY <1>0, <1>5, <2>3 DEF MarkQueued
    <3> QED BY <1>0, <1>5, <2>1, <3>1 DEF MarkQueued, loop, Elements
  <2> QED BY <2>2, <2>3
<1>6. CASE PushQueued(h)
  <2> DEFINE c == handler[h].batch
  <2>1. c \in Batch /\ queue' = Append(queue, c) /\ UNCHANGED <<status, stranded, worker>>
    BY <1>6 DEF PushQueued, TypeOK, HandlersOK, history
  <2>2. Elements(queue) \subseteq Elements(queue') /\ c \in Elements(queue')
    BY <1>0, <2>1, AppendElements
  <2>3. \A d \in Drain : drain[d].pc # "off" => drain'[d] = drain[d]
    BY <1>0, <1>6, DrainSoonLoops DEF PushQueued
  <2>4. \A g \in Handler : g # h => handler'[g] = handler[g]
    BY <1>0, <1>6 DEF PushQueued
  <2>5. Elements(queue)' = Elements(queue')
    BY DEF Elements
  <2> QED BY <2>1, <2>2, <2>3, <2>4, <2>5
<1>7. CASE PushFails(h)
  <2>1. UNCHANGED <<queue, status, drain, worker>>
        /\ \A g \in Handler : g # h => handler'[g] = handler[g]
    BY <1>0, <1>7 DEF PushFails, redis, loop
  <2>2. Owed(b) /\ (b = handler[h].batch => PendingApart(Handler \ {h}, b))
    BY <1>7, <2>1 DEF PushFails
  <2>3. PendingApart(Handler \ {h}, b)
    BY <2>2
  <2> QED BY <2>1, <2>3 DEF Elements
<1> QED BY <1>2, <1>3, <1>4, <1>5, <1>6, <1>7 DEF Enqueue

\* So do the steps of a drain: what leaves the queue is the job it carries.
LEMMA DrainPromise ==
  ASSUME TypeOK, Loops(drain, draining), IndexFresh, NEW d \in Drain, DrainStep(d),
         NEW b \in Batch, Owed(b)', Owed(b) => Pending(b)
  PROVE  Pending(b)'
<1>0. /\ drain \in [Drain -> DrainState] /\ queue \in Seq(Batch)
      /\ worker \in [Worker -> WorkerState]
  BY DEF TypeOK, DrainsOK, StoreOK, WorkersOK
<1> USE DEF Owed, Pending, PendingApart, Posting, Moving, Settling
<1>1. UNCHANGED <<status, stranded, handler>>
  BY DEF DrainStep, DrainLength, DrainScan, DrainRemove, DrainPush, DrainRecheck, redis, history
<1>2. Owed(b) /\ Pending(b)
  BY <1>1
<1>3. ASSUME UNCHANGED <<queue, worker>>,
             \A e \in Drain : drain[e].pc = "push" => drain'[e] = drain[e]
      PROVE  Pending(b)'
  BY <1>1, <1>2, <1>3 DEF Elements
<1>4. CASE DrainLength(d) \/ DrainScan(d)
  <2>1. UNCHANGED <<queue, worker>> /\ drain[d].pc # "push"
    BY <1>4 DEF DrainLength, DrainScan, redis
  <2>2. \A e \in Drain : e # d => drain'[e] = drain[e]
    BY <1>0, <1>4 DEF DrainLength, DrainScan, LeaveLoop
  <2> QED BY <1>3, <2>1, <2>2
<1>5. CASE DrainRemove(d)
  <2> DEFINE i == drain[d].index
  <2>1. /\ drain[d].pc = "remove" /\ UNCHANGED worker
        /\ drain' = [drain EXCEPT ![d].pc = "push"]
        /\ queue' = RemoveQueuedIndex(queue, i)
    BY <1>5 DEF DrainRemove
  <2>2. i \in 1 .. Len(queue) /\ queue[i] = drain[d].job
    BY <2>1 DEF IndexFresh
  <2>3. CASE b = drain[d].job
    BY <1>0, <2>1, <2>3 DEF DrainState
  <2>4. CASE b # drain[d].job
    <3>1. b \in Elements(queue) => b \in Elements(queue')
      <4> HIDE DEF i
      <4> QED BY <1>0, <2>1, <2>2, <2>4, RemoveIndexElements
    <3>2. \A e \in Drain : drain[e].pc = "push" => drain'[e] = drain[e]
      BY <1>0, <2>1
    <3>3. Elements(queue)' = Elements(queue')
      BY DEF Elements
    <3> QED BY <1>1, <1>2, <2>1, <3>1, <3>2, <3>3
  <2> QED BY <2>3, <2>4
<1>6. CASE DrainPush(d)
  <2> DEFINE c == drain[d].job
  <2>1. PICK w \in Worker :
          /\ worker[w].pc = "idle"
          /\ worker' = [worker EXCEPT ![w] = [pc |-> "begin", job |-> c, attempt |-> 1]]
    BY <1>6 DEF DrainPush
  <2>2. UNCHANGED queue /\ \A e \in Drain : e # d => drain'[e] = drain[e]
    BY <1>0, <1>6 DEF DrainPush
  <2>3. worker'[w].pc = "begin" /\ worker'[w].job = c
    BY <1>0, <2>1
  <2>4. \A v \in Worker : v # w => worker'[v] = worker[v]
    BY <1>0, <2>1
  <2>5. Moving(d, b) => Settling(w, b)'
    BY <2>3
  <2>6. \A v \in Worker : Settling(v, b) => Settling(v, b)'
    BY <2>1, <2>4
  <2> QED BY <1>1, <1>2, <2>2, <2>5, <2>6 DEF Elements
<1>7. CASE DrainRecheck(d)
  BY <1>3, <1>7, RecheckKeeps DEF DrainRecheck, redis
<1> QED BY <1>4, <1>5, <1>6, <1>7 DEF DrainStep

\* And the steps of a worker: it stops settling a batch by giving it its last status.
LEMMA WorkerPromise ==
  ASSUME TypeOK, Loops(drain, draining), NEW w \in Worker, WorkerStep(w),
         NEW b \in Batch, Owed(b)', Owed(b) => Pending(b)
  PROVE  Pending(b)'
<1>0. /\ worker \in [Worker -> WorkerState] /\ status \in [Batch -> QueueStatus]
      /\ drain \in [Drain -> DrainState] /\ WorkersOK
  BY DEF TypeOK, WorkersOK, StoreOK, DrainsOK
<1> USE DEF Owed, Pending, PendingApart, Posting, Moving, Settling
<1>1. CASE WorkerRelease(w)
  <2>1. UNCHANGED <<queue, status, stranded, handler>> /\ worker[w].pc = "release"
        /\ \A v \in Worker : v # w => worker'[v] = worker[v]
    BY <1>0, <1>1 DEF WorkerRelease, history
  <2>2. \A d \in Drain : drain[d].pc # "off" => drain'[d] = drain[d]
    BY <1>0, <1>1, DrainSoonLoops DEF WorkerRelease
  <2> QED BY <2>1, <2>2 DEF Elements
<1>2. CASE ~WorkerRelease(w)
  <2>1. /\ UNCHANGED <<drain, queue, handler>>
        /\ worker'[w].pc # "idle" /\ worker'[w].job = worker[w].job
        /\ \A v \in Worker : v # w => worker'[v] = worker[v]
    BY <1>0, <1>2, WorkerKeepsJob
  <2>2. ASSUME Owed(b), worker'[w].pc # "release" \/ b # worker[w].job PROVE Pending(b)'
    BY <2>1, <2>2 DEF Elements
  <2>3. CASE WorkerBegin(w)
    <3>1. worker'[w].pc = "ingest" /\ worker[w].job \in Batch
      BY <1>0, <2>3 DEF WorkerBegin, Continue, WorkersOK
    <3>2. CASE b = worker[w].job
      BY <2>1, <3>1, <3>2
    <3>3. CASE b # worker[w].job
      <4>1. Owed(b)
        BY <1>0, <2>3, <3>1, <3>3 DEF WorkerBegin, history
      <4> QED BY <2>2, <3>3, <4>1
    <3> QED BY <3>2, <3>3
  <2>4. CASE SettleOk(w) \/ SettleFailed(w)
    <3>1. /\ worker[w].job \in Batch /\ UNCHANGED stranded
          /\ \/ status' = [status EXCEPT ![worker[w].job] = "ok"]
             \/ status' = [status EXCEPT ![worker[w].job] = "failed"]
      BY <1>0, <2>4 DEF SettleOk, SettleFailed, WorkersOK, history
    <3>2. b # worker[w].job /\ Owed(b)
      BY <1>0, <3>1
    <3> QED BY <2>2, <3>2
  <2>5. CASE ~WorkerBegin(w) /\ ~SettleOk(w) /\ ~SettleFailed(w)
    <3>1. UNCHANGED <<status, stranded>>
      BY <1>2, <2>5 DEF WorkerStep, IngestOk, IngestRefused, IngestFails, IngestRetries,
                        SuccessNotSaved, redis, history
    <3>2. worker'[w].pc # "release"
      BY <1>0, <1>2, <2>5 DEF WorkerStep, IngestOk, IngestRefused, IngestFails, IngestRetries,
                              SuccessNotSaved, Continue, WorkerState
    <3> QED BY <2>2, <3>1, <3>2
  <2> QED BY <2>3, <2>4, <2>5
<1> QED BY <1>1, <1>2

\* A restart keeps the promise of a batch some list holds, and names the others.
LEMMA RebootPromise ==
  ASSUME TypeOK, NEW kept \in Seq(Batch), NEW gone, Reboot(kept, gone),
         NEW b \in Batch, Owed(b)', Owed(b) => Pending(b),
         Pending(b) => b \in Elements(queue) \cup Elements(kept) \cup gone
  PROVE  Pending(b)'
<1>1. queue \in Seq(Batch) /\ queue' = queue \o kept
  BY DEF TypeOK, StoreOK, Reboot
<1>2. Elements(queue) \subseteq Elements(queue') /\ Elements(kept) \subseteq Elements(queue')
  BY <1>1, ConcatElements
<1>3. Owed(b) /\ (b \in gone => b \in Elements(queue) \cup Elements(kept))
  BY DEF Reboot, Owed
<1>4. b \in Elements(queue')
  BY <1>2, <1>3
<1> QED BY <1>4 DEF Pending, PendingApart, Elements

\* No step breaks a promise.
LEMMA StepPromise ==
  ASSUME TypeOK, Loops(drain, draining), IndexFresh, BusyIsListed, PromiseKept, [Next]_vars
  PROVE  PromiseKept'
<1> SUFFICES ASSUME NEW b \in Batch, Owed(b)' PROVE Pending(b)'
  BY DEF PromiseKept, Owed
<1>0. Owed(b) => Pending(b)
  BY DEF PromiseKept, Owed
<1>1. processing \in Seq(Batch)
  BY DEF TypeOK, StoreOK
<1>2. \A w \in Worker : Settling(w, b) => Busy(w) /\ b = worker[w].job /\ b \in Elements(processing)
  BY DEF Settling, Busy, BusyIsListed
<1>3. CASE Restart
  <2>1. Pending(b) => b \in Elements(queue) \cup Elements(processing) \cup InHand
    BY <1>2 DEF Pending, PendingApart, InHand
  <2> QED BY <1>0, <1>1, <1>3, <2>1, RebootPromise DEF Restart
<1>4. ASSUME NEW w \in Worker, DieInCatch(w) PROVE Pending(b)'
  <2> DEFINE kept == RemoveFirst(processing, worker[w].job)
             gone == InHand \cup {worker[w].job}
  <2>1. kept \in Seq(Batch) /\ Reboot(kept, gone)
    BY <1>1, <1>4, RemoveFirstIsSeq DEF DieInCatch
  <2>2. b \in Elements(processing) /\ b # worker[w].job => b \in Elements(kept)
    BY <1>1, RemoveFirstKeeps
  <2>3. Pending(b) => b \in Elements(queue) \cup Elements(kept) \cup gone
    BY <1>2, <2>2 DEF Pending, PendingApart, InHand
  <2> HIDE DEF kept, gone
  <2> QED BY <1>0, <2>1, <2>3, RebootPromise
<1>5. CASE Shutdown \/ UNCHANGED vars
  BY <1>0, <1>5 DEF Shutdown, vars, redis, loop, history, Owed, Pending, PendingApart, Posting,
                    Moving, Settling, Elements
<1> QED BY <1>0, <1>3, <1>4, <1>5, EnqueuePromise, DrainPromise, WorkerPromise DEF Next

-----------------------------------------------------------------------------
(* The inductive invariant.                                                *)

\* It holds initially, and every step keeps it.
LEMMA InitInvariant == Init => IInv
<1> SUFFICES ASSUME Init PROVE IInv
  OBVIOUS
<1>1. TypeOK
  BY InitTypeOK
<1>2. SingleDrain /\ FlagCovers /\ CarriesIdle
  BY DEF Init, SingleDrain, OneLoop, IndexFresh, FlagCovers, CarriesIdle, InLoop, DrainOff
<1>3. TenantExclusive /\ BusyIsActive /\ BusyIsListed
  BY DEF Init, TenantExclusive, BusyIsActive, BusyIsListed, Busy, WorkerIdle
<1>4. PromiseKept
  BY DEF Init, PromiseKept
<1> QED BY <1>1, <1>2, <1>3, <1>4 DEF IInv

LEMMA StepInvariant == IInv /\ [Next]_vars => IInv'
<1> SUFFICES ASSUME IInv, [Next]_vars PROVE IInv'
  OBVIOUS
<1>1. TypeOK /\ Loops(drain, draining) /\ TenantInv /\ IndexFresh /\ BusyIsListed /\ PromiseKept
  BY LoopsMeaning DEF IInv, SingleDrain, TenantInv
<1>2. TypeOK' /\ TenantInv' /\ IndexFresh' /\ BusyIsListed' /\ PromiseKept'
  BY <1>1, StepTypeOK, StepTenants, StepIndexFresh, StepListed, StepPromise
<1>3. OneLoop' /\ FlagCovers'
  <2>1. Loops(drain', draining')
    BY <1>1, StepLoops
  <2> QED BY <2>1 DEF Loops, LoopPc, OneLoop, FlagCovers, InLoop
<1> QED BY <1>2, <1>3 DEF IInv, SingleDrain, TenantInv

\* The conjunction the runs check is inductive, whatever the sets and the limits.
THEOREM Invariant == Spec => []IInv
BY InitInvariant, StepInvariant, PTL DEF Spec

\* However many requests, workers and finally blocks call drainSoon, there is one
\* loop, and the index it removes holds the job it read.
THEOREM OneDrain == Spec => []SingleDrain
<1>1. IInv => SingleDrain
  BY DEF IInv
<1> QED BY <1>1, Invariant, PTL

\* Every accepted batch is waiting, carried or being ingested, except the batches a
\* named failure took out of the lists.
THEOREM PromisesKept == Spec => []PromiseKept
<1>1. IInv => PromiseKept
  BY DEF IInv
<1> QED BY <1>1, Invariant, PTL

\* A run that ended stays ended: no step leaves the terminal statuses.
THEOREM RunsStayEnded == Spec => RunStaysEnded
<1>1. TypeOK /\ [Next]_vars =>
        [\A r \in Run : runStatus[r] \in TerminalRun => runStatus'[r] \in TerminalRun]_vars
  <2> SUFFICES ASSUME TypeOK, Next, NEW r \in Run, runStatus[r] \in TerminalRun
               PROVE  runStatus'[r] \in TerminalRun
    OBVIOUS
  <2>0. runStatus \in [Run -> RunStates]
    BY DEF TypeOK, StoreOK
  <2> USE DEF telemetry
  <2>1. ASSUME NEW h \in Handler, Enqueue(h) PROVE runStatus'[r] \in TerminalRun
    BY <2>0, <2>1 DEF Enqueue, Lookup, MeasureQueue, MeasureRest, MarkQueued, PushQueued,
                      PushFails, RunRecorded
  <2>2. ASSUME NEW d \in Drain, DrainStep(d) PROVE runStatus'[r] \in TerminalRun
    BY <2>2 DEF DrainStep, DrainLength, DrainScan, DrainRemove, DrainPush, DrainRecheck
  <2>3. ASSUME NEW w \in Worker, WorkerStep(w) PROVE runStatus'[r] \in TerminalRun
    BY <2>0, <2>3 DEF WorkerStep, WorkerBegin, IngestOk, RunAfterOk, IngestRefused, IngestFails,
                      IngestRetries, SuccessNotSaved, SettleOk, SettleFailed, WorkerRelease,
                      RunRecorded, TerminalRun
  <2>4. ASSUME NEW kept, NEW gone, Reboot(kept, gone) PROVE runStatus'[r] \in TerminalRun
    BY <2>4 DEF Reboot
  <2>5. CASE Shutdown
    BY <2>5 DEF Shutdown
  <2> QED BY <2>1, <2>2, <2>3, <2>4, <2>5 DEF Next, Restart, DieInCatch
<1> QED BY <1>1, TypeCorrect, PTL DEF Spec, RunStaysEnded

-----------------------------------------------------------------------------
(* Somebody looks at a queue that holds a job.                             *)

\* The flag is set only while a loop runs: drain() clears it before its last await.
Looping(ds, flag) == flag => \E d \in Drain : ds[d].pc \in LoopPc

\* drainSoon leaves a loop behind, its own or the one it found.
LEMMA DrainSoonWakes ==
  ASSUME NEW ds \in [Drain -> DrainState], Looping(ds, draining), DrainSoon(ds)
  PROVE  /\ Looping(drain', draining')
         /\ ~stopped => \E d \in Drain : drain'[d].pc # "off"
<1>1. CASE draining \/ stopped
  BY <1>1 DEF DrainSoon, Looping, LoopPc
<1>2. CASE ~(draining \/ stopped)
  <2>1. PICK d \in Drain : drain' = [ds EXCEPT ![d].pc = "loop"]
    BY <1>2 DEF DrainSoon
  <2>2. drain'[d].pc = "loop"
    BY <2>1 DEF DrainState
  <2> QED BY <2>2 DEF Looping, LoopPc
<1> QED BY <1>1, <1>2

\* A drain stays in the loop, or leaves it by the recheck.
LEMMA DrainStays ==
  ASSUME TypeOK, NEW d \in Drain, DrainStep(d), ~DrainRecheck(d)
  PROVE  /\ drain'[d].pc # "off"
         /\ draining' = FALSE \/ drain'[d].pc \in LoopPc
<1>0. drain \in [Drain -> DrainState]
  BY DEF TypeOK, DrainsOK
<1>1. LeaveLoop(d) => drain'[d].pc = "recheck" /\ draining' = FALSE
  BY <1>0 DEF LeaveLoop, DrainOff
<1>2. CASE LeaveLoop(d)
  BY <1>1, <1>2
<1>3. CASE ~LeaveLoop(d)
  <2>1. DrainLength(d) => drain'[d].pc = "scan"
    BY <1>0, <1>3 DEF DrainLength, DrainState
  <2>2. DrainScan(d) => drain'[d].pc = "remove"
    BY <1>0, <1>3 DEF DrainScan
  <2>3. DrainRemove(d) => drain'[d].pc = "push"
    BY <1>0 DEF DrainRemove, DrainState
  <2>4. DrainPush(d) => drain'[d].pc = "loop"
    BY <1>0 DEF DrainPush, DrainOff
  <2> QED BY <2>1, <2>2, <2>3, <2>4 DEF DrainStep, LoopPc
<1> QED BY <1>2, <1>3

\* Whoever puts a job into the queue, or stops looking at one, has somebody else look.
LEMMA StepWakes ==
  ASSUME TypeOK, Looping(drain, draining), NoLostWakeup, [Next]_vars
  PROVE  Looping(drain', draining') /\ NoLostWakeup'
<1>0. drain \in [Drain -> DrainState] /\ WorkersOK
  BY DEF TypeOK, DrainsOK
<1>1. ASSUME UNCHANGED <<drain, draining, queue>>, stopped' \/ UNCHANGED <<worker, stopped>>
      PROVE  Looping(drain', draining') /\ NoLostWakeup'
  BY <1>1 DEF NoLostWakeup, Busy
<1>2. ASSUME Looping(drain', draining'), stopped' \/ \E d \in Drain : drain'[d].pc # "off"
      PROVE  Looping(drain', draining') /\ NoLostWakeup'
  BY <1>2 DEF NoLostWakeup
<1>3. ASSUME NEW h \in Handler, Enqueue(h) PROVE Looping(drain', draining') /\ NoLostWakeup'
  <2>1. CASE PushQueued(h)
    <3>1. DrainSoon(drain) /\ UNCHANGED stopped
      BY <2>1 DEF PushQueued
    <3> QED BY <1>0, <1>2, <3>1, DrainSoonWakes
  <2>2. CASE ~PushQueued(h)
    BY <1>1, <1>3, <2>2
       DEF Enqueue, Lookup, MeasureQueue, MeasureRest, MarkQueued, PushFails, loop, redis
  <2> QED BY <2>1, <2>2
<1>4. ASSUME NEW d \in Drain, DrainStep(d) PROVE Looping(drain', draining') /\ NoLostWakeup'
  <2>1. CASE DrainRecheck(d)
    <3> DEFINE ds == [drain EXCEPT ![d] = DrainOff]
    <3>1. ds \in [Drain -> DrainState]
      BY <1>0 DEF DrainState, DrainOff
    <3>2. Looping(ds, draining)
      BY <1>0, <2>1 DEF DrainRecheck, Looping, LoopPc
    <3>3. CASE queue # <<>>
      <4>1. DrainSoon(ds) /\ UNCHANGED stopped
        BY <2>1, <3>3 DEF DrainRecheck
      <4> HIDE DEF ds
      <4> QED BY <1>2, <3>1, <3>2, <4>1, DrainSoonWakes
    <3>4. CASE queue = <<>>
      <4>1. drain' = ds /\ draining' = draining /\ queue' = <<>>
        BY <2>1, <3>4 DEF DrainRecheck, redis
      <4> QED BY <3>2, <4>1 DEF NoLostWakeup
    <3> QED BY <3>3, <3>4
  <2>2. CASE ~DrainRecheck(d)
    BY <1>2, <1>4, <2>2, DrainStays DEF Looping
  <2> QED BY <2>1, <2>2
<1>5. ASSUME NEW w \in Worker, WorkerStep(w) PROVE Looping(drain', draining') /\ NoLostWakeup'
  <2>1. CASE WorkerRelease(w)
    <3>1. DrainSoon(drain) /\ UNCHANGED stopped
      BY <2>1 DEF WorkerRelease
    <3> QED BY <1>0, <1>2, <3>1, DrainSoonWakes
  <2>2. CASE ~WorkerRelease(w)
    BY <1>0, <1>5, <2>2, WorkerKeepsJob DEF NoLostWakeup, Busy
  <2> QED BY <2>1, <2>2
<1>6. CASE Shutdown
  BY <1>1, <1>6 DEF Shutdown, loop, redis
<1>7. CASE UNCHANGED vars
  BY <1>1, <1>7 DEF vars, loop, redis
<1>8. ASSUME NEW kept, NEW gone, Reboot(kept, gone) PROVE Looping(drain', draining') /\ NoLostWakeup'
  <2>1. PICK d \in Drain : drain' = [[e \in Drain |-> DrainOff] EXCEPT ![d].pc = "loop"]
    BY <1>8 DEF Reboot
  <2>2. drain'[d].pc = "loop"
    BY <2>1 DEF DrainOff
  <2> QED BY <1>2, <2>2 DEF Looping, LoopPc
<1> QED BY <1>3, <1>4, <1>5, <1>6, <1>7, <1>8 DEF Next, Restart, DieInCatch

\* While the queue holds a job somebody is going to look at it, although drain() clears the
\* flag before it has seen that the queue is empty: the recheck and the workers' finally
\* blocks call drainSoon again.
THEOREM NoWakeupLost == Spec => []NoLostWakeup
<1> DEFINE I == Looping(drain, draining) /\ NoLostWakeup
<1>1. Init => I
  BY DEF Init, Looping, NoLostWakeup
<1>2. TypeOK /\ I /\ [Next]_vars => I'
  <2>1. Looping(drain, draining)' <=> Looping(drain', draining')
    BY DEF Looping
  <2> QED BY <2>1, StepWakes
<1>3. I => NoLostWakeup
  OBVIOUS
<1> QED BY <1>1, <1>2, <1>3, TypeCorrect, PTL DEF Spec

-----------------------------------------------------------------------------
(* The rows of a batch are committed once.  A batch with no reason to run  *)
(* again is in one place: a request about to push it, one index of the     *)
(* queue, a drain, a worker.                                               *)

Queued(b) == b \in Elements(queue)
Posted(b) == \E h \in Handler : Posting(h, b)
Moved(b)  == \E d \in Drain : Moving(d, b)
InWork(b) == \E w \in Worker : Settling(w, b)

\* A worker has the batch and has not committed it, or not for good.
Early(b) == \E w \in Worker : worker[w].pc \in {"begin", "ingest", "failed"} /\ worker[w].job = b

Unique(q, b) == \A i, j \in 1 .. Len(q) : q[i] = b /\ q[j] = b => i = j

OnceAt(b) ==
  /\ Unique(queue, b)
  /\ \A g, h \in Handler : Posting(g, b) /\ Posting(h, b) => g = h
  /\ Queued(b) => ~Posted(b) /\ ~Moved(b) /\ ~InWork(b)
  /\ Posted(b) => ~Moved(b) /\ ~InWork(b)
  /\ applied[b] \in {0, 1}
  /\ Queued(b) \/ Posted(b) \/ Moved(b) \/ Early(b) => applied[b] = 0
  /\ status[b] \in {"none", "failed"} =>
       applied[b] = 0 /\ ~Queued(b) /\ ~Posted(b) /\ ~Moved(b) /\ ~InWork(b)

\* A request marks a batch whose status it has read, or gives it a reason to run again.
FreshReads == \A h \in Handler : handler[h].pc # "idle" => handler[h].read \in {"none", "failed"}
OnceInv    == FreshReads /\ \A b \in Batch \ redo : OnceAt(b)

\* A step that takes a batch nowhere it was not.
LEMMA Calm ==
  ASSUME NEW b, OnceAt(b), Unique(queue', b), Queued(b)' => Queued(b),
         \A h \in Handler : Posting(h, b)' => Posting(h, b),
         Moved(b)' => Moved(b), InWork(b)' => InWork(b), Early(b)' => Early(b),
         applied'[b] = applied[b], status'[b] \in {"none", "failed"} => status[b] \in {"none", "failed"}
  PROVE  OnceAt(b)'
<1>1. Posted(b)' => Posted(b)
  BY DEF Posted
<1>2. Unique(queue, b)'
  BY DEF Unique
<1> QED BY <1>1, <1>2 DEF OnceAt

\* Where an entry of a list is after the removal of another.
LEMMA RemoveIndexAt ==
  ASSUME NEW S, NEW s \in Seq(S), NEW i \in 1 .. Len(s)
  PROVE  /\ Len(RemoveQueuedIndex(s, i)) = Len(s) - 1
         /\ \A k \in 1 .. Len(s) - 1 : RemoveQueuedIndex(s, i)[k] = IF k < i THEN s[k] ELSE s[k + 1]
<1> DEFINE p == SubSeq(s, 1, i - 1)
           q == SubSeq(s, i + 1, Len(s))
<1>1. /\ p \in Seq(S) /\ Len(p) = i - 1 /\ \A k \in 1 .. i - 1 : p[k] = s[k]
      /\ q \in Seq(S) /\ Len(q) = Len(s) - i /\ \A k \in 1 .. Len(s) - i : q[k] = s[i + k]
  OBVIOUS
<1>2. RemoveQueuedIndex(s, i) = p \o q
  BY DEF RemoveQueuedIndex
<1> HIDE DEF p, q
<1>3. /\ Len(p \o q) = Len(p) + Len(q)
      /\ \A k \in 1 .. Len(p) : (p \o q)[k] = p[k]
      /\ \A k \in 1 .. Len(q) : (p \o q)[Len(p) + k] = q[k]
  <2>1. p \in Seq(S) /\ q \in Seq(S)
    BY <1>1
  <2> QED BY <2>1
<1>4. Len(p \o q) = Len(s) - 1
  BY <1>1, <1>3
<1>5. ASSUME NEW k \in 1 .. Len(s) - 1 PROVE (p \o q)[k] = IF k < i THEN s[k] ELSE s[k + 1]
  <2>1. CASE k < i
    BY <1>1, <1>3, <2>1
  <2>2. CASE ~(k < i)
    <3>1. k - (i - 1) \in 1 .. Len(q) /\ Len(p) + (k - (i - 1)) = k /\ i + (k - (i - 1)) = k + 1
      BY <1>1, <2>2
    <3>2. (p \o q)[k] = q[k - (i - 1)]
      BY <1>3, <3>1
    <3>3. q[k - (i - 1)] = s[k + 1]
      BY <1>1, <3>1
    <3> QED BY <2>2, <3>2, <3>3
  <2> QED BY <2>1, <2>2
<1> QED BY <1>2, <1>4, <1>5

LEMMA RemoveIndexUnique ==
  ASSUME NEW S, NEW s \in Seq(S), NEW i \in 1 .. Len(s), NEW b, Unique(s, b)
  PROVE  /\ Unique(RemoveQueuedIndex(s, i), b)
         /\ b \in Elements(RemoveQueuedIndex(s, i)) => b \in Elements(s) /\ s[i] # b
<1> DEFINE r == RemoveQueuedIndex(s, i)
           at(k) == IF k < i THEN k ELSE k + 1
<1>1. Len(r) = Len(s) - 1 /\ \A k \in 1 .. Len(r) : at(k) \in 1 .. Len(s) /\ r[k] = s[at(k)] /\ at(k) # i
  BY RemoveIndexAt
<1>2. \A j, k \in 1 .. Len(r) : at(j) = at(k) => j = k
  BY <1>1
<1> HIDE DEF r, at
<1>3. Unique(r, b)
  BY <1>1, <1>2 DEF Unique
<1>4. b \in Elements(r) => b \in Elements(s) /\ s[i] # b
  BY <1>1 DEF Unique, Elements
<1> QED BY <1>3, <1>4 DEF r

\* A batch that only one of two lists holds is as unique in both together.
LEMMA ConcatUnique ==
  ASSUME NEW S, NEW s \in Seq(S), NEW t \in Seq(S), NEW b, Unique(s, b), b \notin Elements(t)
  PROVE  Unique(s \o t, b) /\ (b \in Elements(s \o t) => b \in Elements(s))
<1>1. /\ Len(s \o t) = Len(s) + Len(t)
      /\ \A i \in 1 .. Len(s) : (s \o t)[i] = s[i]
      /\ \A i \in 1 .. Len(t) : (s \o t)[Len(s) + i] = t[i]
  OBVIOUS
<1>2. \A i \in 1 .. Len(s \o t) : i \in 1 .. Len(s) \/ (i - Len(s) \in 1 .. Len(t) /\ Len(s) + (i - Len(s)) = i)
  BY <1>1
<1>3. \A i \in 1 .. Len(s \o t) : (s \o t)[i] = b => i \in 1 .. Len(s) /\ s[i] = b
  BY <1>1, <1>2 DEF Elements
<1> QED BY <1>3 DEF Unique, Elements

\* One more entry of a batch that was not there.
LEMMA AppendUnique ==
  ASSUME NEW S, NEW s \in Seq(S), NEW e \in S, NEW b, Unique(s, b), b = e => b \notin Elements(s)
  PROVE  Unique(Append(s, e), b) /\ (b \in Elements(Append(s, e)) => b \in Elements(s) \/ b = e)
<1>1. /\ Len(Append(s, e)) = Len(s) + 1 /\ Append(s, e)[Len(s) + 1] = e
      /\ \A i \in 1 .. Len(s) : Append(s, e)[i] = s[i]
  OBVIOUS
<1>2. \A i \in 1 .. Len(s) + 1 : i \in 1 .. Len(s) \/ i = Len(s) + 1
  OBVIOUS
<1> QED BY <1>1, <1>2 DEF Unique, Elements

\* A request posts a batch that is nowhere, and pushes one that is nowhere else.
LEMMA EnqueueOnce ==
  ASSUME TypeOK, Loops(drain, draining), FreshReads, NEW h \in Handler, Enqueue(h),
         NEW b \in Batch, b \notin redo', OnceAt(b)
  PROVE  OnceAt(b)'
<1>0. /\ handler \in [Handler -> HandlerState] /\ status \in [Batch -> QueueStatus]
      /\ drain \in [Drain -> DrainState] /\ queue \in Seq(Batch) /\ HandlersOK
  BY DEF TypeOK, HandlersOK, DrainsOK, StoreOK
<1>1. UNCHANGED <<worker, applied>>
  BY DEF Enqueue, Lookup, MeasureQueue, MeasureRest, MarkQueued, PushQueued, PushFails, history
<1>2. InWork(b)' = InWork(b) /\ Early(b)' = Early(b) /\ applied'[b] = applied[b]
  BY <1>1 DEF InWork, Early, Settling
<1>3. ASSUME UNCHANGED <<queue, status, drain>>, \A g \in Handler : Posting(g, b)' => Posting(g, b)
      PROVE  OnceAt(b)'
  <2>1. Unique(queue', b) /\ Queued(b)' = Queued(b) /\ Moved(b)' = Moved(b) /\ status'[b] = status[b]
    BY <1>3 DEF OnceAt, Queued, Moved, Moving, Elements
  <2> QED BY <1>2, <1>3, <2>1, Calm
<1>4. ASSUME NEW c \in Batch, Lookup(h, c) PROVE OnceAt(b)'
  <2>1. \A g \in Handler : Posting(g, b)' => Posting(g, b)
    BY <1>0, <1>4 DEF Lookup, Posting
  <2> QED BY <1>3, <1>4, <2>1 DEF Lookup, redis, loop
<1>5. CASE MeasureQueue(h)
  <2>1. \A g \in Handler : Posting(g, b)' => Posting(g, b)
    BY <1>0, <1>5 DEF MeasureQueue, Posting, HandlerState
  <2> QED BY <1>3, <1>5, <2>1 DEF MeasureQueue, redis, loop
<1>6. CASE MeasureRest(h)
  <2>1. handler'[h].pc # "push" /\ \A g \in Handler : g # h => handler'[g] = handler[g]
    BY <1>0, <1>6 DEF MeasureRest, HandlerState, HandlerIdle
  <2> QED BY <1>3, <1>6, <2>1 DEF MeasureRest, Posting, redis, loop
<1>7. CASE PushFails(h)
  <2>1. \A g \in Handler : Posting(g, b)' => Posting(g, b)
    BY <1>0, <1>7 DEF PushFails, Posting, HandlerIdle
  <2> QED BY <1>3, <1>7, <2>1 DEF PushFails, redis, loop
<1>8. CASE MarkQueued(h)
  <2> DEFINE c == handler[h].batch
  <2>1. /\ handler' = [handler EXCEPT ![h].pc = "push"] /\ c \in Batch
        /\ status' = [status EXCEPT ![c] = "queued"] /\ UNCHANGED <<queue, drain>>
    BY <1>0, <1>8 DEF MarkQueued, HandlersOK, loop
  <2>2. Unique(queue', b) /\ Queued(b)' = Queued(b) /\ Moved(b)' = Moved(b)
    BY <2>1 DEF OnceAt, Queued, Moved, Moving, Elements
  <2>3. CASE b = c
    <3>1. status[b] \in {"none", "failed"}
      BY <1>8, <2>3 DEF MarkQueued, FreshReads
    <3>2. applied[b] = 0 /\ ~Queued(b) /\ ~Posted(b) /\ ~Moved(b) /\ ~InWork(b)
      BY <3>1 DEF OnceAt
    <3>3. \A g \in Handler : Posting(g, b)' => g = h
      BY <1>0, <2>1, <3>2 DEF Posted, Posting
    <3>4. status'[b] = "queued"
      BY <1>0, <2>1, <2>3
    <3>5. Unique(queue, b)'
      BY <2>2 DEF Unique
    <3> QED BY <1>2, <2>2, <3>2, <3>3, <3>4, <3>5 DEF OnceAt
  <2>4. CASE b # c
    <3>1. status'[b] = status[b]
      BY <1>0, <2>1, <2>4
    <3>2. \A g \in Handler : Posting(g, b)' => Posting(g, b)
      BY <1>0, <2>1, <2>4 DEF Posting, HandlerState
    <3> QED BY <1>2, <2>2, <3>1, <3>2, Calm
  <2> QED BY <2>3, <2>4
<1>9. CASE PushQueued(h)
  <2> DEFINE c == handler[h].batch
  <2>1. /\ handler' = [handler EXCEPT ![h] = HandlerIdle] /\ c \in Batch
        /\ queue' = Append(queue, c) /\ UNCHANGED status
    BY <1>0, <1>9 DEF PushQueued, HandlersOK
  <2>2. \A d \in Drain : drain'[d].pc = "push" => drain'[d] = drain[d]
    BY <1>0, <1>9, DrainSoonLoops DEF PushQueued
  <2>3. Moved(b)' => Moved(b)
    BY <2>2 DEF Moved, Moving
  <2>4. Posting(h, c)
    BY <1>9 DEF PushQueued, Posting
  <2>5. b = c => ~Queued(b) /\ ~Moved(b) /\ ~InWork(b) /\ applied[b] = 0 /\ status[b] \notin {"none", "failed"}
    BY <2>4 DEF Posted, OnceAt
  <2>6. \A g \in Handler : Posting(g, b)' => Posting(g, b) /\ g # h
    BY <1>0, <2>1 DEF Posting, HandlerIdle
  <2>7. Unique(queue', b) /\ (Queued(b)' => Queued(b) \/ b = c)
    <3>1. Unique(queue, b) /\ (b = c => b \notin Elements(queue))
      BY <2>5 DEF OnceAt, Queued
    <3>2. Elements(queue)' = Elements(queue')
      BY DEF Elements
    <3> HIDE DEF c
    <3> QED BY <1>0, <2>1, <3>1, <3>2, AppendUnique DEF Queued
  <2>8. CASE b = c
    <3>1. ~Posted(b)'
      BY <2>4, <2>6, <2>8 DEF OnceAt, Posted
    <3>2. Unique(queue, b)'
      BY <2>7 DEF Unique
    <3> QED BY <1>2, <2>1, <2>3, <2>5, <2>6, <2>8, <3>1, <3>2 DEF OnceAt
  <2>9. CASE b # c
    <3>1. status'[b] = status[b]
      BY <2>1
    <3> QED BY <1>2, <2>3, <2>6, <2>7, <2>9, <3>1, Calm
  <2> QED BY <2>8, <2>9
<1> QED BY <1>4, <1>5, <1>6, <1>7, <1>8, <1>9 DEF Enqueue

\* A drain carries a batch from its only index to a worker.
LEMMA DrainOnce ==
  ASSUME TypeOK, Loops(drain, draining), IndexFresh, NEW d \in Drain, DrainStep(d),
         NEW b \in Batch, OnceAt(b)
  PROVE  OnceAt(b)'
<1>0. /\ drain \in [Drain -> DrainState] /\ queue \in Seq(Batch)
      /\ worker \in [Worker -> WorkerState]
  BY DEF TypeOK, DrainsOK, StoreOK, WorkersOK
<1>1. UNCHANGED <<handler, applied, status>>
  BY DEF DrainStep, DrainLength, DrainScan, DrainRemove, DrainPush, DrainRecheck, redis, history
<1>2. /\ \A h \in Handler : Posting(h, b)' = Posting(h, b)
      /\ Posted(b)' = Posted(b) /\ applied'[b] = applied[b] /\ status'[b] = status[b]
  BY <1>1 DEF Posted, Posting
<1>3. ASSUME UNCHANGED <<queue, worker>>,
             \A e \in Drain : drain'[e].pc = "push" => drain'[e] = drain[e]
      PROVE  OnceAt(b)'
  <2>1. Unique(queue', b) /\ Queued(b)' = Queued(b)
    BY <1>3 DEF OnceAt, Queued, Elements
  <2>2. (Moved(b)' => Moved(b)) /\ InWork(b)' = InWork(b) /\ Early(b)' = Early(b)
    BY <1>3 DEF Moved, Moving, InWork, Settling, Early
  <2> QED BY <1>2, <2>1, <2>2, Calm
<1>4. CASE DrainLength(d) \/ DrainScan(d)
  <2>1. UNCHANGED <<queue, worker>>
    BY <1>4 DEF DrainLength, DrainScan, redis
  <2>2. drain'[d].pc # "push" /\ \A e \in Drain : e # d => drain'[e] = drain[e]
    BY <1>0, <1>4 DEF DrainLength, DrainScan, LeaveLoop, DrainState, DrainOff
  <2> QED BY <1>3, <2>1, <2>2
<1>5. CASE DrainRemove(d)
  <2> DEFINE i == drain[d].index
             c == drain[d].job
  <2>1. /\ drain[d].pc = "remove" /\ UNCHANGED worker
        /\ drain' = [drain EXCEPT ![d].pc = "push"]
        /\ queue' = RemoveQueuedIndex(queue, i)
    BY <1>5 DEF DrainRemove
  <2>2. i \in 1 .. Len(queue) /\ queue[i] = c
    BY <2>1 DEF IndexFresh
  <2>3. /\ drain'[d].pc = "push" /\ drain'[d].job = c
        /\ \A e \in Drain : e # d => drain'[e] = drain[e]
    BY <1>0, <2>1 DEF DrainState
  <2> HIDE DEF i, c
  <2>4. Unique(queue', b) /\ (Queued(b)' => Queued(b) /\ b # c)
    <3>1. Unique(queue, b) /\ Elements(queue)' = Elements(queue')
      BY DEF OnceAt, Elements
    <3> QED BY <1>0, <2>1, <2>2, <3>1, RemoveIndexUnique DEF Queued
  <2>5. Moved(b)' => Moved(b) \/ b = c
    BY <2>3 DEF Moved, Moving
  <2>6. InWork(b)' = InWork(b) /\ Early(b)' = Early(b)
    BY <2>1 DEF InWork, Settling, Early
  <2>7. CASE b = c
    <3>1. Queued(b)
      BY <2>2, <2>7 DEF Queued, Elements
    <3>2. Unique(queue, b)'
      BY <2>4 DEF Unique
    <3> QED BY <1>2, <2>4, <2>6, <2>7, <3>1, <3>2 DEF OnceAt
  <2>8. CASE b # c
    BY <1>2, <2>4, <2>5, <2>6, <2>8, Calm
  <2> QED BY <2>7, <2>8
<1>6. CASE DrainPush(d)
  <2> DEFINE c == drain[d].job
  <2>1. PICK w \in Worker :
          worker' = [worker EXCEPT ![w] = [pc |-> "begin", job |-> c, attempt |-> 1]]
    BY <1>6 DEF DrainPush
  <2>2. /\ UNCHANGED queue /\ drain'[d].pc # "push"
        /\ \A e \in Drain : e # d => drain'[e] = drain[e]
    BY <1>0, <1>6 DEF DrainPush, DrainOff
  <2>3. /\ worker'[w].pc = "begin" /\ worker'[w].job = c
        /\ \A v \in Worker : v # w => worker'[v] = worker[v]
    BY <1>0, <2>1
  <2>4. Unique(queue', b) /\ Queued(b)' = Queued(b)
    BY <2>2 DEF OnceAt, Queued, Elements
  <2>5. Moving(d, c)
    BY <1>6 DEF DrainPush, Moving
  <2> HIDE DEF c
  <2>6. (Moved(b)' => Moved(b)) /\ (InWork(b)' => InWork(b) \/ b = c) /\ (Early(b)' => Early(b) \/ b = c)
    BY <2>2, <2>3 DEF Moved, Moving, InWork, Settling, Early
  <2>7. CASE b = c
    <3>1. Moved(b)
      BY <2>5, <2>7 DEF Moved
    <3>2. Unique(queue, b)'
      BY <2>4 DEF Unique
    <3> QED BY <1>2, <2>4, <2>6, <2>7, <3>1, <3>2 DEF OnceAt
  <2>8. CASE b # c
    BY <1>2, <2>4, <2>6, <2>8, Calm
  <2> QED BY <2>7, <2>8
<1>7. CASE DrainRecheck(d)
  BY <1>3, <1>7, RecheckKeeps DEF DrainRecheck, redis
<1> QED BY <1>4, <1>5, <1>6, <1>7 DEF DrainStep

\* A worker commits a batch once, or has a reason to do it again.
LEMMA WorkerOnce ==
  ASSUME TypeOK, Loops(drain, draining), TenantInv, NEW w \in Worker, WorkerStep(w),
         NEW b \in Batch, b \notin redo', OnceAt(b)
  PROVE  OnceAt(b)'
<1>0. /\ worker \in [Worker -> WorkerState] /\ status \in [Batch -> QueueStatus]
      /\ drain \in [Drain -> DrainState] /\ WorkersOK /\ applied \in [Batch -> Nat]
  BY DEF TypeOK, WorkersOK, StoreOK, DrainsOK, HistoryOK
<1> DEFINE c == worker[w].job
<1>1. /\ UNCHANGED <<queue, handler>>
      /\ \A v \in Worker : v # w => worker'[v] = worker[v]
      /\ \A e \in Drain : drain'[e].pc = "push" => drain'[e] = drain[e]
  <2>1. CASE WorkerRelease(w)
    BY <1>0, <2>1, DrainSoonLoops DEF WorkerRelease
  <2>2. CASE ~WorkerRelease(w)
    BY <1>0, <2>2, WorkerKeepsJob
  <2> QED BY <2>1, <2>2
<1>2. /\ \A h \in Handler : Posting(h, b)' = Posting(h, b)
      /\ Posted(b)' = Posted(b) /\ Unique(queue', b) /\ Queued(b)' = Queued(b) /\ (Moved(b)' => Moved(b))
  BY <1>1 DEF Posted, Posting, OnceAt, Queued, Moved, Moving, Elements
<1>3. ASSUME worker'[w].pc \notin {"idle", "release"} => worker[w].pc \notin {"idle", "release"} /\ worker'[w].job = c,
             worker'[w].pc \in {"begin", "ingest", "failed"} => worker[w].pc \in {"begin", "ingest", "failed"} \/ b # c,
             applied'[b] = applied[b], status'[b] \in {"none", "failed"} => status[b] \in {"none", "failed"}
      PROVE  OnceAt(b)'
  <2>1. InWork(b)' => InWork(b)
    BY <1>1, <1>3 DEF InWork, Settling
  <2>2. Early(b)' => Early(b)
    BY <1>1, <1>3 DEF Early
  <2> QED BY <1>2, <1>3, <2>1, <2>2, Calm
<1>4. CASE WorkerRelease(w)
  <2>1. worker'[w].pc = "idle" /\ UNCHANGED <<status, applied>>
    BY <1>0, <1>4 DEF WorkerRelease, WorkerIdle, history
  <2> QED BY <1>3, <2>1
<1>5. ASSUME ~WorkerRelease(w) PROVE c \in Batch /\ worker'[w].job = c /\ Busy(w)
  BY <1>0, <1>5, WorkerKeepsJob DEF WorkersOK, Busy
<1>6. ASSUME NEW pc, Continue(w, pc) PROVE worker'[w].pc = pc
  BY <1>0, <1>6 DEF Continue, WorkerState
<1>7. CASE WorkerBegin(w)
  <2>1. /\ worker[w].pc = "begin" /\ ~WorkerRelease(w) /\ UNCHANGED applied
        /\ status' = [status EXCEPT ![c] = "processing"]
    BY <1>7 DEF WorkerBegin, WorkerRelease, history
  <2>2. status'[b] \in {"none", "failed"} => status[b] \in {"none", "failed"}
    BY <1>0, <2>1
  <2> QED BY <1>3, <1>5, <2>1, <2>2
<1>8. CASE IngestOk(w)
  <2>1. /\ worker[w].pc = "ingest" /\ worker'[w].pc = "succeeded" /\ ~WorkerRelease(w)
        /\ UNCHANGED status /\ applied' = [applied EXCEPT ![c] = @ + 1]
    BY <1>6, <1>8 DEF IngestOk, WorkerRelease, redis
  <2>2. CASE b # c
    BY <1>0, <1>3, <1>5, <2>1, <2>2
  <2>3. CASE b = c
    <3>1. InWork(b) /\ Early(b)
      BY <2>1, <2>3 DEF InWork, Settling, Early
    <3>2. applied[b] = 0 /\ ~Queued(b) /\ ~Posted(b)
      BY <3>1 DEF OnceAt
    <3>3. applied'[b] = 1
      BY <1>0, <2>1, <2>3, <3>2
    <3>4. ~Moved(b)
      BY <1>5, <2>1, <2>3 DEF TenantInv, CarriesIdle, BusyIsActive, Moved, Moving
    <3>5. ~Early(b)'
      <4>1. \A v \in Worker : v # w /\ worker[v].pc \in {"begin", "ingest", "failed"} => worker[v].job # c
        BY <1>5, <2>1 DEF TenantInv, TenantExclusive, Busy
      <4> QED BY <1>1, <2>1, <2>3, <4>1 DEF Early
    <3>6. status'[b] \notin {"none", "failed"}
      BY <2>1, <3>1 DEF OnceAt
    <3>7. Unique(queue, b)'
      BY <1>2 DEF Unique
    <3> QED BY <1>2, <3>2, <3>3, <3>4, <3>5, <3>6, <3>7 DEF OnceAt
  <2> QED BY <2>2, <2>3
<1>9. CASE IngestRefused(w)
  <2>1. /\ worker[w].pc = "ingest" /\ ~WorkerRelease(w) /\ UNCHANGED <<status, applied>>
    BY <1>9 DEF IngestRefused, WorkerRelease, redis, history
  <2> QED BY <1>3, <1>5, <2>1
<1>10. ASSUME NEW committed \in BOOLEAN, IngestFails(w, committed) \/ IngestRetries(w, committed)
       PROVE  OnceAt(b)'
  <2>1. worker[w].pc = "ingest" /\ ~WorkerRelease(w) /\ UNCHANGED status
    BY <1>10 DEF IngestFails, IngestRetries, WorkerRelease, redis
  <2>2. (applied' = [applied EXCEPT ![c] = @ + 1] /\ redo' = redo \cup {c}) \/ UNCHANGED applied
    BY <1>10 DEF IngestFails, IngestRetries
  <2>3. applied'[b] = applied[b]
    BY <1>0, <2>2
  <2> QED BY <1>3, <1>5, <2>1, <2>3
<1>11. CASE SuccessNotSaved(w)
  <2>1. /\ worker[w].pc = "succeeded" /\ ~WorkerRelease(w) /\ UNCHANGED <<status, applied>>
        /\ b # c
    BY <1>11 DEF SuccessNotSaved, WorkerRelease, redis
  <2> QED BY <1>3, <1>5, <2>1
<1>12. CASE SettleOk(w)
  <2>1. /\ worker[w].pc = "succeeded" /\ worker'[w].pc = "release" /\ ~WorkerRelease(w) /\ UNCHANGED applied
        /\ status' = [status EXCEPT ![c] = "ok"]
    BY <1>6, <1>12 DEF SettleOk, WorkerRelease, history
  <2>2. status'[b] \in {"none", "failed"} => status[b] \in {"none", "failed"}
    BY <1>0, <2>1
  <2> QED BY <1>3, <1>5, <2>1, <2>2
<1>13. CASE SettleFailed(w)
  <2>1. /\ worker[w].pc = "failed" /\ worker'[w].pc = "release" /\ ~WorkerRelease(w) /\ UNCHANGED applied
        /\ status' = [status EXCEPT ![c] = "failed"]
    BY <1>6, <1>13 DEF SettleFailed, WorkerRelease, history
  <2>2. CASE b # c
    BY <1>0, <1>3, <1>5, <2>1, <2>2
  <2>3. CASE b = c
    <3>1. InWork(b) /\ Early(b)
      BY <2>1, <2>3 DEF InWork, Settling, Early
    <3>2. applied[b] = 0 /\ ~Queued(b) /\ ~Posted(b) /\ applied'[b] = 0
      BY <2>1, <3>1 DEF OnceAt
    <3>3. ~Moved(b)
      BY <1>5, <2>1, <2>3 DEF TenantInv, CarriesIdle, BusyIsActive, Moved, Moving
    <3>4. ~InWork(b)'
      <4>1. \A v \in Worker : v # w /\ worker[v].pc # "idle" => worker[v].job # c
        BY <1>5, <2>1 DEF TenantInv, TenantExclusive, Busy
      <4> QED BY <1>1, <2>1, <2>3, <4>1 DEF InWork, Settling
    <3>5. Unique(queue, b)'
      BY <1>2 DEF Unique
    <3> QED BY <1>2, <3>2, <3>3, <3>4, <3>5 DEF OnceAt
  <2> QED BY <2>2, <2>3
<1> QED BY <1>4, <1>7, <1>8, <1>9, <1>10, <1>11, <1>12, <1>13 DEF WorkerStep

\* A restart puts back only batches that may then run again.
LEMMA RebootOnce ==
  ASSUME TypeOK, NEW kept \in Seq(Batch), NEW gone, Reboot(kept, gone),
         NEW b \in Batch, b \notin redo', OnceAt(b)
  PROVE  OnceAt(b)'
<1>1. queue \in Seq(Batch) /\ queue' = queue \o kept /\ UNCHANGED <<applied, status>>
  BY DEF TypeOK, StoreOK, Reboot
<1>2. b \notin Elements(kept) /\ Unique(queue, b)
  BY DEF Reboot, OnceAt
<1>3. Unique(queue', b) /\ (Queued(b)' => Queued(b))
  <2>1. Elements(queue)' = Elements(queue')
    BY DEF Elements
  <2> QED BY <1>1, <1>2, <2>1, ConcatUnique DEF Queued
<1>4. ~Moved(b)' /\ ~InWork(b)' /\ ~Early(b)'
  <2>1. drain' \in [Drain -> DrainState]
    <3>1. PICK d \in Drain : drain' = [[e \in Drain |-> DrainOff] EXCEPT ![d].pc = "loop"]
      BY DEF Reboot
    <3> QED BY <3>1 DEF DrainOff, DrainState
  <2> QED BY <2>1, RebootLoops DEF Moved, Moving, InWork, Settling, Early
<1>5. \A h \in Handler : ~Posting(h, b)'
  BY DEF Reboot, Posting, HandlerIdle
<1> QED BY <1>1, <1>3, <1>4, <1>5, Calm

LEMMA StepOnce ==
  ASSUME TypeOK, Loops(drain, draining), TenantInv, IndexFresh, OnceInv, [Next]_vars
  PROVE  OnceInv'
<1>0. handler \in [Handler -> HandlerState] /\ processing \in Seq(Batch)
  BY DEF TypeOK, HandlersOK, StoreOK
<1>1. FreshReads'
  <2>1. CASE UNCHANGED handler
    BY <2>1 DEF OnceInv, FreshReads
  <2>2. ASSUME NEW h \in Handler, handler'[h].pc = "idle" \/ handler'[h].read \in {"none", "failed"},
               \A g \in Handler : g # h => handler'[g] = handler[g]
        PROVE  FreshReads'
    BY <2>2 DEF OnceInv, FreshReads
  <2>3. ASSUME NEW h \in Handler, Enqueue(h) PROVE FreshReads'
    <3>1. ASSUME NEW c \in Batch, Lookup(h, c) PROVE FreshReads'
      BY <1>0, <2>1, <2>2, <3>1 DEF Lookup
    <3>2. CASE MeasureQueue(h) \/ MarkQueued(h)
      BY <1>0, <2>2, <3>2 DEF MeasureQueue, MarkQueued, HandlerState, OnceInv, FreshReads
    <3>3. CASE MeasureRest(h)
      BY <1>0, <2>2, <3>3 DEF MeasureRest, HandlerState, HandlerIdle, OnceInv, FreshReads
    <3>4. CASE PushQueued(h) \/ PushFails(h)
      BY <1>0, <2>2, <3>4 DEF PushQueued, PushFails, HandlerIdle
    <3> QED BY <2>3, <3>1, <3>2, <3>3, <3>4 DEF Enqueue
  <2>4. ASSUME NEW kept, NEW gone, Reboot(kept, gone) PROVE FreshReads'
    BY <2>4 DEF Reboot, HandlerIdle, FreshReads
  <2>5. ASSUME NEW w \in Worker, WorkerStep(w) PROVE UNCHANGED handler
    BY <2>5 DEF WorkerStep, WorkerBegin, IngestOk, IngestRefused, IngestFails, IngestRetries,
                SuccessNotSaved, SettleOk, SettleFailed, WorkerRelease
  <2>6. ASSUME NEW d \in Drain, DrainStep(d) PROVE UNCHANGED handler
    BY <2>6 DEF DrainStep, DrainLength, DrainScan, DrainRemove, DrainPush, DrainRecheck
  <2> QED BY <2>1, <2>3, <2>4, <2>5, <2>6 DEF Next, Restart, DieInCatch, Shutdown, vars
<1>2. redo \subseteq redo'
  <2>1. ASSUME NEW h \in Handler, Enqueue(h) PROVE redo \subseteq redo'
    BY <2>1 DEF Enqueue, Lookup, MeasureQueue, MeasureRest, MarkQueued, PushQueued, PushFails, history
  <2>2. ASSUME NEW w \in Worker, WorkerStep(w) PROVE redo \subseteq redo'
    BY <2>2 DEF WorkerStep, WorkerBegin, IngestOk, IngestRefused, IngestFails, IngestRetries,
                SuccessNotSaved, SettleOk, SettleFailed, WorkerRelease, history
  <2>3. ASSUME NEW d \in Drain, DrainStep(d) PROVE redo \subseteq redo'
    BY <2>3 DEF DrainStep, DrainLength, DrainScan, DrainRemove, DrainPush, DrainRecheck, history
  <2> QED BY <2>1, <2>2, <2>3 DEF Next, Restart, DieInCatch, Reboot, Shutdown, vars, history
<1>3. ASSUME NEW b \in Batch, b \notin redo' PROVE OnceAt(b)'
  <2>0. OnceAt(b) /\ FreshReads
    BY <1>2, <1>3 DEF OnceInv
  <2>1. ASSUME NEW kept \in Seq(Batch), NEW gone, Reboot(kept, gone) PROVE OnceAt(b)'
    BY <1>3, <2>0, <2>1, RebootOnce
  <2>2. CASE Restart
    BY <1>0, <2>1, <2>2 DEF Restart
  <2>3. ASSUME NEW w \in Worker, DieInCatch(w) PROVE OnceAt(b)'
    BY <1>0, <2>1, <2>3, RemoveFirstIsSeq DEF DieInCatch
  <2>4. CASE Shutdown \/ UNCHANGED vars
    <3>1. UNCHANGED <<queue, status, applied, handler, drain, worker>>
      BY <2>4 DEF Shutdown, vars, redis, loop, history
    <3> QED BY <2>0, <3>1 DEF OnceAt, Unique, Queued, Posted, Posting, Moved, Moving, InWork, Settling,
                              Early, Elements
  <2> QED BY <1>3, <2>0, <2>2, <2>3, <2>4, EnqueueOnce, DrainOnce, WorkerOnce DEF Next
<1> QED BY <1>1, <1>3 DEF OnceInv

\* The rows of a batch are committed once, however often it is posted, whoever overtakes whom,
\* unless its job was interrupted, an error followed the commit, or a post overtook the status
\* it had read.
THEOREM CommitsOnce == Spec => []CommittedOnce
<1>1. Init => OnceInv
  BY DEF Init, OnceInv, FreshReads, OnceAt, Unique, Queued, Posted, Posting, Moved, Moving, InWork,
         Settling, Early, Elements, HandlerIdle, DrainOff, WorkerIdle
<1>2. IInv /\ OnceInv /\ [Next]_vars => OnceInv'
  BY LoopsMeaning, StepOnce DEF IInv, SingleDrain, TenantInv
<1>3. OnceInv => CommittedOnce
  BY DEF OnceInv, OnceAt, CommittedOnce
<1> QED BY <1>1, <1>2, <1>3, Invariant, PTL DEF Spec

-----------------------------------------------------------------------------
(* How long the queue gets.  Every request that is going to push has seen  *)
(* fewer than MaxDepth jobs in it; a restart adds what was being ingested, *)
(* one job per tenant.                                                     *)

\* The requests that may still push: they measured less than MaxDepth.
Admitted == {h \in Handler : \/ handler[h].pc \in {"mark", "push"}
                             \/ handler[h].pc = "measure" /\ handler[h].depth < MaxDepth}

\* Jobs that have left the queue and that a restart puts back, or a drain carries.
Carried == IF \E d \in Drain : drain[d].pc = "push" THEN 1 ELSE 0
Held    == Carried + Len(processing)

\* A tenant has one entry in the processing list, and is in activeTenants then.
Apart ==
  /\ \A i \in 1 .. Len(processing) : TenantOf[processing[i]] \in active
  /\ \A i, j \in 1 .. Len(processing) : TenantOf[processing[i]] = TenantOf[processing[j]] => i = j

Limit    == (MaxDepth - 1) + Cardinality(Handler)
DepthInv ==
  /\ restarts = 0 => Len(queue) + Cardinality(Admitted) <= Limit
  /\ restarts # 0 => Len(queue) + Held + Cardinality(Admitted) <= Limit + Cardinality(Tenant)

\* The numbers are numbers.
LEMMA Counts ==
  ASSUME TypeOK
  PROVE  /\ Cardinality(Handler) \in Nat /\ Cardinality(Tenant) \in Nat /\ Limit \in Nat
         /\ Len(queue) \in Nat /\ Held \in Nat
         /\ IsFiniteSet(Admitted) /\ Cardinality(Admitted) \in Nat
         /\ Cardinality(Admitted) <= Cardinality(Handler)
<1>1. Cardinality(Handler) \in Nat /\ Cardinality(Tenant) \in Nat
  BY QueueAssumption, FS_CardinalityType
<1>2. Limit \in Nat
  BY <1>1, QueueAssumption DEF Limit
<1>3. Len(queue) \in Nat /\ Held \in Nat
  BY DEF TypeOK, StoreOK, Held, Carried
<1>4. Admitted \in SUBSET Handler
  BY DEF Admitted
<1>5. IsFiniteSet(Admitted) /\ Cardinality(Admitted) <= Cardinality(Handler)
  BY <1>4, QueueAssumption, FS_Subset
<1> QED BY <1>1, <1>2, <1>3, <1>5, FS_CardinalityType

\* At most one job of a tenant has left the queue and is not released.
LEMMA HeldBound ==
  ASSUME TypeOK, CarriesIdle, Apart
  PROVE  Held <= Cardinality(Tenant)
<1> DEFINE n == Len(processing)
           f == [i \in 1 .. n |-> TenantOf[processing[i]]]
<1>1. n \in Nat /\ active \in SUBSET Tenant /\ processing \in Seq(Batch)
  BY DEF TypeOK, StoreOK, DrainsOK
<1>2. IsFiniteSet(active) /\ Cardinality(active) \in Nat /\ Cardinality(active) <= Cardinality(Tenant)
      /\ Cardinality(Tenant) \in Nat
  BY <1>1, QueueAssumption, FS_Subset, FS_CardinalityType
<1>3. f \in Injection(1 .. n, active)
  BY DEF Apart, Injection, IsInjective
<1>4. Cardinality(1 .. n) = n
  <2>1. 1 \in Int /\ n \in Int
    BY <1>1
  <2>2. Cardinality(1 .. n) = IF 1 > n THEN 0 ELSE n - 1 + 1
    BY <2>1, FS_Interval
  <2> QED BY <1>1, <2>2
<1>5. n <= Cardinality(active)
  <2> HIDE DEF f, n
  <2> QED BY <1>2, <1>3, <1>4, FS_Injection
<1>6. CASE \E d \in Drain : drain[d].pc = "push"
  <2>1. PICK d \in Drain : drain[d].pc = "push"
    BY <1>6
  <2> DEFINE t == TenantOf[drain[d].job]
  <2>2. t \in Tenant /\ t \notin active
    BY <2>1, QueueAssumption DEF CarriesIdle, TypeOK, DrainsOK
  <2> HIDE DEF t
  <2>3. Cardinality(active \cup {t}) = Cardinality(active) + 1
    BY <1>2, <2>2, FS_AddElement
  <2>4. active \cup {t} \in SUBSET Tenant
    BY <1>1, <2>2
  <2>5. Cardinality(active \cup {t}) <= Cardinality(Tenant)
    BY <2>4, QueueAssumption, FS_Subset
  <2>6. Held = n + 1
    BY <1>1, <1>6 DEF Held, Carried
  <2> HIDE DEF n
  <2> QED BY <1>1, <1>2, <1>5, <2>3, <2>5, <2>6
<1>7. CASE ~\E d \in Drain : drain[d].pc = "push"
  <2>1. Held = n
    BY <1>1, <1>7 DEF Held, Carried
  <2> HIDE DEF n
  <2> QED BY <1>1, <1>2, <1>5, <2>1
<1> QED BY <1>6, <1>7

\* A set of numbers has a least one.
LEMMA Least == ASSUME NEW P \in SUBSET Nat, P # {} PROVE \E m \in P : \A j \in P : m <= j
<1> DEFINE R == {ss \in Nat \X Nat : ss[1] < ss[2]}
<1>1. IsWellFoundedOn(R, Nat)
  BY NatLessThanWellFounded DEF OpToRel
<1> HIDE DEF R
<1>2. PICK m \in P : \A j \in P : <<j, m>> \notin R
  BY <1>1, WFMin
<1>3. \A j \in P : ~(j < m)
  BY <1>2 DEF R
<1> QED BY <1>3

\* LREM of an entry: one shorter, and the others' tenants are others.
LEMMA RemoveFirstAt ==
  ASSUME NEW S, NEW s \in Seq(S), NEW a
  PROVE  /\ Len(RemoveFirst(s, a)) \in Nat /\ Len(RemoveFirst(s, a)) <= Len(s)
         /\ a \in Elements(s) => \E c \in 1 .. Len(s) : s[c] = a /\ RemoveFirst(s, a) = RemoveQueuedIndex(s, c)
<1> DEFINE first == {i \in 1 .. Len(s) : s[i] = a /\ \A j \in 1 .. i - 1 : s[j] # a}
           c == CHOOSE i \in first : TRUE
<1>1. CASE first = {}
  <2>1. RemoveFirst(s, a) = s
    BY <1>1 DEF RemoveFirst
  <2>2. a \notin Elements(s)
    <3> SUFFICES ASSUME NEW k \in 1 .. Len(s), s[k] = a PROVE FALSE
      BY DEF Elements
    <3> DEFINE P == {j \in Nat : j \in 1 .. Len(s) /\ s[j] = a}
    <3>1. PICK m \in P : \A j \in P : m <= j
      <4>1. P # {} /\ P \in SUBSET Nat
        OBVIOUS
      <4> HIDE DEF P
      <4> QED BY <4>1, Least
    <3>2. m \in first
      BY <3>1
    <3> QED BY <1>1, <3>2
  <2> QED BY <2>1, <2>2
<1>2. CASE first # {}
  <2>1. c \in first
    BY <1>2
  <2>2. c \in 1 .. Len(s) /\ s[c] = a
    BY <2>1
  <2>3. RemoveFirst(s, a) = RemoveQueuedIndex(s, c)
    BY <1>2 DEF RemoveFirst
  <2> HIDE DEF c
  <2>4. Len(RemoveQueuedIndex(s, c)) = Len(s) - 1
    BY <2>2, RemoveIndexAt
  <2> QED BY <2>2, <2>3, <2>4
<1> QED BY <1>1, <1>2

\* The entries that stay in the processing list are other tenants'.
LEMMA ApartWithout ==
  ASSUME StoreOK, Apart, NEW c \in 1 .. Len(processing),
         processing' = RemoveQueuedIndex(processing, c), active' = active \ {TenantOf[processing[c]]}
  PROVE  Apart'
<1> DEFINE r == RemoveQueuedIndex(processing, c)
           at(k) == IF k < c THEN k ELSE k + 1
<1>1. processing \in Seq(Batch)
  BY DEF StoreOK
<1>2. Len(r) = Len(processing) - 1 /\ \A k \in 1 .. Len(r) : at(k) \in 1 .. Len(processing) /\ r[k] = processing[at(k)] /\ at(k) # c
  <2>1. /\ Len(r) = Len(processing) - 1
        /\ \A k \in 1 .. Len(processing) - 1 : r[k] = IF k < c THEN processing[k] ELSE processing[k + 1]
    BY <1>1, RemoveIndexAt
  <2>2. Len(processing) \in Nat
    BY <1>1
  <2> HIDE DEF r
  <2> QED BY <2>1, <2>2
<1>3. \A j, k \in 1 .. Len(r) : at(j) = at(k) => j = k
  BY <1>2
<1>4. processing' = r
  OBVIOUS
<1> HIDE DEF r, at
<1>5. \A k \in 1 .. Len(r) : TenantOf[r[k]] \in active'
  <2> SUFFICES ASSUME NEW k \in 1 .. Len(r) PROVE TenantOf[r[k]] \in active'
    OBVIOUS
  <2>1. TenantOf[processing[at(k)]] \in active /\ TenantOf[processing[at(k)]] # TenantOf[processing[c]]
    BY <1>2 DEF Apart
  <2> QED BY <1>2, <2>1
<1>6. \A j, k \in 1 .. Len(r) : TenantOf[r[j]] = TenantOf[r[k]] => j = k
  BY <1>2, <1>3 DEF Apart
<1> QED BY <1>4, <1>5, <1>6 DEF Apart

\* And a new entry is a job of a tenant that had none.
LEMMA ApartWith ==
  ASSUME StoreOK, Apart, NEW b \in Batch, TenantOf[b] \notin active,
         processing' = Append(processing, b), active' = active \cup {TenantOf[b]}
  PROVE  Apart'
<1>1. processing \in Seq(Batch)
  BY DEF StoreOK
<1>2. /\ Len(processing') = Len(processing) + 1 /\ processing'[Len(processing) + 1] = b
      /\ \A i \in 1 .. Len(processing) : processing'[i] = processing[i]
  BY <1>1
<1>3. \A i \in 1 .. Len(processing) + 1 : i \in 1 .. Len(processing) \/ i = Len(processing) + 1
  BY <1>1
<1> QED BY <1>1, <1>2, <1>3 DEF Apart

\* Every entry of the processing list is of a tenant of its own.
LEMMA StepApart ==
  ASSUME TypeOK, TenantInv, BusyIsListed, Apart, [Next]_vars
  PROVE  Apart'
<1>0. StoreOK /\ processing \in Seq(Batch) /\ WorkersOK
  BY DEF TypeOK, StoreOK
<1>1. ASSUME UNCHANGED <<processing, active>> PROVE Apart'
  BY <1>1 DEF Apart
<1>2. ASSUME NEW d \in Drain, DrainPush(d) PROVE Apart'
  <2>1. drain[d].job \in Batch /\ TenantOf[drain[d].job] \notin active
    BY <1>2 DEF DrainPush, TypeOK, DrainsOK, TenantInv, CarriesIdle
  <2>2. processing' = Append(processing, drain[d].job) /\ active' = active \cup {TenantOf[drain[d].job]}
    BY <1>2 DEF DrainPush
  <2> QED BY <1>0, <2>1, <2>2, ApartWith
<1>3. ASSUME NEW w \in Worker, WorkerRelease(w) PROVE Apart'
  <2>1. worker[w].job \in Elements(processing)
    BY <1>3 DEF WorkerRelease, BusyIsListed, Busy
  <2>2. processing' = RemoveFirst(processing, worker[w].job) /\ active' = active \ {TenantOf[worker[w].job]}
    BY <1>3 DEF WorkerRelease
  <2>3. PICK c \in 1 .. Len(processing) :
          processing[c] = worker[w].job /\ processing' = RemoveQueuedIndex(processing, c)
    BY <1>0, <2>1, <2>2, RemoveFirstAt
  <2> QED BY <1>0, <2>2, <2>3, ApartWithout
<1>4. ASSUME NEW kept, NEW gone, Reboot(kept, gone) PROVE Apart'
  <2>1. processing' = <<>>
    BY <1>4 DEF Reboot
  <2> QED BY <2>1 DEF Apart
<1>5. ASSUME NEW h \in Handler, Enqueue(h) PROVE UNCHANGED <<processing, active>>
  BY <1>5 DEF Enqueue, Lookup, MeasureQueue, MeasureRest, MarkQueued, PushQueued, PushFails, redis, loop
<1>6. ASSUME NEW d \in Drain, DrainStep(d), ~DrainPush(d) PROVE UNCHANGED <<processing, active>>
  BY <1>6 DEF DrainStep, DrainLength, DrainScan, DrainRemove, DrainRecheck, redis
<1>7. ASSUME NEW w \in Worker, WorkerStep(w), ~WorkerRelease(w) PROVE UNCHANGED <<processing, active>>
  BY <1>0, <1>7, WorkerKeepsJob
<1>8. CASE Shutdown \/ UNCHANGED vars
  BY <1>1, <1>8 DEF Shutdown, vars, redis, loop
<1> QED BY <1>1, <1>2, <1>3, <1>4, <1>5, <1>6, <1>7, <1>8 DEF Next, Restart, DieInCatch

\* Three ways to keep the bound: nothing grows, a job moves on, or the queue was just measured.
Settled(q, h, a) ==
  \/ q + a <= Len(queue) + Cardinality(Admitted) /\ q + h + a <= Len(queue) + Held + Cardinality(Admitted)
  \/ q < MaxDepth

LEMMA DepthSums ==
  ASSUME NEW q \in Nat, NEW h \in Nat, NEW a \in Nat, NEW n \in Nat, NEW t \in Nat, NEW m \in Nat,
         NEW q2 \in Nat, NEW h2 \in Nat, NEW a2 \in Nat, a2 <= n, h2 <= t,
         (q2 + a2 <= q + a /\ q2 + h2 + a2 <= q + h + a) \/ q2 < m
  PROVE  /\ q + a <= (m - 1) + n => q2 + a2 <= (m - 1) + n
         /\ q + h + a <= (m - 1) + n + t => q2 + h2 + a2 <= (m - 1) + n + t
OBVIOUS

LEMMA DepthKept ==
  ASSUME TypeOK, DepthInv, TypeOK', Held' <= Cardinality(Tenant), UNCHANGED restarts,
         Settled(Len(queue'), Held', Cardinality(Admitted'))
  PROVE  DepthInv'
<1>1. Len(queue) \in Nat /\ Held \in Nat /\ Cardinality(Admitted) \in Nat
      /\ Cardinality(Handler) \in Nat /\ Cardinality(Tenant) \in Nat /\ MaxDepth \in Nat
  BY Counts, QueueAssumption
<1>2. Len(queue') \in Nat /\ Held' \in Nat /\ Cardinality(Admitted') \in Nat
      /\ Cardinality(Admitted') <= Cardinality(Handler)
  <2>1. (Len(queue) \in Nat /\ Held \in Nat /\ Cardinality(Admitted) \in Nat
           /\ Cardinality(Admitted) <= Cardinality(Handler))'
    BY Counts, PTL
  <2> QED BY <2>1
<1>3. \/ /\ Len(queue') + Cardinality(Admitted') <= Len(queue) + Cardinality(Admitted)
         /\ Len(queue') + Held' + Cardinality(Admitted') <= Len(queue) + Held + Cardinality(Admitted)
      \/ Len(queue') < MaxDepth
  BY DEF Settled
<1> DEFINE q == Len(queue)
           a == Cardinality(Admitted)
           q2 == Len(queue')
           h2 == Held'
           a2 == Cardinality(Admitted')
           n == Cardinality(Handler)
           s == Cardinality(Tenant)
<1>4. /\ q \in Nat /\ Held \in Nat /\ a \in Nat /\ n \in Nat /\ s \in Nat /\ MaxDepth \in Nat
      /\ q2 \in Nat /\ h2 \in Nat /\ a2 \in Nat /\ a2 <= n /\ h2 <= s
      /\ ((q2 + a2 <= q + a /\ q2 + h2 + a2 <= q + Held + a) \/ q2 < MaxDepth)
  BY <1>1, <1>2, <1>3
<1> HIDE DEF q, a, q2, h2, a2, n, s
<1>5. /\ q + a <= (MaxDepth - 1) + n => q2 + a2 <= (MaxDepth - 1) + n
      /\ q + Held + a <= (MaxDepth - 1) + n + s => q2 + h2 + a2 <= (MaxDepth - 1) + n + s
  BY <1>4, DepthSums
<1> QED BY <1>5 DEF DepthInv, Limit, q, a, q2, h2, a2, n, s

\* A request that does not become one that may push leaves no more of them.
LEMMA AdmittedShrinks ==
  ASSUME TypeOK, TypeOK', Admitted' \subseteq Admitted, Len(queue') <= Len(queue), Held' <= Held
  PROVE  Settled(Len(queue'), Held', Cardinality(Admitted'))
<1>1. IsFiniteSet(Admitted) /\ Cardinality(Admitted) \in Nat /\ Len(queue) \in Nat /\ Held \in Nat
  BY Counts
<1>2. Cardinality(Admitted') \in Nat /\ Len(queue') \in Nat /\ Held' \in Nat
  <2>1. (Cardinality(Admitted) \in Nat /\ Len(queue) \in Nat /\ Held \in Nat)'
    BY Counts, PTL
  <2> QED BY <2>1
<1>3. Cardinality(Admitted') <= Cardinality(Admitted)
  BY <1>1, FS_Subset
<1> QED BY <1>1, <1>2, <1>3 DEF Settled

\* What a drain carries and the processing list holds changes with them.
LEMMA HeldSame ==
  ASSUME \A d \in Drain : drain'[d].pc = "push" <=> drain[d].pc = "push", UNCHANGED processing
  PROVE  Held' = Held
BY DEF Held, Carried

\* A request measures the queue, or pushes what it was admitted for.
LEMMA EnqueueDepth ==
  ASSUME TypeOK, TypeOK', Loops(drain, draining), NEW h \in Handler, Enqueue(h)
  PROVE  Settled(Len(queue'), Held', Cardinality(Admitted'))
<1>0. /\ handler \in [Handler -> HandlerState] /\ drain \in [Drain -> DrainState]
      /\ queue \in Seq(Batch) /\ Len(queue) \in Nat /\ Held \in Nat /\ Cardinality(Admitted) \in Nat
      /\ IsFiniteSet(Admitted) /\ MaxDepth \in Nat
  BY Counts, QueueAssumption DEF TypeOK, HandlersOK, DrainsOK, StoreOK
<1>1. \A g \in Handler : g # h => handler'[g] = handler[g]
  BY <1>0 DEF Enqueue, Lookup, MeasureQueue, MeasureRest, MarkQueued, PushQueued, PushFails
<1>2. ASSUME UNCHANGED <<queue, processing, drain>>, h \in Admitted' => h \in Admitted
      PROVE  Settled(Len(queue'), Held', Cardinality(Admitted'))
  <2>1. Admitted' \subseteq Admitted
    BY <1>1, <1>2 DEF Admitted
  <2>2. Held' = Held
    BY <1>2, HeldSame
  <2> QED BY <1>0, <1>2, <2>1, <2>2, AdmittedShrinks
<1>3. ASSUME NEW c \in Batch, Lookup(h, c) PROVE Settled(Len(queue'), Held', Cardinality(Admitted'))
  <2>1. handler'[h].pc \in {"idle", "depth"}
    BY <1>0, <1>3 DEF Lookup
  <2>2. h \notin Admitted'
    BY <2>1 DEF Admitted
  <2> QED BY <1>2, <1>3, <2>2 DEF Lookup, redis, loop
<1>4. CASE MeasureQueue(h)
  <2>1. handler'[h].pc = "measure" /\ handler'[h].depth = Len(queue)
    BY <1>0, <1>4 DEF MeasureQueue, HandlerState
  <2>2. UNCHANGED <<queue, processing, drain>>
    BY <1>4 DEF MeasureQueue, redis, loop
  <2>3. CASE Len(queue) < MaxDepth
    BY <2>2, <2>3 DEF Settled
  <2>4. CASE ~(Len(queue) < MaxDepth)
    <3>1. h \notin Admitted'
      BY <2>1, <2>4 DEF Admitted
    <3> QED BY <1>2, <2>2, <3>1
  <2> QED BY <2>3, <2>4
<1>5. CASE MeasureRest(h)
  <2> DEFINE depth == handler[h].depth + Len(processing) + Cardinality(active)
  <2>1. handler[h].pc = "measure" /\ UNCHANGED <<queue, processing, drain>>
    BY <1>5 DEF MeasureRest, redis, loop
  <2>2. handler[h].depth \in Nat /\ Len(processing) \in Nat /\ Cardinality(active) \in Nat
    <3>1. active \in SUBSET Tenant /\ handler[h].depth \in Nat /\ Len(processing) \in Nat
      BY <1>0 DEF TypeOK, DrainsOK, StoreOK, HandlerState
    <3> QED BY <3>1, QueueAssumption, FS_Subset, FS_CardinalityType
  <2>3. CASE depth >= MaxDepth
    <3>1. handler'[h].pc = "idle"
      BY <1>0, <1>5, <2>3 DEF MeasureRest, HandlerIdle
    <3>2. h \notin Admitted'
      BY <3>1 DEF Admitted
    <3> QED BY <1>2, <2>1, <3>2
  <2>4. CASE ~(depth >= MaxDepth)
    <3>1. handler[h].depth < MaxDepth
      BY <1>0, <2>2, <2>4
    <3>2. h \in Admitted
      BY <2>1, <3>1 DEF Admitted
    <3> QED BY <1>2, <2>1, <3>2
  <2> QED BY <2>3, <2>4
<1>6. CASE MarkQueued(h)
  <2>1. h \in Admitted /\ UNCHANGED <<queue, processing, drain>>
    BY <1>6 DEF MarkQueued, Admitted, loop
  <2> QED BY <1>2, <2>1
<1>7. CASE PushFails(h)
  <2>1. h \in Admitted /\ UNCHANGED <<queue, processing, drain>>
    BY <1>7 DEF PushFails, Admitted, redis, loop
  <2> QED BY <1>2, <2>1
<1>8. CASE PushQueued(h)
  <2>1. h \in Admitted
    BY <1>8 DEF PushQueued, Admitted
  <2>2. handler'[h].pc = "idle"
    BY <1>0, <1>8 DEF PushQueued, HandlerIdle
  <2>3. Admitted' = Admitted \ {h}
    BY <1>1, <2>2 DEF Admitted
  <2>4. Cardinality(Admitted') = Cardinality(Admitted) - 1
    BY <1>0, <2>1, <2>3, FS_RemoveElement
  <2>5. Len(queue') = Len(queue) + 1
    BY <1>0, <1>8 DEF PushQueued, TypeOK, HandlersOK
  <2>6. Held' = Held
    <3>1. \A d \in Drain : drain'[d].pc = "push" <=> drain[d].pc = "push"
      BY <1>0, <1>8, DrainSoonLoops DEF PushQueued
    <3> QED BY <1>8, <3>1, HeldSame DEF PushQueued
  <2> QED BY <1>0, <2>4, <2>5, <2>6 DEF Settled
<1> QED BY <1>3, <1>4, <1>5, <1>6, <1>7, <1>8 DEF Enqueue

\* A drain carries what it takes out of the queue to the processing list.
LEMMA DrainDepth ==
  ASSUME TypeOK, TypeOK', Loops(drain, draining), IndexFresh, NEW d \in Drain, DrainStep(d)
  PROVE  Settled(Len(queue'), Held', Cardinality(Admitted'))
<1>0. /\ drain \in [Drain -> DrainState] /\ queue \in Seq(Batch) /\ processing \in Seq(Batch)
      /\ Len(queue) \in Nat /\ Held \in Nat /\ Cardinality(Admitted) \in Nat
  BY Counts DEF TypeOK, DrainsOK, StoreOK
<1>1. Admitted' = Admitted
  BY DEF DrainStep, DrainLength, DrainScan, DrainRemove, DrainPush, DrainRecheck, Admitted
<1>2. ASSUME UNCHANGED <<queue, processing>>, \A e \in Drain : drain'[e].pc = "push" <=> drain[e].pc = "push"
      PROVE  Settled(Len(queue'), Held', Cardinality(Admitted'))
  BY <1>0, <1>1, <1>2, HeldSame DEF Settled
<1>3. CASE DrainLength(d) \/ DrainScan(d)
  <2>1. drain[d].pc # "push" /\ drain'[d].pc # "push" /\ \A e \in Drain : e # d => drain'[e] = drain[e]
    BY <1>0, <1>3 DEF DrainLength, DrainScan, LeaveLoop, DrainState, DrainOff
  <2> QED BY <1>2, <1>3, <2>1 DEF DrainLength, DrainScan, redis
<1>4. CASE DrainRemove(d)
  <2>1. drain[d].index \in 1 .. Len(queue) /\ queue' = RemoveQueuedIndex(queue, drain[d].index)
    BY <1>4 DEF DrainRemove, IndexFresh
  <2>2. Len(queue') = Len(queue) - 1
    BY <1>0, <2>1, RemoveIndexAt
  <2>3. Carried = 0
    BY <1>4 DEF DrainRemove, Loops, LoopPc, Carried
  <2>4. drain'[d].pc = "push" /\ UNCHANGED processing
    BY <1>0, <1>4 DEF DrainRemove, DrainState
  <2>5. Held' = Held + 1
    BY <1>0, <2>3, <2>4 DEF Held, Carried
  <2> QED BY <1>0, <1>1, <2>2, <2>5 DEF Settled
<1>5. CASE DrainPush(d)
  <2>1. drain[d].job \in Batch /\ processing' = Append(processing, drain[d].job) /\ UNCHANGED queue
    BY <1>5 DEF DrainPush, TypeOK, DrainsOK
  <2>2. Len(processing') = Len(processing) + 1
    BY <1>0, <2>1
  <2>3. Carried = 1
    BY <1>5 DEF DrainPush, Carried
  <2>4. drain'[d].pc = "loop" /\ \A e \in Drain : e # d => drain'[e] = drain[e]
    BY <1>0, <1>5 DEF DrainPush, DrainOff
  <2>5. \A e \in Drain : e # d => drain[e].pc # "push"
    BY <1>5 DEF DrainPush, Loops, LoopPc
  <2>6. Carried' = 0
    BY <2>4, <2>5 DEF Carried
  <2>7. Held' = Held
    BY <1>0, <2>2, <2>3, <2>6 DEF Held
  <2> QED BY <1>0, <1>1, <2>1, <2>7 DEF Settled
<1>6. CASE DrainRecheck(d)
  <2>1. \A e \in Drain : drain'[e].pc = "push" <=> drain[e].pc = "push"
    BY <1>6, RecheckKeeps
  <2> QED BY <1>2, <1>6, <2>1 DEF DrainRecheck, redis
<1> QED BY <1>3, <1>4, <1>5, <1>6 DEF DrainStep

\* A worker only takes out of the processing list.
LEMMA WorkerDepth ==
  ASSUME TypeOK, TypeOK', Loops(drain, draining), NEW w \in Worker, WorkerStep(w)
  PROVE  Settled(Len(queue'), Held', Cardinality(Admitted'))
<1>0. /\ drain \in [Drain -> DrainState] /\ processing \in Seq(Batch) /\ WorkersOK
      /\ Len(queue) \in Nat /\ Held \in Nat /\ Cardinality(Admitted) \in Nat
  BY Counts DEF TypeOK, DrainsOK, StoreOK
<1>1. CASE WorkerRelease(w)
  <2>1. UNCHANGED <<queue, handler>> /\ processing' = RemoveFirst(processing, worker[w].job)
    BY <1>1 DEF WorkerRelease
  <2>2. \A d \in Drain : drain'[d].pc = "push" <=> drain[d].pc = "push"
    BY <1>0, <1>1, DrainSoonLoops DEF WorkerRelease
  <2>3. Len(processing') \in Nat /\ Len(processing') <= Len(processing)
    BY <1>0, <2>1, RemoveFirstAt
  <2>4. Carried' = Carried /\ Carried \in Nat
    BY <2>2 DEF Carried
  <2>5. Held' \in Nat /\ Held' <= Held
    BY <1>0, <2>3, <2>4 DEF Held
  <2>6. Admitted' = Admitted
    BY <2>1 DEF Admitted
  <2> QED BY <1>0, <2>1, <2>5, <2>6 DEF Settled
<1>2. CASE ~WorkerRelease(w)
  <2>1. UNCHANGED <<queue, processing, drain, handler>>
    BY <1>0, <1>2, WorkerKeepsJob
  <2>2. Held' = Held /\ Admitted' = Admitted
    BY <2>1 DEF Held, Carried, Admitted
  <2> QED BY <1>0, <2>1, <2>2 DEF Settled
<1> QED BY <1>1, <1>2

\* A restart puts the processing list behind the queue, and no request pushes any more.
LEMMA RebootDepth ==
  ASSUME TypeOK, TenantInv, Apart, DepthInv,
         NEW kept \in Seq(Batch), Len(kept) <= Len(processing), NEW gone, Reboot(kept, gone)
  PROVE  DepthInv'
<1>0. /\ queue \in Seq(Batch) /\ processing \in Seq(Batch) /\ restarts \in Nat
      /\ Len(queue) \in Nat /\ Held \in Nat /\ Cardinality(Admitted) \in Nat /\ Limit \in Nat
      /\ Cardinality(Tenant) \in Nat
  BY Counts DEF TypeOK, StoreOK, HistoryOK
<1>1. Len(queue') = Len(queue) + Len(kept) /\ processing' = <<>> /\ restarts' = restarts + 1
  BY <1>0 DEF Reboot
<1>2. Held' = 0
  <2>1. \A d \in Drain : drain'[d].pc # "push"
    BY RebootLoops
  <2>2. Carried' = 0
    BY <2>1 DEF Carried
  <2> QED BY <1>1, <2>2 DEF Held
<1>3. Admitted' = {}
  BY DEF Reboot, Admitted, HandlerIdle
<1>4. Cardinality(Admitted') = 0
  BY <1>3, FS_EmptySet
<1>5. Len(processing) <= Held /\ Held <= Cardinality(Tenant)
  <2>1. Held <= Cardinality(Tenant)
    BY HeldBound DEF TenantInv
  <2> QED BY <1>0, <2>1 DEF Held, Carried
<1>6. Len(queue) + Held <= Limit + Cardinality(Tenant)
  BY <1>0, <1>5 DEF DepthInv
<1>7. restarts' # 0 /\ Len(queue') + Held' + Cardinality(Admitted') <= Limit + Cardinality(Tenant)
  BY <1>0, <1>1, <1>2, <1>4, <1>5, <1>6
<1>8. Limit' = Limit
  BY DEF Limit
<1> QED BY <1>7 DEF DepthInv, Limit

LEMMA StepDepth ==
  ASSUME TypeOK, Loops(drain, draining), TenantInv, IndexFresh, BusyIsListed, Apart, DepthInv, [Next]_vars
  PROVE  DepthInv'
<1>0. TypeOK' /\ processing \in Seq(Batch)
  BY StepTypeOK DEF TypeOK, StoreOK
<1>1. Held' <= Cardinality(Tenant)
  <2>1. Apart' /\ CarriesIdle'
    BY StepApart, StepTenants DEF TenantInv
  <2>2. TypeOK' /\ CarriesIdle' /\ Apart' => (Held <= Cardinality(Tenant))'
    BY HeldBound, PTL
  <2> QED BY <1>0, <2>1, <2>2
<1>2. CASE Restart
  <2>1. Len(processing) <= Len(processing)
    BY <1>0
  <2> QED BY <1>0, <1>2, <2>1, RebootDepth DEF Restart
<1>3. ASSUME NEW w \in Worker, DieInCatch(w) PROVE DepthInv'
  BY <1>0, <1>3, RemoveFirstIsSeq, RemoveFirstAt, RebootDepth DEF DieInCatch
<1>4. CASE Shutdown \/ UNCHANGED vars
  BY <1>4 DEF Shutdown, vars, redis, loop, DepthInv, Held, Carried, Admitted, Limit
<1>5. ASSUME UNCHANGED restarts, Settled(Len(queue'), Held', Cardinality(Admitted')) PROVE DepthInv'
  BY <1>0, <1>1, <1>5, DepthKept
<1>6. ASSUME NEW h \in Handler, Enqueue(h) PROVE DepthInv'
  <2>1. UNCHANGED restarts
    BY <1>6 DEF Enqueue, Lookup, MeasureQueue, MeasureRest, MarkQueued, PushQueued, PushFails
  <2> QED BY <1>0, <1>5, <1>6, <2>1, EnqueueDepth
<1>7. ASSUME NEW d \in Drain, DrainStep(d) PROVE DepthInv'
  <2>1. UNCHANGED restarts
    BY <1>7 DEF DrainStep, DrainLength, DrainScan, DrainRemove, DrainPush, DrainRecheck
  <2> QED BY <1>0, <1>5, <1>7, <2>1, DrainDepth
<1>8. ASSUME NEW w \in Worker, WorkerStep(w) PROVE DepthInv'
  <2>1. UNCHANGED restarts
    BY <1>8 DEF WorkerStep, WorkerBegin, IngestOk, IngestRefused, IngestFails, IngestRetries,
                SuccessNotSaved, SettleOk, SettleFailed, WorkerRelease
  <2> QED BY <1>0, <1>5, <1>8, <2>1, WorkerDepth
<1> QED BY <1>2, <1>3, <1>4, <1>6, <1>7, <1>8 DEF Next

\* The depth test is not atomic with the push: the queue can exceed maxDepth, but by no more
\* than one batch per concurrent request and, however often the process restarts, one per tenant.
THEOREM DepthStaysBounded == Spec => []DepthBounded
<1>1. Init => Apart /\ DepthInv
  <2> SUFFICES ASSUME Init PROVE Apart /\ DepthInv
    OBVIOUS
  <2>1. Apart
    BY DEF Init, Apart
  <2>2. Admitted = {}
    BY DEF Init, Admitted, HandlerIdle
  <2>3. Len(queue) = 0 /\ restarts = 0 /\ Cardinality(Admitted) = 0
    BY <2>2, FS_EmptySet DEF Init
  <2>4. Limit \in Nat
    BY InitTypeOK, Counts
  <2> QED BY <2>1, <2>3, <2>4 DEF DepthInv
<1>2. IInv /\ Apart /\ DepthInv /\ [Next]_vars => (Apart /\ DepthInv)'
  BY LoopsMeaning, StepApart, StepDepth DEF IInv, SingleDrain, TenantInv
<1>3. IInv /\ DepthInv => DepthBounded
  <2> SUFFICES ASSUME TypeOK, DepthInv PROVE DepthBounded
    BY DEF IInv
  <2>1. /\ Len(queue) \in Nat /\ Held \in Nat /\ Cardinality(Admitted) \in Nat /\ Limit \in Nat
        /\ Cardinality(Tenant) \in Nat
    BY Counts
  <2>2. /\ restarts = 0 => Len(queue) <= Limit
        /\ restarts # 0 => Len(queue) <= Limit + Cardinality(Tenant)
    BY <2>1 DEF DepthInv
  <2>3. Limit = (MaxDepth - 1) + Cardinality(Handler)
    BY DEF Limit
  <2> QED BY <2>1, <2>2, <2>3 DEF DepthBounded
<1> QED BY <1>1, <1>2, <1>3, Invariant, PTL DEF Spec

-----------------------------------------------------------------------------
(* The order of a tenant's jobs.                                           *)

\* The jobs ahead of the one a loop is about to remove are other tenants'.
AheadOthers ==
  \A d \in Drain : drain[d].pc = "remove" =>
    \A i \in 1 .. Len(queue) : i < drain[d].index => TenantOf[queue[i]] # TenantOf[drain[d].job]

\* They were, when the scan passed over them, because their tenants were busy and its was not;
\* what happens to activeTenants before the removal does not matter.
LEMMA StepAhead ==
  ASSUME TypeOK, Loops(drain, draining), IndexFresh, AheadOthers, [Next]_vars
  PROVE  AheadOthers'
<1>0. /\ drain \in [Drain -> DrainState] /\ queue \in Seq(Batch) /\ StoreOK /\ DrainsOK
  BY DEF TypeOK, DrainsOK, StoreOK
<1>1. ASSUME UNCHANGED queue,
             \A d \in Drain : drain'[d].pc = "remove" => drain'[d] = drain[d]
      PROVE  AheadOthers'
  BY <1>1 DEF AheadOthers
<1>2. ASSUME NEW h \in Handler, Enqueue(h) PROVE AheadOthers'
  <2>1. CASE PushQueued(h)
    <3>1. handler[h].batch \in Batch
      BY <2>1 DEF PushQueued, TypeOK, HandlersOK
    <3>2. \A d \in Drain : drain'[d].pc \in {"remove", "push"} => drain'[d] = drain[d]
      BY <1>0, <2>1, DrainSoonLoops DEF PushQueued
    <3>3. /\ Len(queue') = Len(queue) + 1
          /\ \A i \in 1 .. Len(queue) : queue'[i] = queue[i]
      BY <1>0, <2>1, <3>1 DEF PushQueued
    <3>4. \A d \in Drain : drain[d].pc = "remove" => drain[d].index \in 1 .. Len(queue)
      BY DEF IndexFresh
    <3>5. Len(queue) \in Nat
      BY <1>0
    <3> QED BY <3>2, <3>3, <3>4, <3>5 DEF AheadOthers
  <2>2. CASE ~PushQueued(h)
    BY <1>1, <1>2, <2>2
       DEF Enqueue, Lookup, MeasureQueue, MeasureRest, MarkQueued, PushFails, loop, redis
  <2> QED BY <2>1, <2>2
<1>3. ASSUME NEW d \in Drain, LeaveLoop(d), UNCHANGED queue PROVE AheadOthers'
  BY <1>0, <1>1, <1>3 DEF LeaveLoop, DrainOff
<1>4. ASSUME NEW d \in Drain, DrainLength(d) PROVE AheadOthers'
  <2>1. CASE LeaveLoop(d)
    BY <1>3, <1>4, <2>1 DEF DrainLength, redis
  <2>2. CASE ~LeaveLoop(d)
    <3>1. UNCHANGED queue /\ drain'[d].pc = "scan" /\ \A e \in Drain : e # d => drain'[e] = drain[e]
      BY <1>0, <1>4, <2>2 DEF DrainLength, redis, DrainState
    <3> QED BY <1>1, <3>1
  <2> QED BY <2>1, <2>2
<1>5. ASSUME NEW d \in Drain, DrainScan(d) PROVE AheadOthers'
  <2>1. CASE LeaveLoop(d)
    BY <1>3, <1>5, <2>1 DEF DrainScan, redis
  <2>2. CASE ~LeaveLoop(d)
    <3>1. PICK i \in Takeable(d) :
            /\ \A j \in Takeable(d) : i <= j
            /\ drain' = [drain EXCEPT ![d] = [pc |-> "remove", seen |-> 0, index |-> i,
                                              job |-> queue[i]]]
      BY <1>5, <2>2 DEF DrainScan
    <3>2. i \in 1 .. Len(queue) /\ TenantOf[queue[i]] \notin active
      BY <1>0, TakeableInQueue
    <3>3. UNCHANGED queue
      BY <1>5 DEF DrainScan, redis
    <3>4. ASSUME NEW k \in 1 .. Len(queue), k < i PROVE TenantOf[queue[k]] # TenantOf[queue[i]]
      <4>1. i \in 1 .. MinOf(drain[d].seen, Len(queue)) /\ MinOf(drain[d].seen, Len(queue)) \in Nat
        BY <1>0, TakeableInQueue DEF Takeable, MinOf, DrainState
      <4>2. k \in 1 .. MinOf(drain[d].seen, Len(queue)) /\ ~(i <= k)
        BY <3>2, <3>4, <4>1
      <4>3. k \notin Takeable(d)
        BY <3>1, <4>2
      <4>4. TenantOf[queue[k]] \in active
        BY <4>2, <4>3 DEF Takeable
      <4> QED BY <3>2, <4>4
    <3>5. /\ drain'[d].index = i /\ drain'[d].job = queue[i]
          /\ \A e \in Drain : e # d => drain'[e] = drain[e]
      BY <1>0, <3>1
    <3> QED BY <3>3, <3>4, <3>5 DEF AheadOthers
  <2> QED BY <2>1, <2>2
<1>6. ASSUME NEW d \in Drain, DrainRemove(d) PROVE AheadOthers'
  <2>1. \A e \in Drain : drain'[e].pc # "remove"
    BY <1>0, <1>6 DEF DrainRemove, Loops, LoopPc, DrainState
  <2> QED BY <2>1 DEF AheadOthers
<1>7. ASSUME NEW d \in Drain, DrainPush(d) PROVE AheadOthers'
  BY <1>0, <1>1, <1>7 DEF DrainPush, DrainOff
<1>8. ASSUME NEW d \in Drain, DrainRecheck(d) PROVE AheadOthers'
  BY <1>1, <1>8, RecheckKeeps DEF DrainRecheck, redis
<1>9. ASSUME NEW w \in Worker, WorkerStep(w) PROVE AheadOthers'
  <2>1. CASE WorkerRelease(w)
    BY <1>0, <1>1, <2>1, DrainSoonLoops DEF WorkerRelease
  <2>2. CASE ~WorkerRelease(w)
    BY <1>1, <1>9, <2>2, WorkerKeepsJob DEF TypeOK
  <2> QED BY <2>1, <2>2
<1>10. CASE Shutdown
  BY <1>1, <1>10 DEF Shutdown, loop, redis
<1>11. CASE UNCHANGED vars
  BY <1>1, <1>11 DEF vars, loop, redis
<1>12. ASSUME NEW kept, NEW gone, Reboot(kept, gone) PROVE AheadOthers'
  BY <1>12, RebootLoops DEF AheadOthers
<1> QED BY <1>2, <1>4, <1>5, <1>6, <1>7, <1>8, <1>9, <1>10, <1>11, <1>12
        DEF Next, DrainStep, Restart, DieInCatch

\* Within a tenant the jobs leave the queue in the order they entered it, even when jobs of
\* other tenants overtake them and a tenant becomes idle between the scan and the removal.
THEOREM TenantsInOrder == Spec => TenantFifo
<1>1. Init => AheadOthers
  BY DEF Init, AheadOthers, DrainOff
<1>2. IInv /\ AheadOthers /\ [Next]_vars => AheadOthers'
  BY LoopsMeaning, StepAhead DEF IInv, SingleDrain
<1>3. AheadOthers /\ [Next]_vars =>
        [\A d \in Drain : drain[d].pc = "remove" /\ drain'[d].pc = "push" =>
           \A i \in 1 .. Len(queue) :
             i < drain[d].index => TenantOf[queue[i]] # TenantOf[drain[d].job]]_vars
  BY DEF AheadOthers
<1> QED BY <1>1, <1>2, <1>3, Invariant, PTL DEF Spec, TenantFifo

=============================================================================
