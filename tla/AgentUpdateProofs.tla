-------------------------- MODULE AgentUpdateProofs --------------------------
(***************************************************************************)
(* Proofs about AgentUpdate, for any releases, requests and troubles.      *)
(***************************************************************************)
EXTENDS AgentUpdate, TLAPS

-----------------------------------------------------------------------------
(* The types in parts.                                                     *)

Status  == Active \cup Terminal \cup {"none"}
TxState == {"none", "staged", "restarting", "service_stopped", "files_replaced", "verifying_health",
            "completed", "rolled_back", "rollback_failed", "rollback_reported"}
AtWork  == {"reporting", "relaunching", "verified", "downloaded", "leaving"}
HelperSteps == {"none", "start", "wait", "copy", "launch", "mark", "watch", "rollback", "restore", "restored"}

RequestRow == [status : Status, target : Version, from : Version, retry : BOOLEAN]
TxRow      == [state : TxState, from : Version, backup : [Part -> Version]]
HelperRow  == [pc : HelperSteps, left : SUBSET Part]
Service    == {x \in [pc : AtWork \cup {"recover", "poll", "stopping", "off"}, ver : Version,
                      req : Request \cup {0}, busy : BOOLEAN] : x.pc \in AtWork <=> x.req # 0}

RequestsOK == /\ request \in [Request -> RequestRow]
              /\ \A r \in Request : request[r].status # "none" => Target(r) \in Release
TxOK       == tx \in [Request -> TxRow]
HelpersOK  == helper \in [Request -> HelperRow]
ServiceOK  == service \in Service
RestOK     == /\ revoked \subseteq Release /\ bad \subseteq Release
              /\ beat \in [ver : Version, fresh : BOOLEAN] /\ files \in [Part -> Version]
              /\ troublesLeft \in Nat
Types == RequestsOK /\ TxOK /\ HelpersOK /\ ServiceOK /\ RestOK

LEMMA TypesSuffice == Types => TypeOK
<1> SUFFICES ASSUME Types PROVE TypeOK
  OBVIOUS
<1>1. \A r \in Request : /\ request[r] \in RequestRow /\ tx[r] \in TxRow /\ helper[r] \in HelperRow
  BY DEF Types, RequestsOK, TxOK, HelpersOK
<1>2. \A r \in Request : /\ request[r].status \in Active \cup Terminal \cup {"none"}
                         /\ request[r].target \in Version /\ request[r].from \in Version
                         /\ tx[r].from \in Version /\ tx[r].backup \in [Part -> Version]
                         /\ helper[r].left \subseteq Part
  BY <1>1 DEF RequestRow, TxRow, HelperRow, Status
<1>3. service.ver \in Version /\ service.req \in Request \cup {0}
  BY DEF Types, ServiceOK, Service
<1> QED BY <1>2, <1>3 DEF TypeOK, Types, RestOK

-----------------------------------------------------------------------------
(* The invariant: what request, transaction, helper and service say of one *)
(* request.                                                                *)

Verdict   == {"rolled_back", "rollback_failed"}
Preparing == {"verified", "downloaded", "leaving"}
Undoing   == Verdict \cup {"rollback_reported"}

\* What is worked on was asked for; nobody prepares what has ended with a verdict or completed it;
\* a verdict is that of a transaction whose helper has ended, or will not begin.
Row(r) ==
  /\ helper[r].pc # "none" \/ tx[r].state # "none" \/ service.req = r => request[r].status # "none"
  /\ service.pc \in Preparing /\ service.req = r => request[r].status \notin Verdict \cup {"completed"}
  /\ service.pc \in {"reporting", "relaunching"} /\ service.req = r => request[r].status \notin Verdict
  /\ service.pc = "relaunching" /\ service.req = r => tx[r].state \notin {"none", "completed"}
  /\ request[r].status \in Verdict => tx[r].state \in Undoing
  /\ tx[r].state \in Undoing => helper[r].pc \in {"none", "start"}

UpdateInv == Types /\ \A r \in Request : Row(r)

\* What VerdictFinal says of one request.
Keeps(r) ==
  /\ request[r].status \in Verdict => request'[r].status = request[r].status
  /\ request[r].status = "completed" => request'[r].status \in Verdict \cup {"completed"}

\* A step that leaves a request, its transaction and its helper alone, and does not turn to it.
LEMMA RowStays ==
  ASSUME NEW r \in Request, Row(r),
         request'[r].status = request[r].status, tx'[r].state = tx[r].state,
         helper'[r].pc \in {helper[r].pc, "none"},
         service'.req # r \/ (service'.req = service.req /\ service'.pc = service.pc)
  PROVE  Row(r)' /\ Keeps(r)
BY DEF Row, Keeps

-----------------------------------------------------------------------------
(* What the steps put where.                                               *)

\* The status of one request.
LEMMA SetIs ==
  ASSUME RequestsOK, NEW r \in Request, NEW s \in Status, Set(r, s),
         request[r].status # "none" \/ s = "none"
  PROVE  /\ RequestsOK' /\ request'[r].status = s
         /\ \A q \in Request : q # r => request'[q].status = request[q].status
         /\ \A q \in Request : Target(q)' = Target(q)
<1> DEFINE x == [request[r] EXCEPT !.status = s]
<1>1. request[r] \in RequestRow /\ x \in RequestRow /\ x.status = s /\ x.target = request[r].target
  BY DEF RequestsOK, RequestRow
<1>2. request' = [request EXCEPT ![r] = x]
  BY DEF Set
<1> HIDE DEF x
<1>3. request' \in [Request -> RequestRow] /\ request'[r] = x
      /\ \A q \in Request : q # r => request'[q] = request[q]
  BY <1>1, <1>2 DEF RequestsOK
<1> QED BY <1>1, <1>3 DEF RequestsOK, Target

\* A report moves an active request to an active status, or leaves it alone.
LEMMA ProgressIs ==
  ASSUME RequestsOK, NEW r \in Request, NEW s \in Active, Progress(r, s)
  PROVE  /\ RequestsOK'
         /\ \/ request[r].status \in Active /\ request'[r].status \in Active
            \/ request'[r].status = request[r].status
         /\ \A q \in Request : q # r => request'[q].status = request[q].status
         /\ \A q \in Request : Target(q)' = Target(q)
<1>1. CASE request[r].status \in Active
  <2>1. Set(r, s) /\ s \in Status /\ request[r].status # "none"
    BY <1>1 DEF Progress, Status, Active, Cancellable, Claimable
  <2> QED BY <1>1, <2>1, SetIs
<1>2. CASE request[r].status \notin Active
  <2>1. UNCHANGED request
    BY <1>2 DEF Progress
  <2> QED BY <2>1 DEF RequestsOK, Target
<1> QED BY <1>1, <1>2

LEMMA SaveIs ==
  ASSUME TxOK, NEW r \in Request, NEW s \in TxState, Save(r, s)
  PROVE  /\ TxOK' /\ tx'[r].state = s
         /\ \A q \in Request : q # r => tx'[q].state = tx[q].state
         /\ \A q \in Request : tx'[q].backup = tx[q].backup
<1> DEFINE x == [tx[r] EXCEPT !.state = s]
<1>1. tx[r] \in TxRow /\ x \in TxRow /\ x.state = s /\ x.backup = tx[r].backup
  BY DEF TxOK, TxRow
<1>2. tx' = [tx EXCEPT ![r] = x]
  BY DEF Save
<1> HIDE DEF x
<1> QED BY <1>1, <1>2 DEF TxOK

LEMMA HelperIs ==
  ASSUME HelpersOK, NEW r \in Request, NEW pc \in HelperSteps, NEW left \in SUBSET Part,
         HelperTo(r, pc, left)
  PROVE  /\ HelpersOK' /\ helper'[r].pc = pc /\ helper'[r].left = left
         /\ \A q \in Request : q # r => helper'[q] = helper[q]
<1> DEFINE x == [pc |-> pc, left |-> left]
<1>1. helper' = [helper EXCEPT ![r] = x]
  BY DEF HelperTo
<1>2. x \in HelperRow /\ x.pc = pc /\ x.left = left
  BY DEF HelperRow
<1> HIDE DEF x
<1> QED BY <1>1, <1>2 DEF HelpersOK

\* The service turns to a request, or to none.
LEMMA TurnsTo ==
  ASSUME ServiceOK, NEW pc \in AtWork, NEW r \in Request, Goto(pc, r)
  PROVE  ServiceOK' /\ service'.pc = pc /\ service'.req = r /\ service'.ver = service.ver
<1>1. r # 0
  BY DEF Request
<1> QED BY <1>1 DEF Goto, ServiceOK, Service

LEMMA TurnsToNone ==
  ASSUME ServiceOK, NEW pc \in {"recover", "poll", "stopping"}, Goto(pc, 0)
  PROVE  ServiceOK' /\ service'.pc = pc /\ service'.req = 0 /\ service'.ver = service.ver
BY DEF Goto, ServiceOK, Service, AtWork

LEMMA BusyIs ==
  ASSUME ServiceOK, GetsBusy \/ GetsFree
  PROVE  /\ ServiceOK' /\ service'.pc = service.pc /\ service'.req = service.req
         /\ service'.ver = service.ver
BY DEF GetsBusy, GetsFree, ServiceOK, Service

\* The request the service works on.
LEMMA ReqIs == ASSUME ServiceOK, service.pc \in AtWork PROVE Req \in Request
BY DEF ServiceOK, Service, Req

LEMMA NoRequestZero == \A r \in Request : r # 0
BY DEF Request

-----------------------------------------------------------------------------
(* The steps keep the invariant, and the verdicts.                         *)

AllKeep == \A r \in Request : Keeps(r)

\* A step about one request.
LEMMA OneRow ==
  ASSUME UpdateInv, NEW r \in Request, Types',
         \A q \in Request : q # r => /\ request'[q].status = request[q].status
                                     /\ tx'[q].state = tx[q].state /\ helper'[q].pc = helper[q].pc,
         service'.req \in {0, r} \/ (service'.req = service.req /\ service'.pc = service.pc),
         Row(r)', Keeps(r)
  PROVE  UpdateInv' /\ AllKeep
<1>1. ASSUME NEW q \in Request, q # r PROVE Row(q)' /\ Keeps(q)
  BY <1>1, RowStays, NoRequestZero DEF UpdateInv
<1> QED BY <1>1 DEF UpdateInv, AllKeep

\* A step about no request.
LEMMA NoRow ==
  ASSUME UpdateInv, UNCHANGED <<request, tx, helper>>, ServiceOK', RestOK',
         service'.req = 0 \/ (service'.req = service.req /\ service'.pc = service.pc)
  PROVE  UpdateInv' /\ AllKeep
<1>1. Types'
  BY DEF UpdateInv, Types, RequestsOK, TxOK, HelpersOK, Target
<1>2. ASSUME NEW q \in Request PROVE Row(q)' /\ Keeps(q)
  BY RowStays, NoRequestZero DEF UpdateInv
<1> QED BY <1>1, <1>2 DEF UpdateInv, AllKeep

\* Nothing but the counter of troubles.
LEMMA RestStays ==
  ASSUME RestOK, UNCHANGED <<revoked, bad, beat, files>>, Trouble \/ UNCHANGED troublesLeft
  PROVE  RestOK'
BY DEF RestOK, Trouble

LEMMA BackendInv ==
  ASSUME UpdateInv,
         \/ \E r \in Request : (\E v \in Release, retry \in BOOLEAN : Ask(r, v, retry)) \/ Cancel(r)
         \/ \E v \in Release : Revoke(v)
         \/ Heartbeat \/ BeatExpires
  PROVE  UpdateInv' /\ AllKeep
<1>1. ASSUME NEW r \in Request, NEW v \in Release, NEW retry \in BOOLEAN, Ask(r, v, retry)
      PROVE  UpdateInv' /\ AllKeep
  <2> DEFINE x == [status |-> "approved", target |-> v, from |-> beat.ver, retry |-> retry]
  <2>1. /\ request[r].status = "none" /\ request' = [request EXCEPT ![r] = x]
        /\ UNCHANGED <<revoked, beat, service, helper, tx, files, bad, troublesLeft>>
    BY <1>1 DEF Ask, diskVars
  <2>2. x \in RequestRow /\ x.status = "approved" /\ x.target = v
    BY DEF RequestRow, Status, Active, Cancellable, Version, UpdateInv, Types, RestOK
  <2> HIDE DEF x
  <2>3. /\ request' \in [Request -> RequestRow] /\ request'[r] = x
        /\ \A q \in Request : q # r => request'[q] = request[q]
    BY <2>1, <2>2 DEF UpdateInv, Types, RequestsOK
  <2>4. Types'
    BY <2>1, <2>2, <2>3 DEF UpdateInv, Types, RequestsOK, TxOK, HelpersOK, ServiceOK, RestOK, Target
  <2>5. Row(r)' /\ Keeps(r)
    BY <2>1, <2>2, <2>3 DEF UpdateInv, Row, Keeps, Verdict
  <2> QED BY <2>1, <2>3, <2>4, <2>5, OneRow
<1>2. ASSUME NEW r \in Request, Cancel(r) PROVE UpdateInv' /\ AllKeep
  <2>1. /\ request[r].status \in Cancellable /\ Set(r, "cancelled") /\ Trouble
        /\ UNCHANGED <<revoked, beat, service, helper, tx, files, bad>>
    BY <1>2 DEF Cancel, diskVars
  <2>2. /\ RequestsOK' /\ request'[r].status = "cancelled"
        /\ \A q \in Request : q # r => request'[q].status = request[q].status
    BY <2>1, SetIs DEF UpdateInv, Types, Status, Terminal, Cancellable, Claimable
  <2>3. Types'
    BY <2>1, <2>2, RestStays DEF UpdateInv, Types, TxOK, HelpersOK, ServiceOK
  <2>4. Row(r)' /\ Keeps(r)
    BY <2>1, <2>2 DEF UpdateInv, Row, Keeps, Verdict, Cancellable, Claimable
  <2> QED BY <2>1, <2>2, <2>3, <2>4, OneRow
<1>3. ASSUME NEW v \in Release, Revoke(v) PROVE UpdateInv' /\ AllKeep
  <2>1. RestOK' /\ UNCHANGED <<request, tx, helper, service>>
    BY <1>3 DEF Revoke, diskVars, UpdateInv, Types, RestOK, Trouble
  <2> QED BY <2>1, NoRow DEF UpdateInv, Types, ServiceOK
<1>4. CASE Heartbeat \/ BeatExpires
  <2>1. UNCHANGED <<request, tx, helper, service, revoked, bad, files, troublesLeft>>
    BY <1>4 DEF Heartbeat, BeatExpires, diskVars
  <2>2. beat' \in [ver : Version, fresh : BOOLEAN]
    <3>1. beat \in [ver : Version, fresh : BOOLEAN] /\ service.ver \in Version
      BY DEF UpdateInv, Types, RestOK, ServiceOK, Service
    <3>2. CASE beat' = [ver |-> service.ver, fresh |-> TRUE]
      BY <3>1, <3>2
    <3>3. CASE beat' = [beat EXCEPT !.fresh = FALSE]
      BY <3>1, <3>3
    <3> QED BY <1>4, <3>2, <3>3 DEF Heartbeat, BeatExpires
  <2>3. RestOK' /\ ServiceOK'
    BY <2>1, <2>2 DEF UpdateInv, Types, RestOK, ServiceOK
  <2> QED BY <2>1, <2>3, NoRow
<1> QED BY <1>1, <1>2, <1>3, <1>4

\* The recovery.
LEMMA RecoverInv ==
  ASSUME UpdateInv, NEW r \in Request, ReportRollback(r) \/ Resume(r) \/ Relaunch(r) \/ Verify(r)
  PROVE  UpdateInv' /\ AllKeep
<1> USE DEF UpdateInv, Types
<1>0. Row(r) /\ RestOK' /\ UNCHANGED <<revoked, bad, beat, files>>
  BY RestStays DEF ReportRollback, Resume, Relaunch, Verify, backendVars, diskVars
<1>1. CASE ReportRollback(r)
  <2>1. tx[r].state \in Verdict /\ UNCHANGED helper
    BY <1>1 DEF ReportRollback, Undone, Verdict
  <2>2. request[r].status # "none" /\ helper[r].pc \in {"none", "start"}
    BY <1>0, <2>1 DEF Row, Verdict, Undoing
  <2>3. CASE request[r].status \in Verdict
    <3>1. Save(r, "rollback_reported") /\ UNCHANGED <<request, service>>
      BY <1>1, <2>3 DEF ReportRollback, Verdict
    <3>2. TxOK' /\ tx'[r].state = "rollback_reported" /\ \A q \in Request : q # r => tx'[q].state = tx[q].state
      BY <3>1, SaveIs DEF TxState
    <3>3. Row(r)' /\ Keeps(r)
      BY <1>0, <2>1, <2>2, <3>1, <3>2 DEF Row, Keeps, Undoing, Verdict
    <3>4. Types'
      BY <1>0, <2>1, <3>1, <3>2 DEF RequestsOK, HelpersOK, ServiceOK, Target
    <3> QED BY <2>1, <3>1, <3>2, <3>3, <3>4, OneRow
  <2>4. CASE request[r].status \notin Verdict
    <3>1. (UNCHANGED request \/ Set(r, tx[r].state)) /\ Goto("poll", 0) /\ UNCHANGED tx
      BY <1>1, <2>4 DEF ReportRollback, Verdict, Deferred
    <3>2. ServiceOK' /\ service'.req = 0 /\ service'.pc = "poll"
      BY <3>1, TurnsToNone
    <3>3. CASE UNCHANGED request
      BY <1>0, <2>1, <3>1, <3>2, <3>3, NoRow
    <3>4. CASE Set(r, tx[r].state)
      <4>1. /\ RequestsOK' /\ request'[r].status = tx[r].state
            /\ \A q \in Request : q # r => request'[q].status = request[q].status
        BY <2>1, <2>2, <3>4, SetIs DEF Status, Terminal, Verdict
      <4>2. Row(r)' /\ Keeps(r)
        BY <1>0, <2>1, <2>2, <2>4, <3>1, <3>2, <4>1, NoRequestZero DEF Row, Keeps, Undoing, Verdict
      <4>3. Types'
        BY <1>0, <2>1, <3>1, <3>2, <4>1 DEF HelpersOK, TxOK
      <4> QED BY <2>1, <3>1, <3>2, <4>1, <4>2, <4>3, OneRow
    <3> QED BY <3>1, <3>3, <3>4
  <2> QED BY <2>3, <2>4
<1>2. CASE Relaunch(r)
  <2>1. /\ service.pc = "relaunching" /\ service.req = r /\ Save(r, "restarting") /\ UNCHANGED request
        /\ \/ /\ helper[r].pc = "none" /\ helper' = [helper EXCEPT ![r] = [pc |-> "start", left |-> Part]]
              /\ Goto("stopping", 0)
           \/ UNCHANGED helper /\ Goto("poll", 0)
    BY <1>2 DEF Relaunch, At, Req, backendVars, Deferred
  <2>2. TxOK' /\ tx'[r].state = "restarting" /\ \A q \in Request : q # r => tx'[q].state = tx[q].state
    BY <2>1, SaveIs DEF TxState
  <2>3. ServiceOK' /\ service'.req = 0 /\ service'.pc \in {"stopping", "poll"}
    BY <2>1, TurnsToNone
  <2>4. HelpersOK' /\ \A q \in Request : q # r => helper'[q].pc = helper[q].pc
    <3>1. CASE helper' = [helper EXCEPT ![r] = [pc |-> "start", left |-> Part]]
      BY <3>1, HelperIs DEF HelperTo, HelperSteps
    <3> QED BY <2>1, <3>1 DEF HelpersOK
  <2>5. Row(r)' /\ Keeps(r)
    BY <1>0, <2>1, <2>2, <2>3, NoRequestZero DEF Row, Keeps, Undoing, Verdict
  <2>6. Types'
    BY <1>0, <2>1, <2>2, <2>3, <2>4 DEF RequestsOK, Target
  <2> QED BY <2>1, <2>2, <2>3, <2>4, <2>5, <2>6, OneRow
<1>3. CASE Verify(r)
  <2>1. /\ tx[r].state \notin Undoing /\ tx[r].state # "none" /\ Save(r, "verifying_health")
        /\ Progress(r, "verifying_health") /\ Goto("reporting", r) /\ UNCHANGED helper
    BY <1>3 DEF Verify, InPlace, Pending, Undone, Undoing, Verdict
  <2>2. /\ TxOK' /\ tx'[r].state = "verifying_health"
        /\ \A q \in Request : q # r => tx'[q].state = tx[q].state
    BY <2>1, SaveIs DEF TxState
  <2>3. /\ RequestsOK'
        /\ \/ request[r].status \in Active /\ request'[r].status \in Active
           \/ request'[r].status = request[r].status
        /\ \A q \in Request : q # r => request'[q].status = request[q].status
    BY <2>1, ProgressIs DEF Active
  <2>4. ServiceOK' /\ service'.req = r /\ service'.pc = "reporting"
    BY <2>1, TurnsTo DEF AtWork
  <2>5. Row(r)' /\ Keeps(r)
    BY <1>0, <2>1, <2>2, <2>3, <2>4 DEF Row, Keeps, Undoing, Verdict, Preparing, Active, Cancellable, Claimable
  <2>6. Types'
    BY <1>0, <2>1, <2>2, <2>3, <2>4 DEF HelpersOK
  <2> QED BY <2>1, <2>2, <2>3, <2>4, <2>5, <2>6, OneRow
<1>4. CASE Resume(r)
  <2>1. /\ tx[r].state \notin Undoing \cup {"none", "completed"} /\ Goto("relaunching", r)
        /\ UNCHANGED <<request, tx, helper>>
    BY <1>4 DEF Resume, Unfinished, UnderWay, Undoing, Verdict, backendVars, diskVars
  <2>2. ServiceOK' /\ service'.req = r /\ service'.pc = "relaunching"
    BY <2>1, TurnsTo DEF AtWork
  <2>3. Row(r)' /\ Keeps(r)
    BY <1>0, <2>1, <2>2 DEF Row, Keeps, Undoing, Verdict, Preparing
  <2>4. Types'
    BY <1>0, <2>1, <2>2 DEF RequestsOK, TxOK, HelpersOK, Target
  <2> QED BY <2>1, <2>2, <2>3, <2>4, OneRow
<1> QED BY <1>1, <1>2, <1>3, <1>4

\* What the service prepares has not ended with a verdict.
Open(r) == request[r].status \notin Verdict \cup {"completed", "none"}

LEMMA PreparedIsOpen ==
  ASSUME UpdateInv, service.pc \in Preparing
  PROVE  Req \in Request /\ Open(Req)
<1>1. Req \in Request
  BY ReqIs DEF UpdateInv, Types, Preparing, AtWork
<1> QED BY <1>1, NoRequestZero DEF UpdateInv, Row, Open, Req

\* A preparation that fails.
LEMMA FailedInv ==
  ASSUME UpdateInv, NEW r \in Request, Open(r), bad' = bad \cup {Target(r)}, Goto("recover", 0),
         Set(r, "failed") \/ UNCHANGED request, Trouble \/ UNCHANGED troublesLeft,
         UNCHANGED <<revoked, beat, helper, tx, files>>
  PROVE  UpdateInv' /\ AllKeep
<1>1. ServiceOK' /\ service'.req = 0
  BY TurnsToNone DEF UpdateInv, Types
<1>2. RestOK' /\ TxOK' /\ HelpersOK'
  BY DEF UpdateInv, Types, RestOK, RequestsOK, TxOK, HelpersOK, Open, Trouble
<1>3. CASE UNCHANGED request
  BY <1>1, <1>2, <1>3, NoRow
<1>4. CASE Set(r, "failed")
  <2>1. /\ RequestsOK' /\ request'[r].status = "failed"
        /\ \A q \in Request : q # r => request'[q].status = request[q].status
    BY <1>4, SetIs DEF UpdateInv, Types, Open, Status, Terminal
  <2>2. Row(r)' /\ Keeps(r)
    BY <1>1, <2>1, NoRequestZero DEF UpdateInv, Row, Keeps, Open, Verdict
  <2> QED BY <1>1, <1>2, <2>1, <2>2, OneRow DEF UpdateInv, Types
<1> QED BY <1>3, <1>4

\* A preparation that reports and goes on, or waits for its next turn.
LEMMA GoesOn ==
  ASSUME UpdateInv, NEW r \in Request, Open(r), NEW s \in Active, Progress(r, s),
         Goto("recover", 0) \/ \E pc \in Preparing : Goto(pc, r),
         TxOK', \A q \in Request : q # r => tx'[q].state = tx[q].state,
         tx'[r].state \notin Undoing \/ tx'[r].state = tx[r].state,
         UNCHANGED <<helper, revoked, beat, files, bad, troublesLeft>>
  PROVE  UpdateInv' /\ AllKeep
<1>1. /\ RequestsOK'
      /\ \/ request[r].status \in Active /\ request'[r].status \in Active
         \/ request'[r].status = request[r].status
      /\ \A q \in Request : q # r => request'[q].status = request[q].status
  BY ProgressIs DEF UpdateInv, Types
<1>2. ServiceOK' /\ (service'.req = 0 \/ (service'.req = r /\ service'.pc \in Preparing))
  BY TurnsToNone, TurnsTo DEF UpdateInv, Types, Preparing, AtWork
<1>3. request'[r].status \notin Verdict \cup {"completed", "none"}
  BY <1>1 DEF Open, Verdict, Active, Cancellable, Claimable
<1>4. Row(r)' /\ Keeps(r)
  BY <1>2, <1>3, NoRequestZero DEF UpdateInv, Row, Keeps, Open, Preparing
<1>5. Types'
  BY <1>1, <1>2 DEF UpdateInv, Types, HelpersOK, RestOK
<1> QED BY <1>1, <1>2, <1>4, <1>5, OneRow

\* The verdict of the new build.
LEMMA CompleteInv ==
  ASSUME UpdateInv, Complete \/ NotComplete
  PROVE  UpdateInv' /\ AllKeep
<1> USE DEF UpdateInv, Types
<1>0. PICK r \in Request : r = Req /\ service.req = r /\ service.pc = "reporting"
  BY ReqIs DEF Complete, NotComplete, At, AtWork, Req
<1>1. /\ Row(r) /\ request[r].status \notin Verdict /\ request[r].status # "none"
      /\ RestOK' /\ UNCHANGED helper
  BY <1>0, NoRequestZero, RestStays DEF Row, Complete, NotComplete, diskVars
<1>2. ServiceOK' /\ service'.req = 0
  BY TurnsToNone DEF Complete, NotComplete, Deferred
<1>3. /\ RequestsOK' /\ request'[r].status \in {request[r].status, "completed"}
      /\ \A q \in Request : q # r => request'[q].status = request[q].status
  <2>1. CASE Set(r, "completed")
    BY <1>1, <2>1, SetIs DEF Status, Terminal
  <2>2. CASE UNCHANGED request
    BY <2>2 DEF RequestsOK, Target
  <2> QED BY <1>0, <2>1, <2>2 DEF Complete, NotComplete
<1>4. /\ TxOK' /\ tx'[r].state \in {tx[r].state, "completed"}
      /\ \A q \in Request : q # r => tx'[q].state = tx[q].state
  <2>1. CASE Save(r, "completed")
    BY <2>1, SaveIs DEF TxState
  <2>2. CASE UNCHANGED tx
    BY <2>2 DEF TxOK
  <2> QED BY <1>0, <2>1, <2>2 DEF Complete, NotComplete, diskVars
<1>5. Row(r)' /\ Keeps(r)
  BY <1>1, <1>2, <1>3, <1>4, NoRequestZero DEF Row, Keeps, Undoing, Verdict
<1> QED BY <1>1, <1>2, <1>3, <1>4, <1>5, OneRow DEF HelpersOK

\* A poll, and what is prepared after it.
LEMMA PollInv ==
  ASSUME UpdateInv, RecoverEnds \/ GetsBusy \/ GetsFree \/ NothingToDo \/ ServiceStops \/ \E r \in Request : Claim(r) \/ Prepare(r)
  PROVE  UpdateInv' /\ AllKeep
<1> USE DEF UpdateInv, Types
<1>1. CASE RecoverEnds \/ GetsBusy \/ GetsFree \/ NothingToDo \/ ServiceStops
  <2>1. UNCHANGED <<request, tx, helper>> /\ RestOK'
    BY <1>1, RestStays DEF RecoverEnds, GetsBusy, GetsFree, NothingToDo, ServiceStops, backendVars, diskVars
  <2>2. ServiceOK' /\ (service'.req = 0 \/ (service'.req = service.req /\ service'.pc = service.pc))
    <3>1. CASE ServiceStops
      BY <3>1 DEF ServiceStops, ServiceOK, Service, AtWork
    <3>2. CASE GetsBusy \/ GetsFree
      BY <3>2, BusyIs
    <3> QED BY <1>1, <3>1, <3>2, TurnsToNone DEF RecoverEnds, NothingToDo
  <2> QED BY <2>1, <2>2, NoRow
<1>2. ASSUME NEW r \in Request, Claim(r) PROVE UpdateInv' /\ AllKeep
  <2> DEFINE x == [request[r] EXCEPT !.status = "claimed", !.from = service.ver]
  <2>1. /\ request[r].status = "approved" /\ request' = [request EXCEPT ![r] = x] /\ Goto("recover", 0)
        /\ UNCHANGED <<revoked, beat, helper, tx, files, bad, troublesLeft>>
    BY <1>2 DEF Claim, diskVars
  <2>2. x \in RequestRow /\ x.status = "claimed" /\ x.target = Target(r)
    BY DEF RequestsOK, RequestRow, ServiceOK, Service, Status, Active, Cancellable, Claimable, Target
  <2> HIDE DEF x
  <2>3. /\ request' \in [Request -> RequestRow] /\ request'[r] = x
        /\ \A q \in Request : q # r => request'[q] = request[q]
    BY <2>1, <2>2 DEF RequestsOK
  <2>4. ServiceOK' /\ service'.req = 0
    BY <2>1, TurnsToNone
  <2>5. Types'
    BY <2>1, <2>2, <2>3, <2>4 DEF RequestsOK, TxOK, HelpersOK, RestOK, Target
  <2>6. Row(r)' /\ Keeps(r)
    BY <2>1, <2>2, <2>3, <2>4, NoRequestZero DEF Row, Keeps, Verdict
  <2> QED BY <2>1, <2>3, <2>4, <2>5, <2>6, OneRow
<1>3. ASSUME NEW r \in Request, Prepare(r) PROVE UpdateInv' /\ AllKeep
  <2>1. Open(r) /\ UNCHANGED <<revoked, beat, helper, tx, files>>
    BY <1>3 DEF Prepare, Open, Claimable, Verdict
  <2>2. CASE Fails(r)
    BY <2>1, <2>2, FailedInv DEF Fails
  <2>3. CASE Progress(r, "verifying") /\ Goto("verified", r) /\ UNCHANGED <<bad, troublesLeft>>
    BY <2>1, <2>3, GoesOn DEF Active, Cancellable, Claimable, Preparing, TxOK
  <2> QED BY <1>3, <2>2, <2>3 DEF Prepare
<1> QED BY <1>1, <1>2, <1>3

LEMMA PrepareInv ==
  ASSUME UpdateInv, Download \/ Stage \/ WindowClosed \/ Install \/ Leave \/ PrepareFails
  PROVE  UpdateInv' /\ AllKeep
<1> USE DEF UpdateInv, Types
<1>0. service.pc \in Preparing
  BY DEF Download, Stage, WindowClosed, Staged, Install, Leave, PrepareFails, At, Preparing
<1>1. PICK r \in Request : r = Req /\ service.req = r /\ Open(r) /\ Row(r)
  BY <1>0, PreparedIsOpen DEF Req
<1> USE DEF Active, Cancellable, Claimable, Preparing
<1>2. CASE Download
  <2>1. CASE Fails(r)
    BY <1>1, <1>2, <2>1, FailedInv DEF Download, Fails
  <2>2. CASE Progress(r, "downloading") /\ Goto("downloaded", r) /\ UNCHANGED <<bad, troublesLeft>>
    BY <1>1, <1>2, <2>2, GoesOn DEF Download, TxOK
  <2> QED BY <1>1, <1>2, <2>1, <2>2 DEF Download
<1>3. CASE Stage
  <2> DEFINE x == [state |-> "staged", from |-> service.ver, backup |-> files]
  <2>1. x \in TxRow /\ x.state = "staged"
    BY DEF TxRow, TxState, ServiceOK, Service, RestOK
  <2>2. tx' = [tx EXCEPT ![r] = x]
    BY <1>1, <1>3 DEF Stage
  <2> HIDE DEF x
  <2>3. TxOK' /\ tx'[r].state = "staged" /\ \A q \in Request : q # r => tx'[q].state = tx[q].state
    BY <2>1, <2>2 DEF TxOK
  <2> QED BY <1>1, <1>3, <2>3, GoesOn DEF Stage, Undoing, Verdict
<1>4. CASE WindowClosed
  BY <1>1, <1>4, GoesOn DEF WindowClosed, TxOK, diskVars
<1>5. CASE Install
  <2>1. /\ Save(r, "restarting") /\ Goto("leaving", r)
        /\ UNCHANGED <<revoked, beat, files, bad, troublesLeft, request, helper>>
    BY <1>1, <1>5 DEF Install, backendVars
  <2>2. TxOK' /\ tx'[r].state = "restarting" /\ \A q \in Request : q # r => tx'[q].state = tx[q].state
    BY <2>1, SaveIs DEF TxState
  <2>3. ServiceOK' /\ service'.req = r /\ service'.pc = "leaving"
    BY <2>1, TurnsTo DEF AtWork
  <2>4. Types'
    BY <2>1, <2>2, <2>3 DEF RequestsOK, HelpersOK, RestOK, Target
  <2>5. Row(r)' /\ Keeps(r)
    BY <1>1, <2>1, <2>2, <2>3 DEF Row, Keeps, Open, Undoing, Verdict
  <2> QED BY <2>1, <2>2, <2>3, <2>4, <2>5, OneRow
<1>6. CASE Leave
  <2>1. /\ Progress(r, "installing") /\ helper' = [helper EXCEPT ![r] = [pc |-> "start", left |-> Part]]
        /\ Goto("stopping", 0) /\ UNCHANGED <<revoked, beat, tx, files, bad, troublesLeft>>
    BY <1>1, <1>6 DEF Leave, diskVars
  <2>2. HelpersOK' /\ helper'[r].pc = "start" /\ \A q \in Request : q # r => helper'[q] = helper[q]
    BY <2>1, HelperIs DEF HelperTo, HelperSteps
  <2>3. ServiceOK' /\ service'.req = 0
    BY <2>1, TurnsToNone
  <2>4. /\ RequestsOK'
        /\ \/ request[r].status \in Active /\ request'[r].status \in Active
           \/ request'[r].status = request[r].status
        /\ \A q \in Request : q # r => request'[q].status = request[q].status
    BY <2>1, ProgressIs
  <2>5. Row(r)' /\ Keeps(r)
    BY <1>1, <2>1, <2>2, <2>3, <2>4, NoRequestZero DEF Row, Keeps, Open, Verdict
  <2>6. Types'
    BY <2>1, <2>2, <2>3, <2>4 DEF TxOK, RestOK
  <2> QED BY <2>1, <2>2, <2>3, <2>4, <2>5, <2>6, OneRow
<1>7. CASE PrepareFails
  BY <1>1, <1>7, FailedInv DEF PrepareFails
<1> QED BY <1>2, <1>3, <1>4, <1>5, <1>6, <1>7

\* A step of a helper.  One that may not begin, because its transaction says of a rollback, ends.
LEMMA HelperMoves ==
  ASSUME UpdateInv, NEW r \in Request, helper[r].pc # "none", HelpersOK', TxOK', RestOK', UNCHANGED request,
         \A q \in Request : q # r => helper'[q] = helper[q] /\ tx'[q].state = tx[q].state,
         helper[r].pc = "start" => UNCHANGED tx,
         tx'[r].state \in Undoing => helper'[r].pc = "none",
         tx'[r].state \in {"none", "completed"} => tx[r].state = tx'[r].state,
         UNCHANGED service \/ (ServiceOK' /\ service'.req = 0)
  PROVE  UpdateInv' /\ AllKeep
<1>1. request[r].status # "none" /\ (request[r].status \in Verdict => tx'[r].state \in Undoing)
  BY DEF UpdateInv, Row
<1>2. UNCHANGED service \/ service'.req # r
  BY NoRequestZero
<1>3. Row(r)' /\ Keeps(r)
  BY <1>1, <1>2 DEF UpdateInv, Row, Keeps, Verdict
<1>4. Types'
  BY DEF UpdateInv, Types, RequestsOK, ServiceOK, Target
<1> QED BY <1>2, <1>3, <1>4, OneRow

\* A helper at work has a transaction that says nothing of a rollback, about a release.
LEMMA HelperAtWork ==
  ASSUME UpdateInv, NEW r \in Request, helper[r].pc \notin {"none", "start"}
  PROVE  tx[r].state \notin Undoing /\ Target(r) \in Release /\ tx[r].backup \in [Part -> Version]
BY DEF UpdateInv, Row, Types, RequestsOK, TxOK, TxRow

\* The service is started with what is installed.
LEMMA StartedIs ==
  ASSUME RestOK, UNCHANGED service \/ Running(files["exe"]) \/ service' = [service EXCEPT !.pc = "off", !.req = 0, !.busy = FALSE],
         ServiceOK
  PROVE  UNCHANGED service \/ (ServiceOK' /\ service'.req = 0)
<1>1. files["exe"] \in Version
  BY DEF RestOK, Part
<1>2. CASE Running(files["exe"])
  BY <1>1, <1>2 DEF Running, ServiceOK, Service, AtWork
<1>3. CASE service' = [service EXCEPT !.pc = "off", !.req = 0, !.busy = FALSE]
  BY <1>3 DEF ServiceOK, Service, AtWork
<1> QED BY <1>2, <1>3

\* The steps of a helper that save nothing.
LEMMA HelperInv ==
  ASSUME UpdateInv, NEW r \in Request,
         \/ HelperStarts(r) \/ StartService(r) \/ Watch(r) \/ HelperFails(r) \/ StopService(r) \/ StartPrevious(r)
         \/ \E p \in Part : CopyPart(r, p) \/ RestorePart(r, p)
  PROVE  UpdateInv' /\ AllKeep
<1> USE DEF UpdateInv, Types
<1>1. PICK pc \in HelperSteps, left \in SUBSET Part :
        /\ HelperTo(r, pc, left) /\ helper[r].pc # "none" /\ UNCHANGED <<request, tx>>
        /\ helper[r].pc = "start" => pc = "none" \/ tx[r].state = "restarting"
  <2>1. CASE \/ HelperStarts(r) \/ StartService(r) \/ Watch(r) \/ HelperFails(r) \/ StopService(r)
             \/ StartPrevious(r)
    BY <2>1 DEF HelperStarts, StartService, Watch, HelperFails, StopService, StartPrevious, BackOut, HelperAt,
                HelperSteps, backendVars, diskVars
  <2>2. ASSUME NEW p \in Part, CopyPart(r, p) \/ RestorePart(r, p)
      PROVE  \E pc \in HelperSteps, left \in SUBSET Part :
               /\ HelperTo(r, pc, left) /\ helper[r].pc # "none" /\ UNCHANGED <<request, tx>>
               /\ helper[r].pc = "start" => pc = "none" \/ tx[r].state = "restarting"
    <3>1. helper[r].left \ {p} \in SUBSET Part
      BY DEF HelpersOK, HelperRow
    <3>2. PICK pc \in {"copy", "restore"} : HelperTo(r, pc, helper[r].left \ {p}) /\ helper[r].pc = pc
      BY <2>2 DEF CopyPart, RestorePart, HelperAt
    <3>3. UNCHANGED <<request, tx>> /\ pc \in HelperSteps \ {"none", "start"}
      BY <2>2, <3>2 DEF CopyPart, RestorePart, HelperSteps, backendVars
    <3> QED BY <3>1, <3>2, <3>3
  <2> QED BY <2>1, <2>2
<1>2. HelpersOK' /\ helper'[r].pc = pc /\ \A q \in Request : q # r => helper'[q] = helper[q]
  BY <1>1, HelperIs
<1>3. RestOK'
  <2>1. CASE \/ HelperStarts(r) \/ StartService(r) \/ Watch(r) \/ HelperFails(r) \/ StopService(r)
             \/ StartPrevious(r)
    BY <2>1, RestStays DEF HelperStarts, StartService, Watch, HelperFails, StopService, StartPrevious,
                           backendVars, diskVars
  <2>2. ASSUME NEW p \in Part, CopyPart(r, p) \/ RestorePart(r, p) PROVE RestOK'
    <3>1. Target(r) \in Version /\ tx[r].backup[p] \in Version
      BY <2>2, HelperAtWork DEF CopyPart, RestorePart, HelperAt, Version
    <3>2. PICK v \in Version : files' = [files EXCEPT ![p] = v]
      BY <2>2, <3>1 DEF CopyPart, RestorePart
    <3> QED BY <2>2, <3>2 DEF RestOK, CopyPart, RestorePart, backendVars
  <2> QED BY <2>1, <2>2
<1>4. UNCHANGED service \/ (ServiceOK' /\ service'.req = 0)
  BY StartedIs DEF HelperStarts, StartService, Watch, HelperFails, StopService, StartPrevious, CopyPart, RestorePart
<1>5. tx[r].state \in Undoing => pc = "none"
  BY <1>1, HelperAtWork DEF Undoing, Verdict
<1>6. TxOK' /\ \A q \in Request : tx'[q].state = tx[q].state
  BY <1>1 DEF TxOK
<1> QED BY <1>1, <1>2, <1>3, <1>4, <1>5, <1>6, HelperMoves

\* The steps of a helper that save.
LEMMA SavesInv ==
  ASSUME UpdateInv, NEW r \in Request,
         ServiceGone(r) \/ Copied(r) \/ Mark(r) \/ RolledBack(r) \/ RollbackFails(r)
  PROVE  UpdateInv' /\ AllKeep
<1> USE DEF UpdateInv, Types
<1>1. PICK pc \in HelperSteps, left \in SUBSET Part, s \in TxState \ {"none", "completed"} :
        /\ HelperTo(r, pc, left) /\ Save(r, s) /\ helper[r].pc \notin {"none", "start"}
        /\ s \in Undoing => pc = "none"
        /\ bad' = bad \/ bad' = bad \cup {Target(r)}
        /\ Trouble \/ UNCHANGED troublesLeft
        /\ UNCHANGED <<request, service, revoked, beat, files>>
  <2>1. CASE ServiceGone(r) \/ Copied(r) \/ Mark(r)
    BY <2>1 DEF ServiceGone, Copied, Mark, HelperAt, HelperSteps, TxState, Undoing, Verdict, backendVars
  <2>2. CASE RolledBack(r) \/ RollbackFails(r)
    BY <2>2 DEF RolledBack, RollbackFails, Ends, HelperAt, HelperSteps, TxState, backendVars
  <2> QED BY <2>1, <2>2
<1>2. HelpersOK' /\ helper'[r].pc = pc /\ \A q \in Request : q # r => helper'[q] = helper[q]
  BY <1>1, HelperIs
<1>3. TxOK' /\ tx'[r].state = s /\ \A q \in Request : q # r => tx'[q].state = tx[q].state
  BY <1>1, SaveIs
<1>4. RestOK'
  <2>1. Target(r) \in Release
    BY <1>1, HelperAtWork
  <2> QED BY <1>1, <2>1 DEF RestOK, Trouble
<1> QED BY <1>1, <1>2, <1>3, <1>4, HelperMoves

\* A restart of the machine; and a start of the service.
LEMMA RebootInv ==
  ASSUME UpdateInv, Reboot \/ Boot
  PROVE  UpdateInv' /\ AllKeep
<1> USE DEF UpdateInv, Types
<1>1. UNCHANGED <<request, tx>> /\ RestOK'
  BY RestStays DEF Reboot, Boot, backendVars, diskVars
<1>2. ServiceOK' /\ service'.req = 0
  <2>1. files["exe"] \in Version /\ Running(files["exe"])
    BY DEF RestOK, Part, Reboot, Boot
  <2> QED BY <2>1 DEF Running, ServiceOK, Service, AtWork
<1>3. HelpersOK' /\ \A q \in Request : helper'[q].pc \in {helper[q].pc, "none"}
  BY DEF Reboot, Boot, NoHelper, HelpersOK, HelperRow, HelperSteps
<1>4. ASSUME NEW q \in Request PROVE Row(q)' /\ Keeps(q)
  BY <1>1, <1>2, <1>3, RowStays, NoRequestZero
<1>5. Types'
  BY <1>1, <1>2, <1>3 DEF RequestsOK, TxOK, Target
<1> QED BY <1>4, <1>5 DEF AllKeep

-----------------------------------------------------------------------------
(* One helper at work, and whole files.                                    *)

Act(r)  == request[r].status \in Active
Done(r) == tx[r].state = "completed"
Live(r) == tx[r].state \in {"restarting", "service_stopped", "files_replaced", "verifying_health"}

\* None of what ServiceWhole excepts.
Clean == scars \cap {"torn", "unrestored", "pending", "ghost", "unseen"} = {}

\* A helper that has not seen yet that its update is completed.
Working(r) == helper[r].pc # "none" /\ ~(helper[r].pc = "watch" /\ Done(r))

OneActive == \A q, r \in Request : Act(q) /\ Act(r) => q = r
DoneEnded == \A r \in Request : Done(r) => request[r].status \in Verdict \cup {"completed"}

\* The service is about to start the helper again: its transaction was under way.
Resumed(r) == service.pc = "relaunching" /\ service.req = r
Pursued(r) == Live(r) \/ Resumed(r)

OneWorking == \A q, r \in Request : Working(q) /\ Working(r) => q = r
OneLive    == /\ \A q, r \in Request : Pursued(q) /\ Pursued(r) => q = r
              /\ service.pc \in Preparing => \A q \in Request : Live(q) => q = service.req
              /\ \A q, r \in Request : Working(q) /\ Pursued(r) => q = r

\* What a helper has done and has still to do fits the service, the request and the files.
Helped(r) ==
  /\ helper[r].pc \in {"start", "wait"} => service.pc \in {"stopping", "off"}
  /\ helper[r].pc \in {"copy", "launch", "restore"} => service.pc = "off"
  /\ Working(r) => service.pc \notin Preparing
  /\ helper[r].pc \in {"wait", "copy", "launch"} => Live(r) /\ Act(r)
  /\ helper[r].pc \in {"mark", "watch"} => Done(r) \/ (Live(r) /\ Act(r))
  /\ helper[r].pc \in {"rollback", "restore", "restored"} => Live(r) \/ Done(r)
  /\ helper[r].pc \in {"launch", "mark", "rollback", "restore", "restored"} =>
       \A q \in Request : q # r => ~Act(q)
  /\ helper[r].pc = "copy" => \A p \in Part \ helper[r].left : files[p] = Target(r)
  /\ helper[r].pc = "restore" => \A p \in Part \ helper[r].left : files[p] = tx[r].backup[p]

Mixed == files["exe"] # files["libs"]
FilesInv == /\ Mixed => /\ service.pc = "off"
                        /\ \E r \in Request : helper[r].pc \in {"copy", "rollback", "restore"}
            /\ \A r \in Request : tx[r].backup["exe"] = tx[r].backup["libs"]

Good == OneWorking /\ OneLive /\ FilesInv /\ \A r \in Request : Helped(r)
WholeInv == OneActive /\ DoneEnded /\ (Clean => Good)

\* A helper that does not work is no concern.
LEMMA IdleHelped == ASSUME NEW r \in Request, ~Working(r) PROVE Helped(r)
BY DEF Working, Helped

\* No transaction starts or ends to be under way.
TxSame(r) == /\ tx'[r].backup = tx[r].backup
             /\ (Live(r)' <=> Live(r)) /\ (Done(r)' <=> Done(r))

\* The service does not start, and does not begin to prepare anything.
GoesDown == /\ service.pc = "off" => service'.pc = "off"
            /\ service.pc = "stopping" => service'.pc \in {"stopping", "off"}
            /\ service'.pc \in Preparing => service.pc \in Preparing /\ service'.req = service.req
            /\ \A r \in Request : Resumed(r)' => Pursued(r)

\* The request of a helper stays active until its verdict.
ActKept(r) == Act(r) /\ helper[r].pc \in {"wait", "copy", "launch", "mark", "watch"} => Done(r) \/ Act(r)'

\* A step that is no helper's and begins nothing.
LEMMA CalmStep ==
  ASSUME Good, GoesDown, UNCHANGED <<files, helper>>,
         \A r \in Request : /\ TxSame(r) /\ (Act(r)' => Act(r)) /\ ActKept(r)
                            /\ helper[r].pc # "none" => Target(r)' = Target(r)
  PROVE  Good'
<1>1. \A r \in Request : (Working(r)' <=> Working(r)) /\ helper'[r] = helper[r]
  BY DEF Working, TxSame
<1>2. OneWorking' /\ OneLive'
  BY <1>1 DEF Good, OneWorking, OneLive, Pursued, Resumed, Working, TxSame, GoesDown
<1>3. FilesInv'
  BY DEF Good, FilesInv, Mixed, TxSame, GoesDown
<1>4. ASSUME NEW r \in Request PROVE Helped(r)'
  <2>1. Helped(r) /\ TxSame(r) /\ ActKept(r) /\ (helper[r].pc # "none" => Target(r)' = Target(r))
    BY DEF Good
  <2>2. /\ helper'[r] = helper[r] /\ (Working(r)' <=> Working(r))
        /\ (Live(r)' <=> Live(r)) /\ (Done(r)' <=> Done(r)) /\ tx'[r].backup = tx[r].backup
    BY <1>1, <2>1 DEF TxSame
  <2>3. /\ helper[r].pc \in {"start", "wait"} => service'.pc \in {"stopping", "off"}
        /\ helper[r].pc \in {"copy", "launch", "restore"} => service'.pc = "off"
        /\ Working(r) => service'.pc \notin Preparing
    BY <2>1 DEF Helped, GoesDown
  <2>4. /\ helper[r].pc \in {"wait", "copy", "launch"} => Act(r)' \/ Done(r)
        /\ helper[r].pc \in {"mark", "watch"} => Done(r) \/ (Live(r) /\ Act(r)')
        /\ helper[r].pc \in {"launch", "mark", "rollback", "restore", "restored"} =>
             \A q \in Request : q # r => ~Act(q)'
    BY <2>1 DEF Helped, ActKept
  <2>5. ~(Live(r) /\ Done(r))
    BY DEF Live, Done
  <2>6. /\ helper[r].pc = "copy" => \A p \in Part \ helper[r].left : files'[p] = Target(r)'
        /\ helper[r].pc = "restore" => \A p \in Part \ helper[r].left : files'[p] = tx[r].backup[p]
    BY <2>1 DEF Helped
  <2> QED BY <2>1, <2>2, <2>3, <2>4, <2>5, <2>6 DEF Helped
<1> QED BY <1>2, <1>3, <1>4 DEF Good

\* The helper that works is the one that leaves files half replaced.
LEMMA MixedBy ==
  ASSUME Good, NEW h \in Request, Working(h), Mixed
  PROVE  service.pc = "off" /\ helper[h].pc \in {"copy", "rollback", "restore"}
BY DEF Good, FilesInv, OneWorking, Working

\* A step of the helper at work.
LEMMA OneHelper ==
  ASSUME Good, NEW h \in Request, Working(h), UNCHANGED request,
         \A r \in Request : r # h => helper'[r] = helper[r] /\ TxSame(r),
         tx'[h].backup = tx[h].backup, Live(h)' => Live(h),
         service'.pc \notin Preparing, \A r \in Request : Resumed(r)' => Resumed(r), Helped(h)',
         Mixed' => service'.pc = "off" /\ helper'[h].pc \in {"copy", "rollback", "restore"}
  PROVE  Good'
<1>1. \A r \in Request : r # h => ~Working(r) /\ ~Working(r)'
  BY DEF Good, OneWorking, Working, TxSame
<1>2. OneWorking' /\ \A r \in Request : Helped(r)'
  <2>1. \A r \in Request : ~Working(r)' => Helped(r)'
    BY DEF Working, Helped
  <2> QED BY <1>1, <2>1 DEF OneWorking
<1>3. OneLive'
  <2>1. \A r \in Request : Pursued(r)' => Pursued(r)
    BY DEF Pursued, TxSame
  <2> QED BY <1>1, <2>1 DEF Good, OneLive
<1>4. FilesInv'
  BY DEF Good, FilesInv, TxSame
<1> QED BY <1>2, <1>3, <1>4 DEF Good

\* No helper works.
LEMMA NoHelperWorks ==
  ASSUME OneLive', FilesInv', \A r \in Request : ~Working(r)'
  PROVE  Good'
<1>1. \A r \in Request : Helped(r)'
  BY DEF Working, Helped
<1> QED BY <1>1 DEF Good, OneWorking

\* A helper is started.
LEMMA Launched ==
  ASSUME Good, NEW h \in Request, \A r \in Request : r # h => ~Working(r),
         helper[h].pc = "none", helper'[h].pc = "start", service'.pc = "stopping", UNCHANGED files,
         \A r \in Request : /\ (r # h => helper'[r] = helper[r] /\ TxSame(r) /\ ~Live(r))
                            /\ tx'[r].backup = tx[r].backup,
         service.pc # "off"
  PROVE  Good'
<1>1. \A r \in Request : r # h => ~Working(r)'
  BY DEF Working, TxSame
<1>2. OneWorking'
  BY <1>1 DEF OneWorking
<1>3. \A r \in Request : r # h => Helped(r)'
  BY <1>1 DEF Working, Helped
<1>4. Helped(h)'
  BY DEF Helped, Preparing
<1>5. OneLive'
  BY <1>1 DEF Good, OneLive, Pursued, Resumed, TxSame, Preparing
<1>6. FilesInv'
  BY DEF Good, FilesInv, TxSame, Mixed
<1> QED BY <1>2, <1>3, <1>4, <1>5, <1>6 DEF Good

\* The one service that prepares has no helper at work.
LEMMA PreparingAlone ==
  ASSUME Good, service.pc \in Preparing
  PROVE  ~Mixed /\ \A r \in Request : ~Working(r)
BY DEF Good, Helped, FilesInv, Preparing

\* The exceptions stay.
LEMMA ScarsGrow == [Next]_updateVars => scars \subseteq scars'
<1> SUFFICES ASSUME [Next]_updateVars PROVE scars \subseteq scars'
  OBVIOUS
<1>1. CASE \/ \E r \in Request : (\E v \in Release, retry \in BOOLEAN : Ask(r, v, retry)) \/ Cancel(r)
           \/ \E v \in Release : Revoke(v)
           \/ Heartbeat \/ BeatExpires
  BY <1>1 DEF Ask, Cancel, Revoke, Heartbeat, BeatExpires
<1>2. CASE ServiceStep \/ WindowClosed \/ GetsBusy \/ GetsFree
  BY <1>2 DEF ServiceStep, ReportRollback, Resume, Relaunch, Verify, Claim, Prepare, Complete, NotComplete, RecoverEnds, GetsBusy, GetsFree,
              NothingToDo, Download, Stage, Install, Leave, PrepareFails, ServiceStops, WindowClosed
<1>3. CASE \E r \in Request : HelperStep(r)
  BY <1>3 DEF HelperStep, HelperStarts, ServiceGone, Copied, StartService, Mark, Watch, HelperFails, StopService,
              StartPrevious, RolledBack, RollbackFails, CopyPart, RestorePart
<1>4. CASE Reboot \/ Boot
  BY <1>4 DEF Reboot, Boot
<1>5. CASE UNCHANGED updateVars
  BY <1>5 DEF updateVars
<1> QED BY <1>1, <1>2, <1>3, <1>4, <1>5 DEF Next

LEMMA CleanWas == ASSUME [Next]_updateVars, Clean' PROVE Clean
BY ScarsGrow DEF Clean

-----------------------------------------------------------------------------
(* The steps keep the service whole.                                       *)

\* What is known before and after every step.
Before == UpdateInv /\ WholeInv /\ AllKeep /\ (Clean' => Clean)

LEMMA CalmWhole ==
  ASSUME Before, GoesDown, UNCHANGED <<files, helper>>,
         \A r \in Request : TxSame(r) /\ (Act(r)' => Act(r)) /\ Target(r)' = Target(r),
         Clean' => \A r \in Request : ActKept(r)
  PROVE  WholeInv'
<1>1. OneActive'
  BY DEF Before, WholeInv, OneActive
<1>2. DoneEnded'
  BY DEF Before, WholeInv, DoneEnded, AllKeep, Keeps, TxSame
<1>3. ASSUME Clean' PROVE Good'
  BY <1>3, CalmStep DEF Before, WholeInv
<1> QED BY <1>1, <1>2, <1>3 DEF WholeInv

\* The status of one request changes.
LEMMA StatusWhole ==
  ASSUME Before, GoesDown, UNCHANGED <<files, helper>>, NEW r \in Request, \A q \in Request : TxSame(q),
         \A q \in Request : Target(q)' = Target(q),
         \A q \in Request : q # r => request'[q].status = request[q].status,
         Act(r)' => Act(r), Clean' => ActKept(r)
  PROVE  WholeInv'
<1>1. \A q \in Request : q # r => (Act(q)' <=> Act(q))
  BY DEF Act
<1>2. \A q \in Request : q # r => ActKept(q)
  BY <1>1 DEF ActKept
<1> QED BY <1>1, <1>2, CalmWhole

LEMMA TxStays == ASSUME UNCHANGED tx PROVE \A q \in Request : TxSame(q)
BY DEF TxSame, Live, Done

LEMMA RequestStays ==
  ASSUME UNCHANGED request
  PROVE  \A q \in Request : (Act(q)' <=> Act(q)) /\ ActKept(q) /\ Target(q)' = Target(q)
BY DEF Act, ActKept, Target

\* A helper that is under way, or has an open end, has a transaction.
LEMMA HasTx ==
  ASSUME Good, NEW r \in Request, helper[r].pc \in {"wait", "copy", "launch", "mark", "watch"}
  PROVE  Live(r) \/ Done(r)
BY DEF Good, Helped

LEMMA BackendWhole ==
  ASSUME Before,
         \/ \E r \in Request : (\E v \in Release, retry \in BOOLEAN : Ask(r, v, retry)) \/ Cancel(r)
         \/ \E v \in Release : Revoke(v)
         \/ Heartbeat \/ BeatExpires
  PROVE  WholeInv'
<1>1. ASSUME NEW r \in Request, NEW v \in Release, NEW retry \in BOOLEAN, Ask(r, v, retry)
      PROVE  WholeInv'
  <2> DEFINE x == [status |-> "approved", target |-> v, from |-> beat.ver, retry |-> retry]
  <2>1. /\ request[r].status = "none" /\ request' = [request EXCEPT ![r] = x]
        /\ \A q \in Request : ~Act(q) /\ helper[q].pc \notin {"launch", "mark", "rollback", "restore", "restored"}
        /\ UNCHANGED <<service, helper, tx, files>>
    BY <1>1 DEF Ask, diskVars, Settling, Act
  <2> HIDE DEF x
  <2>2. \A q \in Request : q # r => request'[q] = request[q]
    BY <2>1 DEF Before, UpdateInv, Types, RequestsOK
  <2>3. \A q \in Request : q # r => (Act(q)' <=> Act(q)) /\ Target(q)' = Target(q)
    BY <2>2 DEF Act, Target
  <2>4. OneActive'
    BY <2>1, <2>3 DEF OneActive
  <2>5. DoneEnded'
    BY <2>1 DEF Before, WholeInv, DoneEnded, AllKeep, Keeps, Done
  <2>6. ASSUME Clean' PROVE Good'
    <3>1. Good
      BY <2>6 DEF Before, WholeInv
    <3>2. \A q \in Request : TxSame(q) /\ (Working(q)' <=> Working(q)) /\ helper'[q] = helper[q]
      BY <2>1 DEF TxSame, Working, Live, Done
    <3>3. OneWorking' /\ OneLive' /\ FilesInv'
      BY <2>1, <3>1, <3>2 DEF Good, OneWorking, OneLive, Pursued, Resumed, FilesInv, Mixed, TxSame
    <3>4. helper[r].pc = "none"
      BY <2>1 DEF Before, UpdateInv, Row
    <3>5. ASSUME NEW q \in Request, q # r PROVE Helped(q)'
      BY <2>1, <2>3, <3>1, <3>2, <3>5 DEF Good, Helped, TxSame
    <3>6. Helped(r)'
      BY <2>1, <3>4 DEF Helped, Working
    <3> QED BY <3>1, <3>3, <3>5, <3>6 DEF Good
  <2> QED BY <2>4, <2>5, <2>6 DEF WholeInv
<1>2. ASSUME NEW r \in Request, Cancel(r) PROVE WholeInv'
  <2>1. /\ request[r].status \in Cancellable /\ Set(r, "cancelled") /\ UNCHANGED <<service, helper, tx, files>>
        /\ Clean' => tx[r].state = "none"
    BY <1>2 DEF Cancel, diskVars, Clean
  <2>2. /\ request'[r].status = "cancelled" /\ \A q \in Request : Target(q)' = Target(q)
        /\ \A q \in Request : q # r => request'[q].status = request[q].status
    BY <2>1, SetIs DEF Before, UpdateInv, Types, Status, Terminal, Cancellable, Claimable
  <2>3. ASSUME Clean' PROVE ActKept(r)
    <3>1. ~Live(r) /\ ~Done(r)
      BY <2>1, <2>3 DEF Live, Done
    <3> QED BY <2>3, <3>1, HasTx DEF ActKept, Before, WholeInv
  <2>4. ~Act(r)'
    BY <2>2 DEF Act, Active, Cancellable, Claimable
  <2> QED BY <2>1, <2>2, <2>3, <2>4, StatusWhole, TxStays DEF GoesDown, Resumed, Pursued
<1>3. CASE (\E v \in Release : Revoke(v)) \/ Heartbeat \/ BeatExpires
  <2>1. UNCHANGED <<request, tx, helper, service, files>>
    BY <1>3 DEF Revoke, Heartbeat, BeatExpires, diskVars
  <2> QED BY <2>1, CalmWhole, TxStays, RequestStays DEF GoesDown, Resumed, Pursued
<1> QED BY <1>1, <1>2, <1>3

\* The recovery: it reports, starts a helper again, or asks for the verdict.
LEMMA RecoverWhole ==
  ASSUME Before, NEW r \in Request, ReportRollback(r) \/ Resume(r) \/ Verify(r)
  PROVE  WholeInv'
<1> USE DEF Before, UpdateInv, Types
<1>0. service.pc = "recover" /\ UNCHANGED files
  BY DEF ReportRollback, Resume, Verify, At, diskVars
<1>1. CASE ReportRollback(r)
  <2>1. tx[r].state \in Verdict /\ UNCHANGED helper
    BY <1>1 DEF ReportRollback, Undone, Verdict
  <2>2. helper[r].pc \in {"none", "start"} /\ request[r].status # "none"
    BY <2>1 DEF Row, Verdict, Undoing
  <2>3. \A q \in Request : TxSame(q)
    <3>1. CASE Save(r, "rollback_reported")
      <4>1. /\ tx'[r].state = "rollback_reported" /\ \A q \in Request : tx'[q].backup = tx[q].backup
            /\ \A q \in Request : q # r => tx'[q].state = tx[q].state
        BY <3>1, SaveIs DEF TxState
      <4> QED BY <2>1, <4>1 DEF TxSame, Live, Done, Verdict
    <3>2. CASE UNCHANGED tx
      BY <3>2, TxStays
    <3> QED BY <1>1, <3>1, <3>2 DEF ReportRollback
  <2>4. GoesDown
    <3>1. CASE Goto("poll", 0)
      BY <1>0, <3>1, TurnsToNone DEF GoesDown, Resumed, Pursued, Preparing
    <3>2. CASE UNCHANGED service
      BY <3>2 DEF GoesDown, Resumed, Pursued
    <3> QED BY <1>1, <3>1, <3>2 DEF ReportRollback, Deferred
  <2>5. CASE UNCHANGED request
    BY <1>0, <2>1, <2>3, <2>4, <2>5, RequestStays, CalmWhole
  <2>6. CASE Set(r, tx[r].state)
    <3>1. /\ request'[r].status \in Verdict /\ \A q \in Request : Target(q)' = Target(q)
          /\ \A q \in Request : q # r => request'[q].status = request[q].status
      BY <2>1, <2>2, <2>6, SetIs DEF Status, Terminal, Verdict
    <3>2. ~Act(r)' /\ ActKept(r)
      BY <2>2, <3>1 DEF Act, ActKept, Active, Cancellable, Claimable, Verdict
    <3> QED BY <1>0, <2>1, <2>3, <2>4, <3>1, <3>2, StatusWhole
  <2> QED BY <1>1, <2>5, <2>6 DEF ReportRollback
<1>2. CASE Resume(r)
  <2>1. Live(r) /\ Goto("relaunching", r) /\ UNCHANGED <<request, tx, helper>>
    BY <1>2 DEF Resume, Unfinished, UnderWay, Live, backendVars, diskVars
  <2>2. service'.pc = "relaunching" /\ service'.req = r
    BY <2>1, TurnsTo DEF AtWork
  <2>3. GoesDown
    BY <1>0, <2>1, <2>2 DEF GoesDown, Resumed, Pursued, Preparing
  <2> QED BY <1>0, <2>1, <2>3, CalmWhole, TxStays, RequestStays
<1>3. CASE Verify(r)
  <2>1. /\ Live(r) /\ Save(r, "verifying_health") /\ Progress(r, "verifying_health")
        /\ Goto("reporting", r) /\ UNCHANGED helper
    BY <1>3 DEF Verify, InPlace, Pending, Undone, Live
  <2>2. \A q \in Request : TxSame(q)
    <3>1. /\ tx'[r].state = "verifying_health" /\ \A q \in Request : tx'[q].backup = tx[q].backup
          /\ \A q \in Request : q # r => tx'[q].state = tx[q].state
      BY <2>1, SaveIs DEF TxState
    <3> QED BY <2>1, <3>1 DEF TxSame, Live, Done
  <2>3. /\ (Act(r)' => Act(r)) /\ ActKept(r) /\ \A q \in Request : Target(q)' = Target(q)
        /\ \A q \in Request : q # r => request'[q].status = request[q].status
    BY <2>1, ProgressIs DEF Act, ActKept, Active
  <2>4. GoesDown
    BY <1>0, <2>1, TurnsTo DEF GoesDown, Resumed, Pursued, AtWork, Preparing
  <2> QED BY <1>0, <2>1, <2>2, <2>3, <2>4, StatusWhole
<1> QED BY <1>1, <1>2, <1>3

\* The helper is started again, for the one transaction that was under way.
LEMMA RelaunchWhole ==
  ASSUME Before, NEW r \in Request, Relaunch(r)
  PROVE  WholeInv'
<1> USE DEF Before, UpdateInv, Types
<1>1. /\ service.pc = "relaunching" /\ service.req = r /\ Save(r, "restarting") /\ UNCHANGED <<request, files>>
      /\ \/ /\ helper[r].pc = "none" /\ helper' = [helper EXCEPT ![r] = [pc |-> "start", left |-> Part]]
            /\ Goto("stopping", 0)
         \/ helper[r].pc # "none" /\ UNCHANGED helper /\ Goto("poll", 0)
  BY DEF Relaunch, At, Req, backendVars, Deferred
<1>2. /\ tx'[r].state = "restarting" /\ \A q \in Request : tx'[q].backup = tx[q].backup
      /\ \A q \in Request : q # r => tx'[q].state = tx[q].state
  BY <1>1, SaveIs DEF TxState
<1>3. Live(r)' /\ ~Done(r)' /\ \A q \in Request : q # r => TxSame(q)
  BY <1>2 DEF TxSame, Live, Done
<1>4. OneActive' /\ DoneEnded'
  BY <1>1, <1>3, RequestStays DEF WholeInv, OneActive, DoneEnded, AllKeep, Keeps, TxSame
<1>5. service'.pc \in {"stopping", "poll"}
  BY <1>1, TurnsToNone
<1>6. ASSUME Good
      PROVE  /\ \A q \in Request : q # r => ~Working(q) /\ ~Live(q)
             /\ ~Mixed /\ Helped(r) /\ Pursued(r)
  BY <1>1, <1>6 DEF Good, OneLive, Pursued, Resumed, FilesInv
<1>7. CASE helper[r].pc # "none" /\ UNCHANGED helper /\ Goto("poll", 0)
  <2>1. ASSUME Clean' PROVE Good'
    <3>1. /\ Good /\ ~Mixed /\ Helped(r) /\ \A q \in Request : q # r => ~Working(q) /\ ~Live(q)
      BY <1>6, <2>1 DEF WholeInv
    <3>2. \A q \in Request : q # r => ~Working(q)' /\ ~Live(q)'
      BY <1>3, <1>7, <3>1 DEF Working, TxSame
    <3>3. service'.pc = "poll"
      BY <1>7, TurnsToNone
    <3>4. OneWorking' /\ OneLive'
      BY <3>2, <3>3 DEF OneWorking, OneLive, Pursued, Resumed, Preparing
    <3>5. FilesInv'
      BY <1>1, <1>2, <3>1 DEF Good, FilesInv, Mixed
    <3>6. Helped(r)'
      <4>1. helper[r].pc \notin {"start", "wait", "copy", "launch", "restore"} /\ ~Done(r)
        BY <1>1, <3>1 DEF Helped, Row, Done
      <4>2. /\ helper[r].pc \in {"mark", "watch"} => Act(r)
            /\ helper[r].pc \in {"mark", "rollback", "restored"} => \A q \in Request : q # r => ~Act(q)
        BY <3>1, <4>1 DEF Helped
      <4>3. \A q \in Request : Act(q)' <=> Act(q)
        BY <1>1, RequestStays
      <4> QED BY <1>3, <1>7, <3>3, <4>1, <4>2, <4>3 DEF Helped, Preparing
    <3>7. \A q \in Request : q # r => Helped(q)'
      BY <3>2 DEF Working, Helped
    <3> QED BY <3>4, <3>5, <3>6, <3>7 DEF Good
  <2> QED BY <1>4, <2>1 DEF WholeInv
<1>8. CASE /\ helper[r].pc = "none" /\ helper' = [helper EXCEPT ![r] = [pc |-> "start", left |-> Part]]
           /\ Goto("stopping", 0)
  <2>1. /\ helper'[r].pc = "start" /\ \A q \in Request : q # r => helper'[q] = helper[q]
        /\ service'.pc = "stopping"
    BY <1>8, HelperIs, TurnsToNone DEF HelperTo, HelperSteps
  <2>2. ASSUME Clean' PROVE Good'
    <3>1. Good /\ \A q \in Request : q # r => ~Working(q) /\ ~Live(q)
      BY <1>6, <2>2 DEF WholeInv
    <3>2. service.pc # "off" /\ helper[r].pc = "none"
      BY <1>1, <1>8
    <3>3. \A q \in Request : /\ (q # r => helper'[q] = helper[q] /\ TxSame(q) /\ ~Live(q))
                             /\ tx'[q].backup = tx[q].backup
      BY <1>2, <1>3, <2>1, <3>1
    <3> QED BY <1>1, <2>1, <3>1, <3>2, <3>3, Launched
  <2> QED BY <1>4, <2>2 DEF WholeInv
<1> QED BY <1>1, <1>7, <1>8

\* The verdict of the new build: its helper has nothing to do any more.
LEMMA CompleteWhole ==
  ASSUME Before, Complete \/ NotComplete
  PROVE  WholeInv'
<1> USE DEF Before, UpdateInv, Types
<1>0. PICK r \in Request : r = Req /\ service.req = r /\ service.pc = "reporting" /\ request[r].status # "none"
  <2>1. service.pc = "reporting" /\ Req \in Request
    BY ReqIs DEF Complete, NotComplete, At, AtWork
  <2> QED BY <2>1, NoRequestZero DEF Req, Row
<1>1. service'.pc \in {"recover", "poll"} /\ UNCHANGED <<helper, files>> /\ GoesDown
  BY <1>0, TurnsToNone DEF Complete, NotComplete, Deferred, diskVars, GoesDown, Resumed, Pursued, Preparing
<1>2. CASE UNCHANGED <<request, tx>>
  BY <1>1, <1>2, CalmWhole, TxStays, RequestStays
<1>3. CASE Set(r, "completed") /\ UNCHANGED tx /\ "unseen" \in scars'
  <2>1. /\ ~Act(r)' /\ \A q \in Request : Target(q)' = Target(q)
        /\ \A q \in Request : q # r => request'[q].status = request[q].status
    BY <1>0, <1>3, SetIs DEF Status, Terminal, Act, Active, Cancellable, Claimable
  <2>2. ~Clean'
    BY <1>3 DEF Clean
  <2> QED BY <1>1, <1>3, <2>1, <2>2, StatusWhole, TxStays
<1>4. CASE Set(r, "completed") /\ Save(r, "completed")
  <2>1. /\ request'[r].status = "completed" /\ ~Act(r)' /\ \A q \in Request : Target(q)' = Target(q)
        /\ \A q \in Request : q # r => request'[q].status = request[q].status
    BY <1>0, <1>4, SetIs DEF Status, Terminal, Act, Active, Cancellable, Claimable
  <2>2. /\ tx'[r].state = "completed" /\ \A q \in Request : tx'[q].backup = tx[q].backup
        /\ \A q \in Request : q # r => tx'[q].state = tx[q].state
    BY <1>4, SaveIs DEF TxState
  <2>3. /\ \A q \in Request : q # r => TxSame(q) /\ (Act(q)' <=> Act(q))
        /\ Done(r)' /\ ~Live(r)' /\ \A q \in Request : Act(q)' => Act(q)
    BY <2>1, <2>2 DEF TxSame, Live, Done, Act
  <2>4. OneActive'
    BY <2>3 DEF WholeInv, OneActive
  <2>5. DoneEnded'
    BY <2>1, <2>3 DEF WholeInv, DoneEnded, AllKeep, Keeps, TxSame
  <2>6. ASSUME Clean' PROVE Good'
    <3>1. Good
      BY <2>6 DEF WholeInv
    <3>2. \A q \in Request : (Working(q)' => Working(q)) /\ helper'[q] = helper[q]
      BY <1>1, <2>3 DEF Working, TxSame
    <3>3. OneWorking' /\ OneLive'
      BY <1>1, <2>3, <3>1, <3>2 DEF Good, OneWorking, OneLive, Pursued, Resumed, TxSame, Preparing
    <3>4. FilesInv'
      BY <1>0, <1>1, <2>2, <3>1 DEF Good, FilesInv, Mixed
    <3>5. ASSUME NEW q \in Request PROVE Helped(q)'
      <4>1. Helped(q) /\ helper'[q] = helper[q]
        BY <3>1, <3>2 DEF Good
      <4>2. helper[q].pc \notin {"start", "wait", "copy", "launch", "restore"}
        BY <1>0, <4>1 DEF Helped
      <4>3. /\ Live(q) /\ Act(q) => (Live(q) /\ Act(q))' \/ Done(q)'
            /\ Live(q) \/ Done(q) => Live(q)' \/ Done(q)'
            /\ Done(q) => Done(q)'
        BY <2>3 DEF TxSame
      <4> QED BY <1>1, <2>3, <4>1, <4>2, <4>3 DEF Helped, Preparing
    <3> QED BY <3>1, <3>3, <3>4, <3>5 DEF Good
  <2> QED BY <2>4, <2>5, <2>6 DEF WholeInv
<1> QED BY <1>0, <1>2, <1>3, <1>4 DEF Complete, NotComplete, diskVars

LEMMA PollWhole ==
  ASSUME Before,
         \/ RecoverEnds \/ GetsBusy \/ GetsFree \/ NothingToDo \/ ServiceStops
         \/ \E r \in Request : Claim(r) \/ Prepare(r)
  PROVE  WholeInv'
<1> USE DEF Before, UpdateInv, Types
<1>1. CASE RecoverEnds \/ GetsBusy \/ GetsFree \/ NothingToDo \/ ServiceStops
  <2>1. UNCHANGED <<request, tx, helper, files>>
    BY <1>1 DEF RecoverEnds, GetsBusy, GetsFree, NothingToDo, ServiceStops, backendVars, diskVars
  <2>2. \/ service.pc \in {"recover", "poll"} /\ service'.pc \in {"recover", "poll"}
        \/ service.pc = "stopping" /\ service'.pc = "off"
        \/ service'.pc = service.pc /\ service'.req = service.req
    <3>1. CASE ServiceStops
      BY <3>1 DEF ServiceStops, At, ServiceOK, Service
    <3>2. CASE RecoverEnds \/ NothingToDo
      BY <3>2, TurnsToNone DEF RecoverEnds, NothingToDo, At
    <3>3. CASE GetsBusy \/ GetsFree
      BY <3>3, BusyIs
    <3> QED BY <1>1, <3>1, <3>2, <3>3
  <2>3. GoesDown
    BY <2>2 DEF GoesDown, Resumed, Pursued, Preparing
  <2> QED BY <2>1, <2>3, CalmWhole, TxStays, RequestStays
<1>2. ASSUME NEW r \in Request, Claim(r) PROVE WholeInv'
  <2>1. /\ service.pc = "poll" /\ request[r].status = "approved" /\ Goto("recover", 0)
        /\ UNCHANGED <<tx, helper, files>>
        /\ request' = [request EXCEPT ![r].status = "claimed", ![r].from = service.ver]
    BY <1>2 DEF Claim, At, diskVars
  <2> DEFINE x == [request[r] EXCEPT !.status = "claimed", !.from = service.ver]
  <2>2. request' = [request EXCEPT ![r] = x] /\ x.status = "claimed" /\ x.target = request[r].target
    BY <2>1 DEF RequestsOK, RequestRow
  <2> HIDE DEF x
  <2>3. /\ request'[r].status = "claimed" /\ \A q \in Request : Target(q)' = Target(q)
        /\ \A q \in Request : q # r => request'[q].status = request[q].status
    BY <2>2 DEF RequestsOK, Target
  <2>4. Act(r) /\ Act(r)'
    BY <2>1, <2>3 DEF Act, Active, Cancellable, Claimable
  <2>5. GoesDown
    BY <2>1, TurnsToNone DEF GoesDown, Resumed, Pursued, Preparing
  <2> QED BY <2>1, <2>3, <2>4, <2>5, StatusWhole, TxStays DEF ActKept
<1>3. ASSUME NEW r \in Request, Prepare(r) PROVE WholeInv'
  <2>1. /\ service.pc = "poll" /\ request[r].status \in Claimable /\ Act(r) /\ UNCHANGED <<tx, helper, files>>
        /\ Clean' => \A q \in Request : ~Live(q)
    BY <1>3 DEF Prepare, At, Clean, Pending, Live, Act, Active, Cancellable
  <2>2. request[r].status # "none"
    BY <2>1 DEF Claimable
  <2>3. CASE Fails(r)
    <3>1. GoesDown
      BY <2>1, <2>3, TurnsToNone DEF Fails, GoesDown, Resumed, Pursued, Preparing
    <3>2. CASE UNCHANGED request
      BY <2>1, <3>1, <3>2, CalmWhole, TxStays, RequestStays
    <3>3. CASE Set(r, "failed")
      <4>1. /\ request'[r].status = "failed" /\ \A q \in Request : Target(q)' = Target(q)
            /\ \A q \in Request : q # r => request'[q].status = request[q].status
        BY <2>2, <3>3, SetIs DEF Status, Terminal
      <4>2. ~Act(r)'
        BY <4>1 DEF Act, Active, Cancellable, Claimable
      <4>3. ASSUME Clean' PROVE ActKept(r)
        BY <2>1, <4>3, HasTx DEF ActKept, WholeInv
      <4> QED BY <2>1, <3>1, <4>1, <4>2, <4>3, StatusWhole, TxStays
    <3> QED BY <2>3, <3>2, <3>3 DEF Fails
  <2>4. CASE Progress(r, "verifying") /\ Goto("verified", r)
    <3>1. /\ Act(r)' => Act(r)
          /\ \A q \in Request : q # r => request'[q].status = request[q].status
          /\ \A q \in Request : TxSame(q)
      BY <2>1, <2>4, ProgressIs, TxStays DEF Active, Cancellable, Claimable, Act
    <3>2. OneActive'
      BY <3>1 DEF WholeInv, OneActive, Act
    <3>3. DoneEnded'
      BY <3>1 DEF WholeInv, DoneEnded, AllKeep, Keeps, TxSame
    <3>4. ASSUME Clean' PROVE Good'
      <4>1. Good
        BY <3>4 DEF WholeInv
      <4>2. ASSUME NEW q \in Request, Working(q) PROVE FALSE
        <5>1. Helped(q) /\ helper[q].pc \in HelperSteps /\ ~Live(q)
          BY <2>1, <3>4, <4>1 DEF Good, HelpersOK, HelperRow
        <5>2. helper[q].pc \in {"mark", "rollback", "restored"} /\ Done(q)
          BY <2>1, <4>2, <5>1 DEF Helped, Working, HelperSteps
        <5>3. q = r
          BY <2>1, <5>1, <5>2 DEF Helped
        <5> QED BY <2>1, <5>2, <5>3 DEF WholeInv, DoneEnded, Verdict, Claimable
      <4>3. \A q \in Request : ~Working(q)' /\ ~Live(q)'
        BY <2>1, <3>1, <3>4, <4>2 DEF TxSame, Working
      <4>4. OneLive' /\ FilesInv'
        BY <2>1, <3>1, <4>1, <4>3 DEF Good, OneLive, Pursued, Resumed, FilesInv, Mixed, TxSame
      <4> QED BY <4>3, <4>4, NoHelperWorks
    <3> QED BY <3>2, <3>3, <3>4 DEF WholeInv
  <2> QED BY <1>3, <2>3, <2>4 DEF Prepare
<1> QED BY <1>1, <1>2, <1>3

\* What the one that prepares says of its request.
LEMMA PreparingCalm ==
  ASSUME Before, service.pc \in Preparing, GoesDown, UNCHANGED <<files, helper>>, NEW r \in Request,
         \A q \in Request : TxSame(q) /\ Target(q)' = Target(q),
         \A q \in Request : q # r => request'[q].status = request[q].status,
         Act(r)' => Act(r)
  PROVE  WholeInv'
<1>1. ASSUME Clean' PROVE ActKept(r)
  BY <1>1, PreparingAlone DEF Before, WholeInv, ActKept, Working
<1> QED BY <1>1, StatusWhole

LEMMA PrepareWhole ==
  ASSUME Before, Download \/ Stage \/ WindowClosed \/ Install \/ Leave \/ PrepareFails
  PROVE  WholeInv'
<1> USE DEF Before, UpdateInv, Types
<1>0. PICK r \in Request : /\ r = Req /\ service.req = r /\ service.pc \in Preparing
                           /\ request[r].status \notin Verdict \cup {"completed", "none"}
  <2>1. service.pc \in Preparing /\ service.pc \in AtWork
    BY DEF Download, Stage, WindowClosed, Staged, Install, Leave, PrepareFails, At, Preparing, AtWork
  <2>2. Req \in Request /\ Row(Req)
    BY <2>1, ReqIs
  <2> QED BY <2>1, <2>2 DEF Req, Row
<1>1. ~Done(r)
  BY <1>0 DEF WholeInv, DoneEnded
<1>2. ASSUME Progress(r, "downloading") \/ Progress(r, "staged") \/ Progress(r, "waiting_for_window")
             \/ Progress(r, "installing")
      PROVE  /\ Act(r)' => Act(r)
             /\ \A q \in Request : q # r => request'[q].status = request[q].status
             /\ \A q \in Request : Target(q)' = Target(q)
  BY <1>0, <1>2, ProgressIs DEF Active, Cancellable, Claimable, Act
<1>3. ASSUME UNCHANGED tx, UNCHANGED <<files, helper>>, Goto("recover", 0),
             Set(r, "failed") \/ UNCHANGED request
      PROVE  WholeInv'
  <2>1. GoesDown
    BY <1>0, <1>3, TurnsToNone DEF GoesDown, Resumed, Pursued, Preparing
  <2>2. CASE Set(r, "failed")
    <3>1. /\ request'[r].status = "failed" /\ \A q \in Request : Target(q)' = Target(q)
          /\ \A q \in Request : q # r => request'[q].status = request[q].status
      BY <1>0, <2>2, SetIs DEF Status, Terminal
    <3>2. ~Act(r)'
      BY <3>1 DEF Act, Active, Cancellable, Claimable
    <3> QED BY <1>0, <1>3, <2>1, <3>1, <3>2, PreparingCalm, TxStays
  <2> QED BY <1>3, <2>1, <2>2, CalmWhole, TxStays, RequestStays
<1>4. CASE PrepareFails
  <2>1. UNCHANGED tx /\ UNCHANGED <<files, helper>> /\ Goto("recover", 0)
        /\ (Set(r, "failed") \/ UNCHANGED request)
    BY <1>0, <1>4 DEF PrepareFails
  <2> QED BY <1>3, <2>1
<1>5. CASE Download
  <2>1. UNCHANGED tx /\ UNCHANGED <<files, helper>>
    BY <1>5 DEF Download
  <2>2. CASE Fails(r)
    BY <1>3, <2>1, <2>2 DEF Fails
  <2>3. CASE Progress(r, "downloading") /\ Goto("downloaded", r)
    <3>1. GoesDown
      BY <1>0, <2>3, TurnsTo DEF GoesDown, Resumed, Pursued, Preparing, AtWork
    <3> QED BY <1>0, <1>2, <2>1, <2>3, <3>1, PreparingCalm, TxStays
  <2> QED BY <1>0, <1>5, <2>2, <2>3 DEF Download
<1>6. CASE WindowClosed
  <2>1. UNCHANGED tx /\ UNCHANGED <<files, helper>> /\ Progress(r, "waiting_for_window") /\ Goto("recover", 0)
    BY <1>0, <1>6 DEF WindowClosed, diskVars
  <2>2. GoesDown
    BY <1>0, <2>1, TurnsToNone DEF GoesDown, Resumed, Pursued, Preparing
  <2> QED BY <1>0, <1>2, <2>1, <2>2, PreparingCalm, TxStays
<1>7. CASE Stage
  <2> DEFINE x == [state |-> "staged", from |-> service.ver, backup |-> files]
  <2>1. /\ Progress(r, "staged") /\ Goto("verified", r) /\ tx' = [tx EXCEPT ![r] = x]
        /\ UNCHANGED <<files, helper>>
    BY <1>0, <1>7 DEF Stage
  <2>2. x.state = "staged" /\ x.backup = files
    OBVIOUS
  <2> HIDE DEF x
  <2>3. tx'[r] = x /\ \A q \in Request : q # r => tx'[q] = tx[q]
    BY <2>1 DEF TxOK
  <2>4. ~Live(r)' /\ ~Done(r)' /\ \A q \in Request : q # r => TxSame(q)
    BY <2>2, <2>3 DEF Live, Done, TxSame
  <2>5. service'.pc = "verified" /\ service'.req = r
    BY <2>1, TurnsTo DEF AtWork
  <2>6. OneActive'
    BY <1>2, <2>1 DEF WholeInv, OneActive, Act
  <2>7. DoneEnded'
    BY <1>0, <2>4 DEF WholeInv, DoneEnded, AllKeep, Keeps, TxSame
  <2>8. ASSUME Clean' PROVE Good'
    <3>1. Good /\ ~Mixed /\ \A q \in Request : ~Working(q)
      BY <1>0, <2>8, PreparingAlone DEF WholeInv
    <3>2. \A q \in Request : ~Working(q)'
      BY <1>1, <2>1, <2>4, <3>1 DEF Working, TxSame
    <3>3. OneLive'
      BY <1>0, <2>4, <2>5, <3>1 DEF Good, OneLive, Pursued, Resumed, TxSame
    <3>4. FilesInv'
      BY <2>1, <2>2, <2>3, <3>1 DEF Good, FilesInv, Mixed
    <3> QED BY <3>2, <3>3, <3>4, NoHelperWorks
  <2> QED BY <2>6, <2>7, <2>8 DEF WholeInv
<1>8. CASE Install
  <2>1. Save(r, "restarting") /\ Goto("leaving", r) /\ UNCHANGED <<request, files, helper>>
    BY <1>0, <1>8 DEF Install, backendVars
  <2>2. /\ tx'[r].state = "restarting" /\ \A q \in Request : tx'[q].backup = tx[q].backup
        /\ \A q \in Request : q # r => tx'[q].state = tx[q].state
    BY <2>1, SaveIs DEF TxState
  <2>3. /\ Live(r)' /\ ~Done(r)' /\ \A q \in Request : q # r => TxSame(q)
    BY <2>2 DEF TxSame, Live, Done
  <2>4. service'.pc = "leaving" /\ service'.req = r
    BY <2>1, TurnsTo DEF AtWork
  <2>5. OneActive' /\ DoneEnded'
    BY <1>0, <2>1, <2>3 DEF WholeInv, OneActive, DoneEnded, Act, TxSame
  <2>6. ASSUME Clean' PROVE Good'
    <3>1. Good /\ ~Mixed /\ \A q \in Request : ~Working(q)
      BY <1>0, <2>6, PreparingAlone DEF WholeInv
    <3>2. \A q \in Request : ~Working(q)'
      BY <1>1, <2>1, <2>3, <3>1 DEF Working, TxSame
    <3>3. OneLive'
      BY <1>0, <2>3, <2>4, <3>1, <3>2 DEF Good, OneLive, Pursued, Resumed, TxSame
    <3>4. FilesInv'
      BY <2>1, <2>2, <3>1 DEF Good, FilesInv, Mixed
    <3> QED BY <3>2, <3>3, <3>4, NoHelperWorks
  <2> QED BY <2>5, <2>6 DEF WholeInv
<1>9. CASE Leave
  <2>1. /\ helper[r].pc = "none" /\ Progress(r, "installing") /\ Goto("stopping", 0)
        /\ helper' = [helper EXCEPT ![r] = [pc |-> "start", left |-> Part]] /\ UNCHANGED <<tx, files>>
    BY <1>0, <1>9 DEF Leave, diskVars
  <2>2. /\ helper'[r].pc = "start" /\ \A q \in Request : q # r => helper'[q] = helper[q]
        /\ service'.pc = "stopping"
    BY <2>1, HelperIs, TurnsToNone DEF HelperTo, HelperSteps
  <2>3. OneActive' /\ DoneEnded'
    BY <1>2, <2>1, TxStays DEF WholeInv, OneActive, DoneEnded, Act, AllKeep, Keeps, TxSame
  <2>4. ASSUME Clean' PROVE Good'
    <3>1. Good /\ \A q \in Request : ~Working(q)
      BY <1>0, <2>4, PreparingAlone DEF WholeInv
    <3>2. service.pc # "off" /\ \A q \in Request : q # r => ~Live(q)
      BY <1>0, <3>1 DEF Preparing, Good, OneLive
    <3>3. \A q \in Request : /\ (q # r => helper'[q] = helper[q] /\ TxSame(q) /\ ~Live(q))
                             /\ tx'[q].backup = tx[q].backup
      BY <2>1, <2>2, <3>2, TxStays
    <3> QED BY <2>1, <2>2, <3>1, <3>2, <3>3, Launched
  <2> QED BY <2>3, <2>4 DEF WholeInv
<1> QED BY <1>4, <1>5, <1>6, <1>7, <1>8, <1>9

\* A helper ends that has nothing to do any more.
LEMMA IdleEnds ==
  ASSUME Good, NEW h \in Request, ~Working(h), helper'[h].pc = "none",
         \A r \in Request : r # h => helper'[r] = helper[r], UNCHANGED <<request, tx, files, service>>
  PROVE  Good'
<1>1. \A r \in Request : TxSame(r) /\ (r # h => (Working(r)' <=> Working(r)))
  BY TxStays DEF Working, TxSame
<1>2. ~Working(h)' /\ Helped(h)'
  BY DEF Working, Helped
<1>3. OneWorking' /\ OneLive' /\ FilesInv'
  BY <1>1, <1>2 DEF Good, OneWorking, OneLive, Pursued, Resumed, FilesInv, Mixed, Working, TxSame
<1>4. ASSUME NEW r \in Request, r # h PROVE Helped(r)'
  BY <1>1, <1>4, RequestStays DEF Good, Helped, TxSame
<1> QED BY <1>2, <1>3, <1>4 DEF Good

\* A step of a helper, whether it works or not.
LEMMA HelperCalm ==
  ASSUME Before, UNCHANGED request, NEW h \in Request,
         \A r \in Request : r # h => tx'[r].state = tx[r].state,
         Done(h)' => Done(h), Clean' => Good'
  PROVE  WholeInv'
<1>1. \A r \in Request : (Done(r)' => Done(r)) /\ (Act(r)' <=> Act(r))
  BY DEF Done, Act
<1>2. OneActive' /\ DoneEnded'
  BY <1>1 DEF Before, WholeInv, OneActive, DoneEnded
<1> QED BY <1>2 DEF WholeInv

\* A helper at work keeps its backup, and the others what they have.
OthersSame(h) == /\ \A r \in Request : r # h => helper'[r] = helper[r]
                 /\ \A r \in Request : r # h => tx'[r].state = tx[r].state
                 /\ \A r \in Request : tx'[r].backup = tx[r].backup

\* A service that is stopped or started, or left alone, does not turn to a transaction.
LEMMA NoneResumed ==
  ASSUME UNCHANGED service \/ service'.pc = "off" \/ Running(files["exe"])
  PROVE  \A r \in Request : Resumed(r)' => Resumed(r)
BY DEF Resumed, Running

LEMMA WorkWhole ==
  ASSUME Before, UNCHANGED request, NEW h \in Request, OthersSame(h),
         Done(h)' => Done(h), Live(h)' => Live(h) \/ ~Clean',
         \A r \in Request : Resumed(r)' => Resumed(r),
         Good /\ Clean' => /\ Working(h) /\ service'.pc \notin Preparing /\ Helped(h)'
                           /\ Mixed' => service'.pc = "off" /\ helper'[h].pc \in {"copy", "rollback", "restore"}
  PROVE  WholeInv'
<1>1. \A r \in Request : r # h => TxSame(r)
  BY DEF OthersSame, TxSame, Live, Done
<1>2. ASSUME Clean' PROVE Good'
  <2>1. Good
    BY <1>2 DEF Before, WholeInv
  <2> QED BY <1>1, <1>2, <2>1, OneHelper DEF OthersSame
<1> QED BY <1>2, HelperCalm DEF OthersSame

\* The others are left alone.
LEMMA HelperAlone ==
  ASSUME Types, NEW h \in Request, NEW pc \in HelperSteps, NEW left \in SUBSET Part,
         HelperTo(h, pc, left), UNCHANGED tx \/ \E s \in TxState : Save(h, s)
  PROVE  OthersSame(h) /\ helper'[h].pc = pc /\ helper'[h].left = left
<1>1. CASE UNCHANGED tx
  BY <1>1, HelperIs DEF Types, OthersSame
<1>2. CASE \E s \in TxState : Save(h, s)
  BY <1>2, HelperIs, SaveIs DEF Types, OthersSame
<1> QED BY <1>1, <1>2

\* A helper replaces the files, starts the new build and watches it.
LEMMA ReplaceWhole ==
  ASSUME Before, NEW h \in Request,
         \/ HelperStarts(h) \/ ServiceGone(h) \/ Copied(h) \/ StartService(h) \/ Mark(h) \/ Watch(h)
         \/ HelperFails(h) \/ \E p \in Part : CopyPart(h, p)
  PROVE  WholeInv'
<1> USE DEF Before, UpdateInv
<1>0. /\ UNCHANGED request /\ helper[h].left \subseteq Part
      /\ Good => Helped(h) /\ \A q \in Request : q # h => (Act(h) => ~Act(q))
  BY DEF HelperStarts, ServiceGone, Copied, StartService, Mark, Watch, HelperFails, CopyPart, backendVars, Types,
         HelpersOK, HelperRow, Good, WholeInv, OneActive
<1>a. \A r \in Request : Resumed(r)' => Resumed(r)
  BY NoneResumed DEF HelperStarts, ServiceGone, Copied, StartService, Mark, Watch, HelperFails, CopyPart
<1>1. CASE HelperStarts(h)
  <2>1. /\ helper[h].pc = "start" /\ UNCHANGED <<tx, service, files>> /\ (Clean' => Act(h))
        /\ \/ tx[h].state = "restarting" /\ HelperTo(h, "wait", Part)
           \/ HelperTo(h, "none", {})
    BY <1>1 DEF HelperStarts, HelperAt, diskVars, Clean, Act
  <2>2. /\ OthersSame(h)
        /\ \/ tx[h].state = "restarting" /\ helper'[h].pc = "wait"
           \/ helper'[h].pc = "none"
    BY <2>1, HelperAlone DEF HelperSteps
  <2>3. (Done(h)' <=> Done(h)) /\ (Live(h)' <=> Live(h)) /\ (Act(h)' <=> Act(h)) /\ (Mixed' <=> Mixed)
    BY <1>0, <2>1 DEF Done, Live, Act, Mixed
  <2>4. ASSUME Good, Clean' PROVE Working(h) /\ service'.pc \notin Preparing /\ Helped(h)' /\ ~Mixed'
    <3>1. Working(h) /\ ~Mixed /\ service.pc \in {"stopping", "off"}
      BY <1>0, <2>1, <2>4, MixedBy DEF Working, Helped
    <3>2. Helped(h)'
      BY <2>1, <2>2, <2>3, <2>4, <3>1 DEF Helped, Live, Preparing, Working
    <3> QED BY <2>1, <2>3, <3>1, <3>2 DEF Preparing
  <2> QED BY <1>0, <2>2, <2>3, <2>4, <1>a, WorkWhole
<1>2. CASE ServiceGone(h)
  <2>1. /\ helper[h].pc = "wait" /\ service.pc = "off" /\ UNCHANGED <<service, files>>
        /\ Save(h, "service_stopped") /\ HelperTo(h, "copy", Part)
    BY <1>2 DEF ServiceGone, HelperAt
  <2>2. OthersSame(h) /\ helper'[h].pc = "copy" /\ helper'[h].left = Part
    BY <2>1, HelperAlone DEF HelperSteps, TxState
  <2>3. Live(h)' /\ ~Done(h)' /\ (Act(h)' <=> Act(h))
    BY <1>0, <2>1, SaveIs DEF Types, TxState, Done, Live, Act
  <2>4. ASSUME Good PROVE Live(h) /\ Working(h) /\ service'.pc = "off" /\ Helped(h)'
    <3>1. Live(h) /\ Act(h) /\ Working(h)
      BY <1>0, <2>1, <2>4 DEF Helped, Working
    <3>2. Helped(h)'
      BY <2>1, <2>2, <2>3, <3>1 DEF Helped, Preparing
    <3> QED BY <2>1, <3>1, <3>2
  <2> QED BY <1>0, <2>2, <2>3, <2>4, <1>a, WorkWhole DEF Preparing, WholeInv
<1>3. ASSUME NEW p \in Part, CopyPart(h, p) PROVE WholeInv'
  <2>1. /\ helper[h].pc = "copy" /\ service.pc = "off" /\ UNCHANGED <<service, tx>>
        /\ files' = [files EXCEPT ![p] = Target(h)] /\ HelperTo(h, "copy", helper[h].left \ {p})
    BY <1>3 DEF CopyPart, HelperAt
  <2>2. OthersSame(h) /\ helper'[h].pc = "copy" /\ helper'[h].left = helper[h].left \ {p}
    BY <1>0, <2>1, HelperAlone DEF HelperSteps
  <2>3. (Done(h)' <=> Done(h)) /\ (Live(h)' <=> Live(h)) /\ (Act(h)' <=> Act(h)) /\ Target(h)' = Target(h)
    BY <1>0, <2>1 DEF Done, Live, Act, Target
  <2>4. files'[p] = Target(h) /\ \A q \in Part : q # p => files'[q] = files[q]
    BY <2>1 DEF Types, RestOK
  <2>5. ASSUME Good PROVE Working(h) /\ service'.pc = "off" /\ Helped(h)'
    <3>1. Live(h) /\ Act(h) /\ Working(h) /\ \A q \in Part \ helper[h].left : files[q] = Target(h)
      BY <1>0, <2>1, <2>5 DEF Helped, Working
    <3>2. \A q \in Part \ helper'[h].left : files'[q] = Target(h)'
      BY <2>2, <2>3, <2>4, <3>1
    <3>3. Helped(h)'
      BY <2>1, <2>2, <2>3, <3>1, <3>2 DEF Helped, Preparing
    <3> QED BY <2>1, <3>1, <3>3
  <2> QED BY <1>0, <2>2, <2>3, <2>5, <1>a, WorkWhole DEF Preparing
<1>4. CASE Copied(h)
  <2>1. /\ helper[h].pc = "copy" /\ helper[h].left = {} /\ UNCHANGED <<service, files>>
        /\ Save(h, "files_replaced") /\ HelperTo(h, "launch", {})
    BY <1>4 DEF Copied, HelperAt
  <2>2. OthersSame(h) /\ helper'[h].pc = "launch"
    BY <2>1, HelperAlone DEF HelperSteps, TxState
  <2>3. Live(h)' /\ ~Done(h)' /\ \A q \in Request : Act(q)' <=> Act(q)
    BY <1>0, <2>1, SaveIs DEF Types, TxState, Done, Live, Act
  <2>4. ASSUME Good PROVE Live(h) /\ Working(h) /\ service'.pc \notin Preparing /\ Helped(h)' /\ ~Mixed'
    <3>1. /\ Live(h) /\ Act(h) /\ Working(h) /\ service.pc = "off"
          /\ \A q \in Part : files[q] = Target(h)
      BY <1>0, <2>1, <2>4 DEF Helped, Working
    <3>2. Helped(h)'
      BY <1>0, <2>1, <2>2, <2>3, <2>4, <3>1 DEF Helped, Preparing
    <3> QED BY <2>1, <3>1, <3>2 DEF Preparing, Mixed, Part
  <2> QED BY <1>0, <2>2, <2>3, <2>4, <1>a, WorkWhole DEF WholeInv
<1>5. CASE StartService(h)
  <2>1. /\ helper[h].pc = "launch" /\ UNCHANGED <<tx, files>> /\ HelperTo(h, "mark", {})
        /\ service.pc = "off" => Running(files["exe"])
    BY <1>5 DEF StartService, HelperAt, diskVars
  <2>2. OthersSame(h) /\ helper'[h].pc = "mark"
    BY <2>1, HelperAlone DEF HelperSteps
  <2>3. (Done(h)' <=> Done(h)) /\ (Live(h)' <=> Live(h)) /\ \A q \in Request : Act(q)' <=> Act(q)
    BY <1>0, <2>1 DEF Done, Live, Act
  <2>4. ASSUME Good PROVE Working(h) /\ service'.pc \notin Preparing /\ Helped(h)' /\ ~Mixed'
    <3>1. Live(h) /\ Act(h) /\ Working(h) /\ service.pc = "off" /\ ~Mixed
      BY <1>0, <2>1, <2>4, MixedBy DEF Helped, Working
    <3>2. service'.pc = "recover"
      BY <2>1, <3>1 DEF Running
    <3>3. Helped(h)'
      BY <1>0, <2>2, <2>3, <2>4, <3>1, <3>2 DEF Helped, Preparing
    <3> QED BY <2>1, <3>1, <3>2, <3>3 DEF Preparing, Mixed
  <2> QED BY <1>0, <2>2, <2>3, <2>4, <1>a, WorkWhole
<1>6. CASE Mark(h)
  <2>1. /\ helper[h].pc = "mark" /\ UNCHANGED <<service, files>> /\ Save(h, "verifying_health")
        /\ HelperTo(h, "watch", {}) /\ (Clean' => ~Done(h))
    BY <1>6 DEF Mark, HelperAt, Clean, Done
  <2>2. OthersSame(h) /\ helper'[h].pc = "watch"
    BY <2>1, HelperAlone DEF HelperSteps, TxState
  <2>3. Live(h)' /\ ~Done(h)' /\ \A q \in Request : Act(q)' <=> Act(q)
    BY <1>0, <2>1, SaveIs DEF Types, TxState, Done, Live, Act
  <2>4. ASSUME Good, Clean' PROVE Live(h) /\ Working(h) /\ service'.pc \notin Preparing /\ Helped(h)' /\ ~Mixed'
    <3>1. Live(h) /\ Act(h) /\ Working(h) /\ service.pc \notin Preparing /\ ~Mixed
      BY <1>0, <2>1, <2>4, MixedBy DEF Helped, Working
    <3>2. Helped(h)'
      BY <2>1, <2>2, <2>3, <3>1 DEF Helped
    <3> QED BY <2>1, <3>1, <3>2 DEF Mixed
  <2> QED BY <1>0, <2>2, <2>3, <2>4, <1>a, WorkWhole DEF WholeInv
<1>7. CASE Watch(h)
  <2>1. helper[h].pc = "watch" /\ UNCHANGED <<tx, service, files>>
    BY <1>7 DEF Watch, HelperAt, diskVars
  <2>2. (Done(h)' <=> Done(h)) /\ (Live(h)' <=> Live(h)) /\ \A q \in Request : Act(q)' <=> Act(q)
    BY <1>0, <2>1 DEF Done, Live, Act
  <2>3. CASE Done(h)
    <3>1. HelperTo(h, "none", {})
      BY <1>7, <2>3 DEF Watch, Done
    <3>2. OthersSame(h) /\ helper'[h].pc = "none"
      BY <2>1, <3>1, HelperAlone DEF HelperSteps
    <3>3. ASSUME Clean' PROVE Good'
      <4>1. Good /\ ~Working(h)
        BY <2>1, <2>3, <3>3 DEF WholeInv, Working
      <4> QED BY <1>0, <2>1, <3>2, <4>1, IdleEnds DEF OthersSame
    <3> QED BY <1>0, <2>2, <3>2, <3>3, HelperCalm DEF OthersSame
  <2>4. CASE ~Done(h)
    <3>1. HelperTo(h, "rollback", Part)
      BY <1>7, <2>4 DEF Watch, Done, BackOut
    <3>2. OthersSame(h) /\ helper'[h].pc = "rollback"
      BY <2>1, <3>1, HelperAlone DEF HelperSteps
    <3>3. ASSUME Good PROVE Working(h) /\ service'.pc \notin Preparing /\ Helped(h)' /\ ~Mixed'
      <4>1. Live(h) /\ Act(h) /\ Working(h) /\ service.pc \notin Preparing /\ ~Mixed
        BY <1>0, <2>1, <2>4, <3>3, MixedBy DEF Helped, Working
      <4>2. Helped(h)'
        BY <1>0, <2>1, <2>2, <3>2, <3>3, <4>1 DEF Helped
      <4> QED BY <2>1, <4>1, <4>2 DEF Mixed
    <3> QED BY <1>0, <2>2, <3>2, <3>3, <1>a, WorkWhole
  <2> QED BY <2>3, <2>4
<1>8. CASE HelperFails(h)
  <2>1. /\ helper[h].pc \in {"wait", "copy", "launch"} /\ UNCHANGED <<tx, service, files>>
        /\ HelperTo(h, "rollback", Part)
    BY <1>8 DEF HelperFails, BackOut, diskVars
  <2>2. OthersSame(h) /\ helper'[h].pc = "rollback"
    BY <2>1, HelperAlone DEF HelperSteps
  <2>3. (Done(h)' <=> Done(h)) /\ (Live(h)' <=> Live(h)) /\ \A q \in Request : Act(q)' <=> Act(q)
    BY <1>0, <2>1 DEF Done, Live, Act
  <2>4. ASSUME Good
        PROVE  Working(h) /\ service'.pc \notin Preparing /\ Helped(h)' /\ (Mixed' => service'.pc = "off")
    <3>1. /\ Live(h) /\ Act(h) /\ Working(h) /\ service.pc \notin Preparing
          /\ Mixed => service.pc = "off"
      BY <1>0, <2>1, <2>4, MixedBy DEF Helped, Working
    <3>2. Helped(h)'
      BY <1>0, <2>1, <2>2, <2>3, <2>4, <3>1 DEF Helped
    <3> QED BY <2>1, <3>1, <3>2 DEF Mixed
  <2> QED BY <1>0, <2>2, <2>3, <2>4, <1>a, WorkWhole
<1> QED BY <1>1, <1>2, <1>3, <1>4, <1>5, <1>6, <1>7, <1>8

\* A helper takes the update back.
LEMMA RestoreWhole ==
  ASSUME Before, NEW h \in Request,
         \/ StopService(h) \/ StartPrevious(h) \/ RolledBack(h) \/ RollbackFails(h)
         \/ \E p \in Part : RestorePart(h, p)
  PROVE  WholeInv'
<1> USE DEF Before, UpdateInv
<1>0. UNCHANGED request /\ helper[h].left \subseteq Part /\ (Good => Helped(h))
  BY DEF StopService, StartPrevious, RolledBack, RollbackFails, RestorePart, Ends, backendVars, Types, HelpersOK,
         HelperRow, Good
<1>a. \A r \in Request : Resumed(r)' => Resumed(r)
  BY NoneResumed DEF StopService, StartPrevious, RolledBack, RollbackFails, RestorePart, Ends, Types, ServiceOK, Service
<1>1. CASE StopService(h)
  <2>1. /\ helper[h].pc = "rollback" /\ UNCHANGED <<tx, files>> /\ HelperTo(h, "restore", Part)
        /\ service'.pc = "off"
    BY <1>1 DEF StopService, HelperAt, diskVars, Types, ServiceOK, Service
  <2>2. OthersSame(h) /\ helper'[h].pc = "restore" /\ helper'[h].left = Part
    BY <2>1, HelperAlone DEF HelperSteps
  <2>3. (Done(h)' <=> Done(h)) /\ (Live(h)' <=> Live(h)) /\ \A q \in Request : Act(q)' <=> Act(q)
    BY <1>0, <2>1 DEF Done, Live, Act
  <2>4. ASSUME Good PROVE Working(h) /\ Helped(h)'
    <3>1. Working(h) /\ (Live(h) \/ Done(h)) /\ \A q \in Request : q # h => ~Act(q)
      BY <1>0, <2>1, <2>4 DEF Helped, Working
    <3> QED BY <2>1, <2>2, <2>3, <3>1 DEF Helped, Preparing
  <2> QED BY <1>0, <2>1, <2>2, <2>3, <2>4, <1>a, WorkWhole DEF Preparing
<1>2. ASSUME NEW p \in Part, RestorePart(h, p) PROVE WholeInv'
  <2>1. /\ helper[h].pc = "restore" /\ service.pc = "off" /\ UNCHANGED <<service, tx>>
        /\ files' = [files EXCEPT ![p] = tx[h].backup[p]] /\ HelperTo(h, "restore", helper[h].left \ {p})
    BY <1>2 DEF RestorePart, HelperAt
  <2>2. OthersSame(h) /\ helper'[h].pc = "restore" /\ helper'[h].left = helper[h].left \ {p}
    BY <1>0, <2>1, HelperAlone DEF HelperSteps
  <2>3. (Done(h)' <=> Done(h)) /\ (Live(h)' <=> Live(h)) /\ \A q \in Request : Act(q)' <=> Act(q)
    BY <1>0, <2>1 DEF Done, Live, Act
  <2>4. files'[p] = tx[h].backup[p] /\ \A q \in Part : q # p => files'[q] = files[q]
    BY <2>1 DEF Types, RestOK
  <2>5. ASSUME Good PROVE Working(h) /\ Helped(h)'
    <3>1. /\ Working(h) /\ (Live(h) \/ Done(h)) /\ \A q \in Request : q # h => ~Act(q)
          /\ \A q \in Part \ helper[h].left : files[q] = tx[h].backup[q]
      BY <1>0, <2>1, <2>5 DEF Helped, Working
    <3>2. \A q \in Part \ helper'[h].left : files'[q] = tx'[h].backup[q]
      BY <2>1, <2>2, <2>4, <3>1
    <3> QED BY <2>1, <2>2, <2>3, <3>1, <3>2 DEF Helped, Preparing
  <2> QED BY <1>0, <2>1, <2>2, <2>3, <2>5, <1>a, WorkWhole DEF Preparing
<1>3. CASE StartPrevious(h)
  <2>1. /\ helper[h].pc = "restore" /\ helper[h].left = {} /\ UNCHANGED <<tx, files>>
        /\ HelperTo(h, "restored", {}) /\ (service.pc = "off" => Running(files["exe"]))
    BY <1>3 DEF StartPrevious, HelperAt, diskVars
  <2>2. OthersSame(h) /\ helper'[h].pc = "restored"
    BY <2>1, HelperAlone DEF HelperSteps
  <2>3. (Done(h)' <=> Done(h)) /\ (Live(h)' <=> Live(h)) /\ \A q \in Request : Act(q)' <=> Act(q)
    BY <1>0, <2>1 DEF Done, Live, Act
  <2>4. ASSUME Good PROVE Working(h) /\ service'.pc \notin Preparing /\ Helped(h)' /\ ~Mixed'
    <3>1. /\ Working(h) /\ (Live(h) \/ Done(h)) /\ service.pc = "off"
          /\ \A q \in Request : q # h => ~Act(q)
          /\ \A q \in Part : files[q] = tx[h].backup[q]
      BY <1>0, <2>1, <2>4 DEF Helped, Working
    <3>2. service'.pc = "recover"
      BY <2>1, <3>1 DEF Running
    <3>3. tx[h].backup["exe"] = tx[h].backup["libs"]
      BY <2>4 DEF Good, FilesInv
    <3>4. ~Mixed'
      BY <2>1, <3>1, <3>3 DEF Mixed, Part
    <3> QED BY <2>2, <2>3, <3>1, <3>2, <3>4 DEF Helped, Preparing
  <2> QED BY <1>0, <2>2, <2>3, <2>4, <1>a, WorkWhole
<1>4. CASE RolledBack(h)
  <2>1. /\ helper[h].pc = "restored" /\ UNCHANGED <<service, files>> /\ Save(h, "rolled_back")
        /\ HelperTo(h, "none", {})
    BY <1>4 DEF RolledBack, Ends, HelperAt
  <2>2. OthersSame(h) /\ helper'[h].pc = "none"
    BY <2>1, HelperAlone DEF HelperSteps, TxState
  <2>3. ~Live(h)' /\ ~Done(h)'
    BY <2>1, SaveIs DEF Types, TxState, Done, Live
  <2>4. ASSUME Good PROVE Working(h) /\ service'.pc \notin Preparing /\ Helped(h)' /\ ~Mixed'
    <3>1. Working(h) /\ ~Mixed /\ service.pc \notin Preparing
      BY <1>0, <2>1, <2>4, MixedBy DEF Working, Helped
    <3>2. Helped(h)'
      BY <2>2 DEF Helped, Working
    <3> QED BY <2>1, <3>1, <3>2 DEF Mixed
  <2> QED BY <1>0, <2>2, <2>3, <2>4, <1>a, WorkWhole
<1>5. CASE RollbackFails(h)
  <2>1. Save(h, "rollback_failed") /\ HelperTo(h, "none", {}) /\ ~Clean'
    BY <1>5 DEF RollbackFails, Ends, Clean
  <2>2. OthersSame(h)
    BY <2>1, HelperAlone DEF HelperSteps, TxState
  <2>3. ~Done(h)'
    BY <2>1, SaveIs DEF Types, TxState, Done
  <2> QED BY <1>0, <2>1, <2>2, <2>3, HelperCalm DEF OthersSame
<1> QED BY <1>1, <1>2, <1>3, <1>4, <1>5

\* The machine restarts, or starts the service.
LEMMA MachineWhole ==
  ASSUME Before, Reboot \/ Boot
  PROVE  WholeInv'
<1>0. UNCHANGED <<request, tx, files>>
  BY DEF Reboot, Boot, backendVars, diskVars
<1>1. \A r \in Request : /\ TxSame(r) /\ (Act(r)' <=> Act(r)) /\ helper'[r].pc = "none"
  BY <1>0, TxStays, RequestStays DEF Reboot, Boot, NoHelper
<1>2. OneActive' /\ DoneEnded'
  BY <1>0, <1>1 DEF Before, WholeInv, OneActive, DoneEnded, TxSame
<1>3. ASSUME Clean' PROVE Good'
  <2>1. Good
    BY <1>3 DEF Before, WholeInv
  <2>2. service'.pc = "recover" /\ ~Mixed
    <3>1. CASE Reboot
      BY <1>3, <3>1 DEF Reboot, Running, Clean, Mixed
    <3>2. CASE Boot
      BY <2>1, <3>2 DEF Boot, Running, Good, FilesInv
    <3> QED BY <3>1, <3>2
  <2>3. \A r \in Request : ~Working(r)'
    BY <1>1 DEF Working
  <2>4. OneLive'
    BY <1>1, <2>1, <2>2, <2>3 DEF Good, OneLive, Pursued, Resumed, TxSame, Preparing
  <2>5. FilesInv'
    BY <1>0, <1>1, <2>1, <2>2 DEF Good, FilesInv, Mixed, TxSame
  <2> QED BY <2>3, <2>4, <2>5, NoHelperWorks
<1> QED BY <1>2, <1>3 DEF WholeInv

LEMMA WholeNext ==
  ASSUME UpdateInv, WholeInv, AllKeep, [Next]_updateVars
  PROVE  WholeInv'
<1>0. Before
  BY CleanWas DEF Before
<1>1. CASE \/ \E r \in Request : (\E v \in Release, retry \in BOOLEAN : Ask(r, v, retry)) \/ Cancel(r)
           \/ \E v \in Release : Revoke(v)
           \/ Heartbeat \/ BeatExpires
  BY <1>0, <1>1, BackendWhole
<1>2. CASE ServiceStep \/ WindowClosed \/ GetsBusy \/ GetsFree
  BY <1>0, <1>2, RecoverWhole, RelaunchWhole, CompleteWhole, PollWhole, PrepareWhole DEF ServiceStep
<1>3. ASSUME NEW r \in Request, HelperStep(r) PROVE WholeInv'
  BY <1>0, <1>3, ReplaceWhole, RestoreWhole DEF HelperStep
<1>4. CASE Reboot \/ Boot
  BY <1>0, <1>4, MachineWhole
<1>5. CASE UNCHANGED updateVars
  <2>1. UNCHANGED <<request, tx, helper, service, files>>
    BY <1>5 DEF updateVars
  <2> QED BY <1>0, <2>1, CalmWhole, TxStays, RequestStays DEF GoesDown, Resumed, Pursued
<1> QED BY <1>1, <1>2, <1>3, <1>4, <1>5 DEF Next

\* Nothing is asked for, no helper runs, and the files are those of one build.
LEMMA WholeInit == Init => WholeInv
<1> SUFFICES ASSUME Init PROVE WholeInv
  OBVIOUS
<1>1. \A r \in Request : ~Act(r) /\ ~Done(r) /\ ~Live(r) /\ ~Working(r)
  BY DEF Init, Act, Active, Cancellable, Claimable, Done, Live, Working, NoHelper
<1>2. ~Mixed /\ \A r \in Request : tx[r].backup["exe"] = tx[r].backup["libs"]
  BY DEF Init, Mixed, Installed, Part
<1>3. \A r \in Request : Helped(r)
  BY <1>1, IdleHelped
<1> QED BY <1>1, <1>2, <1>3 DEF WholeInv, OneActive, DoneEnded, Good, OneWorking, OneLive, Pursued, Resumed, FilesInv

\* What the invariant says of a service that runs.
LEMMA WholeSuffices == WholeInv => ServiceWhole
BY DEF WholeInv, Clean, Good, FilesInv, Mixed, ServiceWhole, Overlap

-----------------------------------------------------------------------------
(* The outcome of the last update.                                         *)

Asked(r)  == request[r].status # "none"
Latest(r) == Asked(r) /\ \A q \in Request : q > r => ~Asked(q)
Spotless  == scars = {}

\* The service is the build that was installed when it was started, and asks for the verdict on that one.
Told == /\ service.pc # "off" => service.ver = files["exe"]
        /\ service.pc = "reporting" => service.ver = Target(service.req)

\* Requests are made in turn, when the one before is over.
InTurn == \A q, r \in Request : q < r /\ Asked(r) => Asked(q) /\ ~Act(q)

\* The helper of a request that is over does nothing any more.
Resting(r) == helper[r].pc \in {"none", "start"} \/ (helper[r].pc = "watch" /\ Done(r))
OthersRest == \A q, r \in Request : q < r /\ Asked(r) => Resting(q)

\* What the transaction of the latest request says became of it, while its helper does not take it back.
Outcome(r) ==
  /\ Latest(r) /\ Done(r) => files = Installed(Target(r)) \/ helper[r].pc \in {"restore", "restored"}
  /\ Latest(r) /\ tx[r].state \in {"rolled_back", "rollback_reported"} => files = tx[r].backup
  /\ helper[r].pc = "restored" => files = tx[r].backup
  /\ tx[r].state # "rollback_failed" /\ request[r].status # "rollback_failed"
  /\ tx[r].state = "rollback_reported" => request[r].status = "rolled_back"

OutcomeInv == Told /\ InTurn /\ (Spotless => OthersRest /\ \A r \in Request : Outcome(r))

\* What is known around every step.
Around == /\ Before /\ UpdateInv' /\ WholeInv' /\ OutcomeInv
          /\ Spotless' => Spotless

LEMMA SpotlessIs ==
  ASSUME Around
  PROVE  /\ Spotless => Good /\ OthersRest /\ \A r \in Request : Outcome(r)
         /\ Spotless' => Spotless /\ Good'
<1>1. (Spotless => Clean) /\ (Spotless' => Clean')
  BY DEF Spotless, Clean
<1> QED BY <1>1 DEF Around, Before, WholeInv, OutcomeInv

\* A service that runs, runs the build that is installed.
LEMMA InstalledIs ==
  ASSUME Around, Spotless, service.pc # "off"
  PROVE  files = Installed(service.ver) /\ files["exe"] = files["libs"]
<1>1. files["exe"] = files["libs"] /\ service.ver = files["exe"]
  BY SpotlessIs DEF Good, FilesInv, Mixed, Around, OutcomeInv, Told
<1>2. files \in [Part -> Version]
  BY DEF Around, Before, UpdateInv, Types, RestOK
<1> QED BY <1>1, <1>2 DEF Installed, Part

LEMMA ToldStays ==
  ASSUME Told, ServiceOK, UNCHANGED files, \A r \in Request : Target(r)' = Target(r),
         \/ service'.pc = service.pc /\ service'.req = service.req /\ service'.ver = service.ver
         \/ service'.ver = service.ver /\ service.pc # "off" /\ service'.pc # "reporting"
         \/ service'.pc = "off"
         \/ service'.pc = "recover" /\ service'.ver = files["exe"]
  PROVE  Told'
<1>1. CASE service'.pc = service.pc /\ service'.req = service.req /\ service'.ver = service.ver
  <2>1. service.pc = "reporting" => service.req \in Request
    BY ReqIs DEF AtWork, Req
  <2> QED BY <1>1, <2>1 DEF Told, Target
<1> QED BY <1>1 DEF Told

\* The outcome of a request whose transaction stays, and of one whose transaction is open.
LEMMA OutcomeKept ==
  ASSUME NEW h \in Request, Outcome(h), Latest(h)' => Latest(h), UNCHANGED files,
         tx'[h].state = tx[h].state, tx'[h].backup = tx[h].backup, Target(h)' = Target(h),
         \/ helper'[h].pc = helper[h].pc
         \/ helper'[h].pc # "restored" /\ helper[h].pc \notin {"restore", "restored"},
         request'[h].status # "rollback_failed",
         request'[h].status = request[h].status \/ tx[h].state # "rollback_reported"
  PROVE  Outcome(h)'
BY DEF Outcome, Done

LEMMA OutcomeOpen ==
  ASSUME NEW h \in Request, tx'[h].state \notin Undoing \cup {"completed"},
         helper'[h].pc = "restored" => files' = tx'[h].backup, request'[h].status # "rollback_failed"
  PROVE  Outcome(h)'
BY DEF Outcome, Done, Undoing, Verdict

\* A step about one request: what it does to the others.
LEMMA OutcomeStep ==
  ASSUME Around, NEW h \in Request,
         \A r \in Request : r # h => /\ request'[r].status = request[r].status /\ helper'[r] = helper[r]
                                     /\ tx'[r].state = tx[r].state /\ tx'[r].backup = tx[r].backup,
         \A r \in Request : Target(r)' = Target(r),
         Asked(h)' <=> Asked(h), Act(h)' => Act(h),
         UNCHANGED files \/ helper[h].pc \in {"copy", "restore"},
         Told',
         Spotless' => Outcome(h)' /\ (Resting(h) /\ ~Act(h) => Resting(h)')
  PROVE  OutcomeInv'
<1>1. \A r \in Request : (Asked(r)' <=> Asked(r)) /\ (Act(r)' => Act(r)) /\ (Latest(r)' <=> Latest(r))
  BY DEF Asked, Act, Latest
<1>2. InTurn'
  BY <1>1 DEF Around, OutcomeInv, InTurn
<1>3. ASSUME Spotless' PROVE OthersRest' /\ \A r \in Request : Outcome(r)'
  <2>1. Good /\ OthersRest /\ \A r \in Request : Outcome(r)
    BY <1>3, SpotlessIs
  <2>2. \A r \in Request : r # h => (Resting(r)' <=> Resting(r))
    BY DEF Resting, Done
  <2>3. OthersRest'
    BY <1>1, <1>3, <2>1, <2>2 DEF OthersRest, Around, OutcomeInv, InTurn
  <2>4. ASSUME NEW r \in Request, r # h PROVE Outcome(r)'
    <3>1. request'[r].status # "rollback_failed"
      BY <2>1, <2>4 DEF Outcome
    <3>2. CASE UNCHANGED files
      BY <1>1, <2>1, <2>4, <3>1, <3>2, OutcomeKept
    <3>3. CASE helper[h].pc \in {"copy", "restore"}
      <4>1. Asked(h)
        BY <3>3 DEF Around, Before, UpdateInv, Row, Asked
      <4>2. ~Latest(r)
        <5>1. r < h \/ h < r
          BY <2>4 DEF Request
        <5>2. ~Resting(h)
          BY <3>3 DEF Resting
        <5> QED BY <2>1, <4>1, <5>1, <5>2 DEF Latest, OthersRest
      <4>3. helper'[r].pc # "restored"
        BY <2>1, <2>4, <3>3 DEF Good, OneWorking, Working
      <4>4. Outcome(r)
        BY <2>1
      <4> QED BY <1>1, <2>4, <4>2, <4>3, <4>4 DEF Outcome
    <3> QED BY <3>2, <3>3
  <2> QED BY <1>3, <2>3, <2>4
<1> QED BY <1>2, <1>3 DEF OutcomeInv

\* A step about the service only.
LEMMA OutcomeNone ==
  ASSUME Around, UNCHANGED <<request, tx, helper, files>>, Told'
  PROVE  OutcomeInv'
<1>1. InTurn'
  BY DEF Around, OutcomeInv, InTurn, Asked, Act
<1>2. ASSUME Spotless' PROVE OthersRest' /\ \A r \in Request : Outcome(r)'
  BY <1>2, SpotlessIs DEF OthersRest, Resting, Done, Outcome, Latest, Asked, Target
<1> QED BY <1>1, <1>2 DEF OutcomeInv

\* A request that is made finds the helpers of the others at rest.
LEMMA AskOutcome ==
  ASSUME Around, NEW r \in Request, NEW v \in Release, NEW retry \in BOOLEAN, Ask(r, v, retry)
  PROVE  OutcomeInv'
<1> DEFINE x == [status |-> "approved", target |-> v, from |-> beat.ver, retry |-> retry]
<1>1. /\ request[r].status = "none" /\ request' = [request EXCEPT ![r] = x]
      /\ \A q \in 1 .. r - 1 : request[q].status # "none"
      /\ \A q \in Request : ~Act(q) /\ helper[q].pc \notin {"launch", "mark", "rollback", "restore", "restored"}
      /\ UNCHANGED <<service, helper, tx, files, scars>>
  BY DEF Ask, diskVars, Settling, Act
<1>2. x.status = "approved"
  OBVIOUS
<1> HIDE DEF x
<1>3. request'[r].status = "approved" /\ \A q \in Request : q # r => request'[q] = request[q]
  BY <1>1, <1>2 DEF Around, Before, UpdateInv, Types, RequestsOK
<1>4. \A q \in Request : q < r => Asked(q) /\ Asked(q)'
  <2>1. \A q \in Request : q < r => q \in 1 .. r - 1 /\ q # r
    BY UpdateAssumption DEF Request
  <2> QED BY <1>1, <1>3, <2>1 DEF Asked
<1>5. Asked(r)' /\ ~Asked(r) /\ \A q \in Request : q # r => (Asked(q)' <=> Asked(q)) /\ ~Act(q)'
  BY <1>1, <1>3 DEF Asked, Act
<1>6. InTurn'
  <2>1. ASSUME NEW p \in Request, NEW q \in Request, p < q, Asked(q)' PROVE Asked(p)' /\ ~Act(p)'
    <3>1. CASE q = r
      BY <1>4, <1>5, <2>1, <3>1 DEF Request
    <3>2. CASE q # r
      BY <1>1, <1>5, <2>1, <3>2 DEF Around, OutcomeInv, InTurn
    <3> QED BY <3>1, <3>2
  <2> QED BY <2>1 DEF InTurn
<1>7. Told'
  <2>1. service.pc = "reporting" => service.req \in Request /\ Asked(service.req)
    BY ReqIs DEF Around, Before, UpdateInv, Types, AtWork, Req, Row, Asked
  <2> QED BY <1>1, <1>3, <1>5, <2>1 DEF Around, OutcomeInv, Told, Target
<1>8. ASSUME Spotless' PROVE OthersRest' /\ \A q \in Request : Outcome(q)'
  <2>1. Good /\ \A q \in Request : Outcome(q)
    BY <1>8, SpotlessIs
  <2>2. \A q \in Request : Resting(q)'
    <3>1. ASSUME NEW q \in Request PROVE Resting(q)
      <4>1. Helped(q) /\ ~Act(q) /\ helper[q].pc \in HelperSteps
        BY <1>1, <2>1 DEF Good, Around, Before, UpdateInv, Types, HelpersOK, HelperRow
      <4> QED BY <1>1, <4>1 DEF Helped, Resting, HelperSteps
    <3> QED BY <1>1, <3>1 DEF Resting, Done
  <2>3. ASSUME NEW q \in Request, q # r PROVE Outcome(q)'
    <3>1. request'[q].status = request[q].status /\ Target(q)' = Target(q) /\ (Latest(q)' => Latest(q))
      BY <1>3, <1>5, <2>3 DEF Target, Latest
    <3>2. request'[q].status # "rollback_failed"
      BY <2>1, <3>1 DEF Outcome
    <3> QED BY <1>1, <2>1, <3>1, <3>2, OutcomeKept
  <2>4. Outcome(r)'
    <3>1. tx[r].state = "none" /\ helper[r].pc = "none"
      BY <1>1 DEF Around, Before, UpdateInv, Row
    <3> QED BY <1>1, <1>3, <3>1, OutcomeOpen DEF Undoing, Verdict
  <2> QED BY <2>2, <2>3, <2>4 DEF OthersRest
<1> QED BY <1>6, <1>7, <1>8 DEF OutcomeInv

\* A new status, which is no failed rollback's, of a request without a verdict.
LEMMA StatusOutcome ==
  ASSUME Around, NEW h \in Request, UNCHANGED <<tx, helper, files>>,
         \A r \in Request : r # h => request'[r].status = request[r].status,
         \A r \in Request : Target(r)' = Target(r),
         Asked(h)' <=> Asked(h), Act(h)' => Act(h), Told',
         request'[h].status \in Verdict /\ Spotless' => request'[h].status = "rolled_back",
         request[h].status \notin Verdict \/ request'[h].status = request[h].status
  PROVE  OutcomeInv'
<1>1. ASSUME Spotless' PROVE Outcome(h)'
  <2>1. Outcome(h)
    BY <1>1, SpotlessIs
  <2>2. request'[h].status # "rollback_failed"
    BY <1>1 DEF Verdict
  <2>3. request'[h].status = request[h].status \/ tx[h].state # "rollback_reported"
    BY <2>1 DEF Outcome, Verdict
  <2>4. Latest(h)' => Latest(h)
    BY DEF Latest, Asked
  <2> QED BY <2>1, <2>2, <2>3, <2>4, OutcomeKept
<1>2. Resting(h)' <=> Resting(h)
  BY DEF Resting, Done
<1> QED BY <1>1, <1>2, OutcomeStep

LEMMA BackendOutcome ==
  ASSUME Around, (\E r \in Request : Cancel(r)) \/ (\E v \in Release : Revoke(v)) \/ Heartbeat \/ BeatExpires
  PROVE  OutcomeInv'
<1>1. ASSUME NEW h \in Request, Cancel(h) PROVE OutcomeInv'
  <2>1. request[h].status \in Cancellable /\ Set(h, "cancelled") /\ UNCHANGED <<tx, helper, files, service>>
    BY <1>1 DEF Cancel, diskVars
  <2>2. /\ request'[h].status = "cancelled" /\ \A q \in Request : Target(q)' = Target(q)
        /\ \A q \in Request : q # h => request'[q].status = request[q].status
    BY <2>1, SetIs DEF Around, Before, UpdateInv, Types, Status, Terminal, Cancellable, Claimable
  <2>3. Told'
    BY <2>1, <2>2, ToldStays DEF Around, Before, UpdateInv, Types, OutcomeInv
  <2>4. /\ Asked(h) /\ Asked(h)' /\ ~Act(h)' /\ request[h].status \notin Verdict
        /\ request'[h].status \notin Verdict
    BY <2>1, <2>2 DEF Asked, Act, Active, Cancellable, Claimable, Verdict
  <2> QED BY <2>1, <2>2, <2>3, <2>4, StatusOutcome
<1>2. CASE (\E v \in Release : Revoke(v)) \/ Heartbeat \/ BeatExpires
  <2>1. UNCHANGED <<request, tx, helper, files, service>>
    BY <1>2 DEF Revoke, Heartbeat, BeatExpires, diskVars
  <2>2. Told'
    BY <2>1, ToldStays DEF Around, Before, UpdateInv, Types, OutcomeInv, Target
  <2> QED BY <2>1, <2>2, OutcomeNone
<1> QED BY <1>1, <1>2

LEMMA RecoverOutcome ==
  ASSUME Around, NEW h \in Request, ReportRollback(h) \/ Resume(h) \/ Verify(h)
  PROVE  OutcomeInv'
<1> USE DEF Around, Before, UpdateInv, Types
<1>0. service.pc = "recover" /\ UNCHANGED files /\ Row(h)
  BY DEF ReportRollback, Resume, Verify, At, diskVars
<1>1. CASE ReportRollback(h)
  <2>1. tx[h].state \in Verdict /\ UNCHANGED helper
    BY <1>1 DEF ReportRollback, Undone, Verdict
  <2>2. helper[h].pc \in {"none", "start"} /\ request[h].status # "none"
    BY <1>0, <2>1 DEF Row, Verdict, Undoing
  <2>3. ASSUME Spotless' PROVE tx[h].state = "rolled_back" /\ Outcome(h)
    BY <2>1, <2>3, SpotlessIs DEF Outcome, Verdict
  <2>4. CASE request[h].status \in Verdict
    <3>1. Save(h, "rollback_reported") /\ UNCHANGED <<request, service>>
      BY <1>1, <2>4 DEF ReportRollback, Verdict
    <3>2. /\ tx'[h].state = "rollback_reported" /\ \A q \in Request : tx'[q].backup = tx[q].backup
          /\ \A q \in Request : q # h => tx'[q].state = tx[q].state
      BY <3>1, SaveIs DEF TxState
    <3>3. Told' /\ \A q \in Request : Target(q)' = Target(q)
      BY <1>0, <3>1, ToldStays DEF OutcomeInv, Target
    <3>4. ASSUME Spotless' PROVE Outcome(h)'
      <4>1. request[h].status = "rolled_back"
        BY <2>3, <2>4, <3>4 DEF Outcome, Verdict
      <4>2. Latest(h)' => Latest(h)
        BY <3>1 DEF Latest, Asked
      <4>3. helper'[h].pc # "restored"
        BY <2>1, <2>2
      <4>4. Latest(h)' => files' = tx'[h].backup
        BY <1>0, <2>3, <3>2, <3>4, <4>2 DEF Outcome
      <4> QED BY <3>1, <3>2, <4>1, <4>3, <4>4 DEF Outcome, Done
    <3>5. Resting(h)'
      BY <2>1, <2>2 DEF Resting
    <3> QED BY <1>0, <2>1, <3>1, <3>2, <3>3, <3>4, <3>5, OutcomeStep DEF Asked, Act
  <2>5. CASE request[h].status \notin Verdict
    <3>1. (UNCHANGED request \/ Set(h, tx[h].state)) /\ Goto("poll", 0) /\ UNCHANGED tx
      BY <1>1, <2>5 DEF ReportRollback, Verdict, Deferred
    <3>2. service'.pc = "poll" /\ service'.ver = service.ver
      BY <3>1, TurnsToNone
    <3>3. CASE UNCHANGED request
      <4>1. Told'
        BY <1>0, <3>2, <3>3, ToldStays DEF OutcomeInv, Target
      <4> QED BY <1>0, <2>1, <3>1, <3>3, <4>1, OutcomeNone
    <3>4. CASE Set(h, tx[h].state)
      <4>1. /\ request'[h].status = tx[h].state /\ \A q \in Request : Target(q)' = Target(q)
            /\ \A q \in Request : q # h => request'[q].status = request[q].status
        BY <2>1, <2>2, <3>4, SetIs DEF Status, Terminal, Verdict
      <4>2. Told'
        BY <1>0, <3>2, <4>1, ToldStays DEF OutcomeInv
      <4>3. Asked(h) /\ Asked(h)' /\ ~Act(h)'
        BY <2>1, <2>2, <4>1 DEF Asked, Act, Active, Cancellable, Claimable, Verdict
      <4> QED BY <1>0, <2>1, <2>3, <2>5, <3>1, <4>1, <4>2, <4>3, StatusOutcome
    <3> QED BY <3>1, <3>3, <3>4
  <2> QED BY <2>4, <2>5
<1>2. CASE Resume(h)
  <2>1. Goto("relaunching", h) /\ UNCHANGED <<request, tx, helper>>
    BY <1>2 DEF Resume, backendVars, diskVars
  <2>2. service'.pc = "relaunching" /\ service'.ver = service.ver
    BY <2>1, TurnsTo DEF AtWork
  <2>3. Told'
    BY <1>0, <2>1, <2>2, ToldStays DEF OutcomeInv, Target
  <2> QED BY <1>0, <2>1, <2>3, OutcomeNone
<1>3. CASE Verify(h)
  <2>1. /\ Live(h) /\ Save(h, "verifying_health") /\ Progress(h, "verifying_health")
        /\ Goto("reporting", h) /\ UNCHANGED helper /\ Target(h) = service.ver
    BY <1>3 DEF Verify, InPlace, Pending, Undone, Live
  <2>2. /\ tx'[h].state = "verifying_health" /\ \A q \in Request : tx'[q].backup = tx[q].backup
        /\ \A q \in Request : q # h => tx'[q].state = tx[q].state
    BY <2>1, SaveIs DEF TxState
  <2>3. /\ \A q \in Request : Target(q)' = Target(q)
        /\ \A q \in Request : q # h => request'[q].status = request[q].status
        /\ \/ request[h].status \in Active /\ request'[h].status \in Active
           \/ request'[h].status = request[h].status
    BY <2>1, ProgressIs DEF Active
  <2>4. (Asked(h)' <=> Asked(h)) /\ (Act(h)' => Act(h))
    BY <2>3 DEF Asked, Act, Active, Cancellable, Claimable
  <2>5. Told'
    <3>1. service'.pc = "reporting" /\ service'.req = h /\ service'.ver = service.ver
      BY <2>1, TurnsTo DEF AtWork
    <3>2. Target(service.req)' = service.ver
      BY <2>1, <2>3, <3>1 DEF Target
    <3>3. service.ver = files["exe"]
      BY <1>0 DEF OutcomeInv, Told
    <3> QED BY <1>0, <3>1, <3>2, <3>3 DEF Told
  <2>6. ASSUME Spotless' PROVE Outcome(h)'
    <3>1. request'[h].status # "rollback_failed" /\ (helper[h].pc = "restored" => files = tx[h].backup)
      BY <2>3, <2>6, SpotlessIs DEF Outcome, Active, Cancellable, Claimable
    <3> QED BY <1>0, <2>1, <2>2, <3>1, OutcomeOpen DEF Undoing, Verdict
  <2>7. Resting(h) => Resting(h)'
    BY <2>1 DEF Resting, Done, Live
  <2> QED BY <1>0, <2>1, <2>2, <2>3, <2>4, <2>5, <2>6, <2>7, OutcomeStep
<1> QED BY <1>1, <1>2, <1>3

\* A transaction that is under way again says nothing of an outcome.
LEMMA RelaunchOutcome ==
  ASSUME Around, NEW h \in Request, Relaunch(h)
  PROVE  OutcomeInv'
<1> USE DEF Around, Before, UpdateInv, Types
<1>1. /\ service.pc = "relaunching" /\ service.req = h /\ Save(h, "restarting") /\ UNCHANGED <<request, files>>
      /\ \/ /\ helper[h].pc = "none" /\ helper' = [helper EXCEPT ![h] = [pc |-> "start", left |-> Part]]
            /\ Goto("stopping", 0)
         \/ UNCHANGED helper /\ Goto("poll", 0)
  BY DEF Relaunch, At, Req, backendVars, Deferred
<1>2. /\ tx'[h].state = "restarting" /\ \A q \in Request : tx'[q].backup = tx[q].backup
      /\ \A q \in Request : q # h => tx'[q].state = tx[q].state
  BY <1>1, SaveIs DEF TxState
<1>3. /\ \A q \in Request : q # h => helper'[q] = helper[q]
      /\ helper'[h].pc = helper[h].pc \/ helper'[h].pc = "start"
  <2>1. CASE helper' = [helper EXCEPT ![h] = [pc |-> "start", left |-> Part]]
    BY <2>1, HelperIs DEF HelperTo, HelperSteps
  <2> QED BY <1>1, <2>1
<1>4. service'.pc \in {"stopping", "poll"} /\ service'.ver = service.ver
  BY <1>1, TurnsToNone
<1>5. Told' /\ \A q \in Request : Target(q)' = Target(q)
  BY <1>1, <1>4, ToldStays DEF OutcomeInv, Target
<1>6. ASSUME Spotless' PROVE Outcome(h)'
  <2>1. request'[h].status # "rollback_failed" /\ (helper[h].pc = "restored" => files = tx[h].backup)
    BY <1>1, <1>6, SpotlessIs DEF Outcome
  <2> QED BY <1>1, <1>2, <1>3, <2>1, OutcomeOpen DEF Undoing, Verdict
<1>7. Resting(h) => Resting(h)'
  BY <1>1, <1>3 DEF Resting, Done, Row
<1> QED BY <1>1, <1>2, <1>3, <1>5, <1>6, <1>7, OutcomeStep DEF Asked, Act

\* The verdict is asked for by the build that is installed.
LEMMA CompleteOutcome ==
  ASSUME Around, Complete \/ NotComplete
  PROVE  OutcomeInv'
<1> USE DEF Around, Before, UpdateInv, Types
<1>0. PICK h \in Request : /\ h = Req /\ service.req = h /\ service.pc = "reporting"
                           /\ request[h].status \notin Verdict \cup {"none"}
  <2>1. service.pc = "reporting" /\ Req \in Request
    BY ReqIs DEF Complete, NotComplete, At, AtWork
  <2> QED BY <2>1, NoRequestZero DEF Req, Row
<1>1. service'.pc \in {"recover", "poll"} /\ service'.ver = service.ver /\ UNCHANGED <<helper, files>>
  BY <1>0, TurnsToNone DEF Complete, NotComplete, Deferred, diskVars
<1>2. CASE UNCHANGED <<request, tx>>
  <2>1. Told'
    BY <1>0, <1>1, <1>2, ToldStays DEF OutcomeInv, Target
  <2> QED BY <1>1, <1>2, <2>1, OutcomeNone
<1>3. ASSUME Set(h, "completed")
      PROVE  /\ request'[h].status = "completed" /\ ~Act(h)' /\ Asked(h) /\ Asked(h)' /\ Told'
             /\ \A q \in Request : Target(q)' = Target(q)
             /\ \A q \in Request : q # h => request'[q].status = request[q].status
  <2>1. /\ request'[h].status = "completed" /\ \A q \in Request : Target(q)' = Target(q)
        /\ \A q \in Request : q # h => request'[q].status = request[q].status
    BY <1>0, <1>3, SetIs DEF Status, Terminal
  <2>2. ~Act(h)' /\ Asked(h) /\ Asked(h)'
    BY <1>0, <2>1 DEF Act, Asked, Active, Cancellable, Claimable
  <2>3. Told'
    BY <1>0, <1>1, <2>1, ToldStays DEF OutcomeInv
  <2> QED BY <2>1, <2>2, <2>3
<1>4. CASE Set(h, "completed") /\ UNCHANGED tx
  BY <1>0, <1>1, <1>3, <1>4, StatusOutcome DEF Verdict
<1>5. CASE Set(h, "completed") /\ Save(h, "completed")
  <2>1. /\ tx'[h].state = "completed" /\ \A q \in Request : tx'[q].backup = tx[q].backup
        /\ \A q \in Request : q # h => tx'[q].state = tx[q].state
    BY <1>5, SaveIs DEF TxState
  <2>2. ASSUME Spotless' PROVE Outcome(h)'
    <3>1. files' = Installed(Target(h)')
      <4>1. service.ver = Target(h)
        BY <1>0 DEF OutcomeInv, Told
      <4>2. files = Installed(service.ver)
        BY <1>0, <2>2, SpotlessIs, InstalledIs
      <4> QED BY <1>1, <1>3, <1>5, <4>1, <4>2
    <3>2. helper[h].pc = "restored" => files = tx[h].backup
      BY <2>2, SpotlessIs DEF Outcome
    <3>3. helper'[h].pc = "restored" => files' = tx'[h].backup
      BY <1>1, <2>1, <3>2
    <3>4. Installed(Target(h)') = Installed(Target(h))'
      BY DEF Installed
    <3> QED BY <1>3, <1>5, <2>1, <3>1, <3>3, <3>4 DEF Outcome
  <2>3. Resting(h) => Resting(h)'
    BY <1>1, <2>1 DEF Resting, Done
  <2> QED BY <1>0, <1>1, <1>3, <1>5, <2>1, <2>2, <2>3, OutcomeStep
<1> QED BY <1>0, <1>2, <1>4, <1>5 DEF Complete, NotComplete, diskVars

\* A preparation that reports, or fails, and touches nothing else.
LEMMA PreparesOutcome ==
  ASSUME Around, NEW r \in Request, UNCHANGED <<tx, helper, files>>, service.pc # "off",
         request[r].status \notin Verdict \cup {"none"},
         service'.ver = service.ver, service'.pc # "reporting",
         (Set(r, "failed") \/ UNCHANGED request) \/ \E s \in Active : Progress(r, s)
  PROVE  OutcomeInv'
<1> USE DEF Around, Before, UpdateInv, Types
<1>1. /\ request'[r].status = "failed" \/ request'[r].status = request[r].status
         \/ (Act(r) /\ request'[r].status \in Active)
      /\ \A q \in Request : q # r => request'[q].status = request[q].status
      /\ \A q \in Request : Target(q)' = Target(q)
  <2>1. CASE Set(r, "failed")
    BY <2>1, SetIs DEF Status, Terminal
  <2>2. CASE \E s \in Active : Progress(r, s)
    BY <2>2, ProgressIs DEF Act
  <2> QED BY <2>1, <2>2 DEF Target
<1>2. /\ Asked(r)' <=> Asked(r)
      /\ Act(r)' => Act(r)
      /\ request[r].status \notin Verdict /\ request'[r].status \notin Verdict
  BY <1>1 DEF Asked, Act, Active, Cancellable, Claimable, Verdict
<1>3. Told'
  BY <1>1, ToldStays DEF OutcomeInv
<1> QED BY <1>1, <1>2, <1>3, StatusOutcome

LEMMA PollOutcome ==
  ASSUME Around,
         \/ RecoverEnds \/ GetsBusy \/ GetsFree \/ NothingToDo \/ ServiceStops
         \/ \E r \in Request : Claim(r) \/ Prepare(r)
  PROVE  OutcomeInv'
<1> USE DEF Around, Before, UpdateInv, Types
<1>1. CASE RecoverEnds \/ GetsBusy \/ GetsFree \/ NothingToDo \/ ServiceStops
  <2>1. UNCHANGED <<request, tx, helper, files>>
    BY <1>1 DEF RecoverEnds, GetsBusy, GetsFree, NothingToDo, ServiceStops, backendVars, diskVars
  <2>2. \/ service'.ver = service.ver /\ service.pc # "off" /\ service'.pc # "reporting"
        \/ service'.pc = "off"
        \/ service'.pc = service.pc /\ service'.req = service.req /\ service'.ver = service.ver
    <3>1. CASE ServiceStops
      BY <3>1 DEF ServiceStops, At, ServiceOK, Service
    <3>2. CASE RecoverEnds \/ NothingToDo
      BY <3>2, TurnsToNone DEF RecoverEnds, NothingToDo, At
    <3>3. CASE GetsBusy \/ GetsFree
      BY <3>3, BusyIs
    <3> QED BY <1>1, <3>1, <3>2, <3>3
  <2>3. Told'
    BY <2>1, <2>2, ToldStays DEF OutcomeInv, Target
  <2> QED BY <2>1, <2>3, OutcomeNone
<1>2. ASSUME NEW r \in Request, Claim(r) PROVE OutcomeInv'
  <2> DEFINE x == [request[r] EXCEPT !.status = "claimed", !.from = service.ver]
  <2>1. /\ service.pc = "poll" /\ request[r].status = "approved" /\ Goto("recover", 0)
        /\ UNCHANGED <<tx, helper, files>> /\ request' = [request EXCEPT ![r] = x]
    BY <1>2 DEF Claim, At, diskVars
  <2>2. x.status = "claimed" /\ x.target = request[r].target
    BY DEF RequestsOK, RequestRow
  <2> HIDE DEF x
  <2>3. /\ request'[r].status = "claimed" /\ \A q \in Request : Target(q)' = Target(q)
        /\ \A q \in Request : q # r => request'[q].status = request[q].status
    BY <2>1, <2>2 DEF RequestsOK, Target
  <2>4. Act(r) /\ Asked(r) /\ Asked(r)' /\ request[r].status \notin Verdict /\ request'[r].status \notin Verdict
    BY <2>1, <2>3 DEF Act, Asked, Active, Cancellable, Verdict
  <2>5. Told'
    BY <2>1, <2>3, TurnsToNone, ToldStays DEF OutcomeInv
  <2> QED BY <2>1, <2>3, <2>4, <2>5, StatusOutcome
<1>3. ASSUME NEW r \in Request, Prepare(r) PROVE OutcomeInv'
  <2>1. /\ service.pc = "poll" /\ request[r].status \in Claimable /\ UNCHANGED <<tx, helper, files>>
        /\ Fails(r) \/ (Progress(r, "verifying") /\ Goto("verified", r))
    BY <1>3 DEF Prepare, At
  <2>2. Act(r) /\ Asked(r) /\ request[r].status \notin Verdict \cup {"none"}
    BY <2>1 DEF Act, Asked, Active, Cancellable, Claimable, Verdict
  <2>3. /\ service'.ver = service.ver /\ service'.pc # "reporting"
        /\ (Set(r, "failed") \/ UNCHANGED request) \/ Progress(r, "verifying")
    BY <2>1, TurnsTo, TurnsToNone DEF Fails, AtWork
  <2> QED BY <2>1, <2>2, <2>3, PreparesOutcome DEF Active, Cancellable, Claimable
<1> QED BY <1>1, <1>2, <1>3

LEMMA PrepareOutcome ==
  ASSUME Around, Download \/ Stage \/ WindowClosed \/ Install \/ Leave \/ PrepareFails
  PROVE  OutcomeInv'
<1> USE DEF Around, Before, UpdateInv, Types
<1>0. PICK r \in Request : /\ r = Req /\ service.req = r /\ service.pc \in Preparing
                           /\ request[r].status \notin Verdict \cup {"completed", "none"}
  <2>1. service.pc \in Preparing /\ service.pc \in AtWork
    BY DEF Download, Stage, WindowClosed, Staged, Install, Leave, PrepareFails, At, Preparing, AtWork
  <2>2. Req \in Request /\ Row(Req)
    BY <2>1, ReqIs
  <2> QED BY <2>1, <2>2 DEF Req, Row
<1>1. service.pc \notin {"off", "reporting"} /\ UNCHANGED files
  BY <1>0 DEF Preparing, Download, Stage, WindowClosed, Install, Leave, PrepareFails, diskVars
<1>2. ~Done(r)
  BY <1>0 DEF WholeInv, DoneEnded
<1>3. CASE Download \/ WindowClosed \/ PrepareFails
  <2>1. /\ UNCHANGED <<tx, helper>> /\ service'.ver = service.ver /\ service'.pc # "reporting"
        /\ (Set(r, "failed") \/ UNCHANGED request) \/ \E s \in Active : Progress(r, s)
    <3>1. CASE Download
      BY <1>0, <3>1, TurnsTo, TurnsToNone DEF Download, Fails, AtWork, Active, Cancellable, Claimable
    <3>2. CASE WindowClosed \/ PrepareFails
      BY <1>0, <3>2, TurnsToNone DEF WindowClosed, PrepareFails, diskVars, Active, Cancellable, Claimable
    <3> QED BY <1>3, <3>1, <3>2
  <2> QED BY <1>0, <1>1, <2>1, PreparesOutcome
<1>4. CASE Stage \/ Install \/ Leave
  <2>1. /\ \A q \in Request : q # r => request'[q].status = request[q].status
        /\ \A q \in Request : Target(q)' = Target(q)
        /\ \/ Act(r) /\ request'[r].status \in Active
           \/ request'[r].status = request[r].status
    <3>1. CASE UNCHANGED request
      BY <3>1 DEF Target
    <3>2. CASE \E s \in Active : Progress(r, s)
      BY <3>2, ProgressIs DEF Act
    <3> QED BY <1>0, <1>4, <3>1, <3>2 DEF Stage, Install, Leave, backendVars, Active, Cancellable, Claimable
  <2>2. (Asked(r)' <=> Asked(r)) /\ (Act(r)' => Act(r))
    BY <2>1 DEF Asked, Act, Active, Cancellable, Claimable
  <2>3. Told'
    BY <1>0, <1>1, <1>4, <2>1, TurnsTo, TurnsToNone, ToldStays DEF Stage, Install, Leave, OutcomeInv, AtWork
  <2>4. ASSUME Spotless'
        PROVE  helper[r].pc = "none" /\ Outcome(r) /\ request'[r].status # "rollback_failed"
    <3>1. ~Working(r) /\ Outcome(r)
      BY <1>0, <2>4, SpotlessIs, PreparingAlone
    <3> QED BY <1>0, <1>2, <2>1, <3>1 DEF Working, Verdict, Active, Cancellable, Claimable
  <2>5. CASE Stage \/ Install
    <3>1. /\ UNCHANGED helper
          /\ tx'[r].state \in {"staged", "restarting"}
          /\ \A q \in Request : q # r => tx'[q].state = tx[q].state /\ tx'[q].backup = tx[q].backup
      <4>1. CASE Stage
        <5> DEFINE x == [state |-> "staged", from |-> service.ver, backup |-> files]
        <5>1. tx' = [tx EXCEPT ![r] = x] /\ UNCHANGED helper
          BY <1>0, <4>1 DEF Stage
        <5>2. x.state = "staged"
          OBVIOUS
        <5> HIDE DEF x
        <5> QED BY <5>1, <5>2 DEF TxOK
      <4>2. CASE Install
        <5>1. Save(r, "restarting") /\ UNCHANGED helper
          BY <1>0, <4>2 DEF Install
        <5> QED BY <5>1, SaveIs DEF TxState
      <4> QED BY <2>5, <4>1, <4>2
    <3>2. ASSUME Spotless' PROVE Outcome(r)' /\ Resting(r)'
      BY <2>4, <3>1, <3>2, OutcomeOpen DEF Undoing, Verdict, Resting
    <3> QED BY <1>1, <2>1, <2>2, <2>3, <3>1, <3>2, OutcomeStep
  <2>6. CASE Leave
    <3>1. UNCHANGED tx /\ HelperTo(r, "start", Part)
      BY <1>0, <2>6 DEF Leave, diskVars, HelperTo
    <3>2. helper'[r].pc = "start" /\ \A q \in Request : q # r => helper'[q] = helper[q]
      BY <3>1, HelperIs DEF HelperSteps
    <3>3. ASSUME Spotless' PROVE Outcome(r)' /\ Resting(r)'
      <4>1. /\ Latest(r)' => Latest(r)
            /\ request'[r].status = request[r].status \/ tx[r].state # "rollback_reported"
        BY <1>0, <2>1, <2>2, <2>4, <3>3 DEF Latest, Asked, Outcome, Act, Active, Cancellable, Claimable
      <4> QED BY <1>1, <2>1, <2>4, <3>1, <3>2, <3>3, <4>1, OutcomeKept DEF Resting
    <3> QED BY <1>1, <2>1, <2>2, <2>3, <3>1, <3>2, <3>3, OutcomeStep
  <2> QED BY <1>4, <2>5, <2>6
<1> QED BY <1>3, <1>4, <1>0 DEF Download

\* A step of a helper.
LEMMA HelperOutcome ==
  ASSUME Around, UNCHANGED request, NEW h \in Request, OthersSame(h),
         UNCHANGED files \/ (helper[h].pc \in {"copy", "restore"} /\ service'.pc = "off"),
         UNCHANGED service \/ service'.pc = "off" \/ (Running(files["exe"]) /\ UNCHANGED files),
         Spotless' => Outcome(h)' /\ (Resting(h) /\ ~Act(h) => Resting(h)')
  PROVE  OutcomeInv'
<1>1. \A r \in Request : Target(r)' = Target(r)
  BY DEF Target
<1>2. Told'
  <2>1. CASE service'.pc = "off"
    BY <2>1 DEF Told
  <2>2. CASE UNCHANGED files /\ UNCHANGED service
    BY <1>1, <2>2, ToldStays DEF Around, Before, UpdateInv, Types, OutcomeInv
  <2>3. CASE UNCHANGED files /\ Running(files["exe"])
    BY <2>3 DEF Told, Running
  <2> QED BY <2>1, <2>2, <2>3
<1> QED BY <1>1, <1>2, OutcomeStep DEF OthersSame, Asked, Act

\* The helper replaces the files, starts the new build and watches it.
LEMMA ReplaceOutcome ==
  ASSUME Around, NEW h \in Request,
         \/ HelperStarts(h) \/ ServiceGone(h) \/ Copied(h) \/ StartService(h) \/ Mark(h) \/ Watch(h)
         \/ HelperFails(h) \/ \E p \in Part : CopyPart(h, p)
  PROVE  OutcomeInv'
<1> USE DEF Around, Before, UpdateInv
<1>0. /\ UNCHANGED request /\ helper[h].left \subseteq Part
      /\ Spotless' => Helped(h) /\ Outcome(h) /\ request'[h].status # "rollback_failed"
  BY SpotlessIs DEF HelperStarts, ServiceGone, Copied, StartService, Mark, Watch, HelperFails, CopyPart, backendVars,
         Types, HelpersOK, HelperRow, Good, Outcome
<1>1. CASE HelperStarts(h)
  <2>1. /\ helper[h].pc = "start" /\ UNCHANGED <<tx, service, files>> /\ (Spotless' => Act(h))
        /\ HelperTo(h, "wait", Part) \/ HelperTo(h, "none", {})
    BY <1>1 DEF HelperStarts, HelperAt, diskVars, Spotless, Act
  <2>2. OthersSame(h) /\ helper'[h].pc \in {"wait", "none"}
    BY <2>1, HelperAlone DEF HelperSteps
  <2>3. ASSUME Spotless' PROVE Outcome(h)'
    <3>1. Latest(h)' => Latest(h)
      BY <1>0 DEF Latest, Asked
    <3> QED BY <1>0, <2>1, <2>2, <2>3, <3>1, OutcomeKept DEF Target
  <2> QED BY <1>0, <2>1, <2>2, <2>3, HelperOutcome
<1>2. CASE ServiceGone(h) \/ Copied(h) \/ Mark(h)
  <2>1. /\ helper[h].pc \in {"wait", "copy", "mark"} /\ UNCHANGED <<service, files>>
        /\ \E s \in {"service_stopped", "files_replaced", "verifying_health"} : Save(h, s)
        /\ HelperTo(h, "copy", Part) \/ HelperTo(h, "launch", {}) \/ HelperTo(h, "watch", {})
    BY <1>2 DEF ServiceGone, Copied, Mark, HelperAt
  <2>2. OthersSame(h) /\ helper'[h].pc # "restored"
    BY <2>1, HelperAlone DEF HelperSteps, TxState
  <2>3. tx'[h].state \notin Undoing \cup {"completed"}
    BY <2>1, SaveIs DEF Types, TxState, Undoing, Verdict
  <2>4. ASSUME Spotless' PROVE Outcome(h)'
    BY <1>0, <2>2, <2>3, <2>4, OutcomeOpen
  <2> QED BY <1>0, <2>1, <2>2, <2>4, HelperOutcome DEF Resting
<1>3. ASSUME NEW p \in Part, CopyPart(h, p) PROVE OutcomeInv'
  <2>1. /\ helper[h].pc = "copy" /\ service.pc = "off" /\ UNCHANGED <<service, tx>>
        /\ HelperTo(h, "copy", helper[h].left \ {p})
    BY <1>3 DEF CopyPart, HelperAt
  <2>2. OthersSame(h) /\ helper'[h].pc = "copy"
    BY <1>0, <2>1, HelperAlone DEF HelperSteps
  <2>3. ASSUME Spotless' PROVE Outcome(h)'
    BY <1>0, <2>1, <2>2, <2>3, OutcomeOpen DEF Helped, Live, Undoing, Verdict
  <2> QED BY <1>0, <2>1, <2>2, <2>3, HelperOutcome DEF Resting
<1>4. CASE StartService(h) \/ HelperFails(h)
  <2>1. /\ helper[h].pc \in {"wait", "copy", "launch"} /\ UNCHANGED <<tx, files>>
        /\ HelperTo(h, "mark", {}) \/ HelperTo(h, "rollback", Part)
        /\ UNCHANGED service \/ Running(files["exe"])
    BY <1>4 DEF StartService, HelperFails, BackOut, HelperAt, diskVars
  <2>2. OthersSame(h) /\ helper'[h].pc # "restored"
    BY <2>1, HelperAlone DEF HelperSteps
  <2>3. ASSUME Spotless' PROVE Outcome(h)'
    BY <1>0, <2>1, <2>2, <2>3, OutcomeOpen DEF Helped, Live, Undoing, Verdict
  <2> QED BY <1>0, <2>1, <2>2, <2>3, HelperOutcome DEF Resting
<1>5. CASE Watch(h)
  <2>1. /\ helper[h].pc = "watch" /\ UNCHANGED <<tx, service, files>>
        /\ \/ Done(h) /\ HelperTo(h, "none", {})
           \/ ~Done(h) /\ HelperTo(h, "rollback", Part)
    BY <1>5 DEF Watch, HelperAt, BackOut, Done, diskVars
  <2>2. /\ OthersSame(h)
        /\ \/ Done(h) /\ helper'[h].pc = "none"
           \/ ~Done(h) /\ helper'[h].pc = "rollback"
    BY <2>1, HelperAlone DEF HelperSteps
  <2>3. ASSUME Spotless' PROVE Outcome(h)'
    <3>1. CASE Done(h)
      <4>1. Latest(h)' => Latest(h)
        BY <1>0 DEF Latest, Asked
      <4> QED BY <1>0, <2>1, <2>2, <2>3, <3>1, <4>1, OutcomeKept DEF Target
    <3>2. CASE ~Done(h)
      BY <1>0, <2>1, <2>2, <2>3, <3>2, OutcomeOpen DEF Helped, Live, Undoing, Verdict
    <3> QED BY <3>1, <3>2
  <2>4. Resting(h) => Resting(h)'
    BY <2>1, <2>2 DEF Resting
  <2> QED BY <1>0, <2>1, <2>2, <2>3, <2>4, HelperOutcome
<1> QED BY <1>1, <1>2, <1>3, <1>4, <1>5

\* The helper takes the update back: what its transaction says then is what it has restored.
LEMMA RestoreOutcome ==
  ASSUME Around, NEW h \in Request,
         \/ StopService(h) \/ StartPrevious(h) \/ RolledBack(h) \/ RollbackFails(h)
         \/ \E p \in Part : RestorePart(h, p)
  PROVE  OutcomeInv'
<1> USE DEF Around, Before, UpdateInv
<1>0. /\ UNCHANGED request /\ helper[h].left \subseteq Part
      /\ Spotless' => Helped(h) /\ Outcome(h) /\ request'[h].status # "rollback_failed"
  BY SpotlessIs DEF StopService, StartPrevious, RolledBack, RollbackFails, RestorePart, Ends, backendVars,
         Types, HelpersOK, HelperRow, Good, Outcome
<1>1. ASSUME StopService(h) \/ \E p \in Part : RestorePart(h, p) PROVE OutcomeInv'
  <2>1. /\ helper[h].pc \in {"rollback", "restore"} /\ UNCHANGED tx /\ service'.pc = "off"
        /\ \E left \in SUBSET Part : HelperTo(h, "restore", left)
        /\ UNCHANGED files \/ helper[h].pc = "restore"
    <3>1. CASE StopService(h)
      BY <3>1 DEF StopService, HelperAt, diskVars, Types, ServiceOK, Service
    <3>2. ASSUME NEW p \in Part, RestorePart(h, p)
          PROVE  /\ helper[h].pc = "restore" /\ UNCHANGED tx /\ service'.pc = "off"
                 /\ HelperTo(h, "restore", helper[h].left \ {p})
      BY <3>2 DEF RestorePart, HelperAt
    <3>3. \A p \in Part : helper[h].left \ {p} \in SUBSET Part
      BY <1>0
    <3> QED BY <1>1, <3>1, <3>2, <3>3
  <2>2. OthersSame(h) /\ helper'[h].pc = "restore"
    <3>1. PICK left \in SUBSET Part : HelperTo(h, "restore", left)
      BY <2>1
    <3> QED BY <2>1, <3>1, HelperAlone DEF HelperSteps
  <2>3. ASSUME Spotless' PROVE Outcome(h)'
    <3>1. tx'[h].state = tx[h].state /\ (Live(h) \/ Done(h))
      BY <1>0, <2>1, <2>3 DEF Helped
    <3>2. tx'[h].state \notin Undoing
      BY <3>1 DEF Live, Done, Undoing, Verdict
    <3> QED BY <1>0, <2>2, <2>3, <3>2 DEF Outcome, Undoing, Verdict
  <2> QED BY <1>0, <2>1, <2>2, <2>3, HelperOutcome DEF Resting
<1>2. CASE StartPrevious(h)
  <2>1. /\ helper[h].pc = "restore" /\ helper[h].left = {} /\ UNCHANGED <<tx, files>>
        /\ HelperTo(h, "restored", {}) /\ (UNCHANGED service \/ Running(files["exe"]))
    BY <1>2 DEF StartPrevious, HelperAt, diskVars
  <2>2. OthersSame(h) /\ helper'[h].pc = "restored"
    BY <2>1, HelperAlone DEF HelperSteps
  <2>3. ASSUME Spotless' PROVE Outcome(h)'
    <3>1. /\ \A p \in Part : files[p] = tx[h].backup[p]
          /\ Live(h) \/ Done(h)
      BY <1>0, <2>1, <2>3 DEF Helped
    <3>2. files = tx[h].backup
      BY <3>1 DEF Types, RestOK, TxOK, TxRow
    <3>3. tx'[h].state = tx[h].state /\ tx[h].state \notin Undoing /\ tx'[h].backup = tx[h].backup
      BY <2>1, <3>1 DEF Live, Done, Undoing, Verdict
    <3> QED BY <1>0, <2>1, <2>2, <2>3, <3>2, <3>3 DEF Outcome, Undoing, Verdict
  <2> QED BY <1>0, <2>1, <2>2, <2>3, HelperOutcome DEF Resting
<1>3. CASE RolledBack(h)
  <2>1. /\ helper[h].pc = "restored" /\ UNCHANGED <<service, files>> /\ Save(h, "rolled_back")
        /\ HelperTo(h, "none", {})
    BY <1>3 DEF RolledBack, Ends, HelperAt
  <2>2. OthersSame(h) /\ helper'[h].pc = "none" /\ tx'[h].state = "rolled_back"
    BY <2>1, HelperAlone, SaveIs DEF HelperSteps, TxState, Types
  <2>3. ASSUME Spotless' PROVE Outcome(h)'
    <3>1. files = tx[h].backup
      BY <1>0, <2>1, <2>3 DEF Outcome
    <3> QED BY <1>0, <2>1, <2>2, <2>3, <3>1 DEF Outcome, Done, OthersSame
  <2> QED BY <1>0, <2>1, <2>2, <2>3, HelperOutcome DEF Resting
<1>4. CASE RollbackFails(h)
  <2>1. /\ UNCHANGED <<service, files>> /\ Save(h, "rollback_failed") /\ HelperTo(h, "none", {})
        /\ ~Spotless'
    BY <1>4 DEF RollbackFails, Ends, Spotless
  <2>2. OthersSame(h)
    BY <2>1, HelperAlone DEF HelperSteps, TxState
  <2> QED BY <1>0, <2>1, <2>2, HelperOutcome
<1> QED BY <1>1, <1>2, <1>3, <1>4

\* The machine restarts, or starts the service: with a helper at work, it leaves a trace.
LEMMA MachineOutcome ==
  ASSUME Around, Reboot \/ Boot
  PROVE  OutcomeInv'
<1>1. /\ UNCHANGED <<request, tx, files>> /\ service'.pc = "recover" /\ service'.ver = files["exe"]
      /\ \A r \in Request : helper'[r].pc = "none"
      /\ Spotless' => \A r \in Request : helper[r].pc \notin {"restore", "restored"}
  BY DEF Reboot, Boot, Running, NoHelper, backendVars, diskVars, Spotless
<1>2. Told'
  BY <1>1 DEF Told
<1>3. InTurn'
  BY <1>1 DEF Around, OutcomeInv, InTurn, Asked, Act
<1>4. ASSUME Spotless' PROVE OthersRest' /\ \A r \in Request : Outcome(r)'
  <2>1. \A r \in Request : Outcome(r)
    BY <1>4, SpotlessIs
  <2>2. ASSUME NEW r \in Request PROVE Outcome(r)'
    <3>1. Outcome(r) /\ request'[r].status # "rollback_failed" /\ (Latest(r)' => Latest(r))
      BY <1>1, <2>1 DEF Outcome, Latest, Asked
    <3> QED BY <1>1, <1>4, <3>1, OutcomeKept DEF Target
  <2> QED BY <1>1, <2>2 DEF OthersRest, Resting
<1> QED BY <1>2, <1>3, <1>4 DEF OutcomeInv

LEMMA OutcomeNext ==
  ASSUME UpdateInv, WholeInv, OutcomeInv, AllKeep, UpdateInv', WholeInv', [Next]_updateVars
  PROVE  OutcomeInv'
<1>0. Around
  BY CleanWas, ScarsGrow DEF Around, Before, Spotless
<1>1. CASE \/ \E r \in Request : (\E v \in Release, retry \in BOOLEAN : Ask(r, v, retry)) \/ Cancel(r)
           \/ \E v \in Release : Revoke(v)
           \/ Heartbeat \/ BeatExpires
  BY <1>0, <1>1, AskOutcome, BackendOutcome
<1>2. CASE ServiceStep \/ WindowClosed \/ GetsBusy \/ GetsFree
  BY <1>0, <1>2, RecoverOutcome, RelaunchOutcome, CompleteOutcome, PollOutcome, PrepareOutcome DEF ServiceStep
<1>3. ASSUME NEW r \in Request, HelperStep(r) PROVE OutcomeInv'
  BY <1>0, <1>3, ReplaceOutcome, RestoreOutcome DEF HelperStep
<1>4. CASE Reboot \/ Boot
  BY <1>0, <1>4, MachineOutcome
<1>5. CASE UNCHANGED updateVars
  <2>1. UNCHANGED <<request, tx, helper, service, files>>
    BY <1>5 DEF updateVars
  <2>2. Told'
    BY <1>0, <2>1, ToldStays DEF Around, Before, UpdateInv, Types, OutcomeInv, Target
  <2> QED BY <1>0, <2>1, <2>2, OutcomeNone
<1> QED BY <1>1, <1>2, <1>3, <1>4, <1>5 DEF Next

\* Nothing was asked for, and the service that is installed runs.
LEMMA OutcomeInit == Init => OutcomeInv
<1> SUFFICES ASSUME Init PROVE OutcomeInv
  OBVIOUS
<1>1. \A r \in Request : /\ ~Asked(r) /\ ~Done(r) /\ helper[r].pc = "none" /\ tx[r].state = "none"
                         /\ request[r].status = "none"
  BY DEF Init, Asked, Done, NoHelper
<1>2. Told
  BY DEF Init, Told, Installed, Part
<1>3. InTurn /\ OthersRest /\ \A r \in Request : Outcome(r)
  BY <1>1 DEF InTurn, OthersRest, Outcome
<1> QED BY <1>2, <1>3 DEF OutcomeInv

\* A transaction that says the update is completed has its request completed: it is over, and no
\* rollback was reported of it.
LEMMA OutcomeSuffices == UpdateInv /\ WholeInv /\ OutcomeInv => VerdictInstalled
<1> SUFFICES ASSUME UpdateInv, WholeInv, OutcomeInv, NEW r \in Request, Newest(r), Quiet, scars = {}
             PROVE  /\ tx[r].state = "completed" => files = Installed(Target(r)) /\ request[r].status = "completed"
                    /\ tx[r].state = "rollback_reported" =>
                         files = tx[r].backup /\ request[r].status = "rolled_back"
  BY DEF VerdictInstalled
<1>1. Row(r) /\ Outcome(r) /\ helper[r].pc = "none"
  BY DEF UpdateInv, OutcomeInv, Spotless, Quiet
<1>2. Latest(r)
  BY <1>1 DEF Latest, Asked, Newest, Row
<1>3. Done(r) => request[r].status = "completed"
  BY <1>1 DEF WholeInv, DoneEnded, Row, Done, Undoing, Verdict
<1> QED BY <1>1, <1>2, <1>3 DEF Outcome, Done

-----------------------------------------------------------------------------
(* The theorems.                                                           *)

LEMMA UpdateNext == UpdateInv /\ [Next]_updateVars => UpdateInv' /\ AllKeep
<1> SUFFICES ASSUME UpdateInv, [Next]_updateVars PROVE UpdateInv' /\ AllKeep
  OBVIOUS
<1>1. CASE \/ \E r \in Request : (\E v \in Release, retry \in BOOLEAN : Ask(r, v, retry)) \/ Cancel(r)
           \/ \E v \in Release : Revoke(v)
           \/ Heartbeat \/ BeatExpires
  BY <1>1, BackendInv
<1>2. CASE ServiceStep \/ WindowClosed \/ GetsBusy \/ GetsFree
  BY <1>2, RecoverInv, CompleteInv, PollInv, PrepareInv DEF ServiceStep
<1>3. CASE \E r \in Request : HelperStep(r)
  BY <1>3, HelperInv, SavesInv DEF HelperStep
<1>4. CASE Reboot \/ Boot
  BY <1>4, RebootInv
<1>5. CASE UNCHANGED updateVars
  BY <1>5, NoRow DEF updateVars, backendVars, UpdateInv, Types, ServiceOK, RestOK
<1> QED BY <1>1, <1>2, <1>3, <1>4, <1>5 DEF Next

LEMMA InitInv == Init => UpdateInv
<1> SUFFICES ASSUME Init PROVE UpdateInv
  OBVIOUS
<1>1. 0 \in Version /\ Installed(0) \in [Part -> Version]
  BY DEF Version, Installed
<1>2. RequestsOK /\ TxOK
  BY <1>1 DEF Init, RequestsOK, RequestRow, Status, TxOK, TxRow, TxState
<1>3. HelpersOK /\ ServiceOK
  BY <1>1 DEF Init, HelpersOK, NoHelper, HelperRow, HelperSteps, ServiceOK, Service, AtWork
<1>4. RestOK
  BY <1>1, UpdateAssumption DEF Init, RestOK
<1>5. \A r \in Request : Row(r)
  BY NoRequestZero DEF Init, NoHelper, Row, Verdict, Undoing
<1> QED BY <1>2, <1>3, <1>4, <1>5 DEF UpdateInv, Types

LEMMA UpdateAlways == Spec => []UpdateInv
<1>1. UpdateInv /\ [Next]_updateVars => UpdateInv'
  BY UpdateNext
<1> QED BY <1>1, InitInv, PTL DEF Spec

\* Types: nobody works on a request that was not asked for, and what is recorded as bad is a release.
THEOREM TypeCorrect == Spec => []TypeOK
<1>1. UpdateInv => TypeOK
  BY TypesSuffice DEF UpdateInv
<1> QED BY <1>1, UpdateAlways, PTL

\* A rollback that was reported stays reported, and a completed update is not cancelled or failed
\* any more, whatever late step of the helper, the service or the backend follows
\* (AgentReleaseService.complete, progress; UpdateCoordinator.RecoverAsync).
THEOREM VerdictsFinal == Spec => VerdictFinal
<1>1. UpdateInv /\ [Next]_updateVars =>
        [\A r \in Request :
           /\ request[r].status \in {"rolled_back", "rollback_failed"} => request'[r].status = request[r].status
           /\ request[r].status = "completed"
                => request'[r].status \in {"completed", "rolled_back", "rollback_failed"}]_updateVars
  BY UpdateNext DEF AllKeep, Keeps, Verdict
<1> QED BY <1>1, UpdateAlways, PTL DEF Spec, VerdictFinal

\* A service runs the executable and the libraries of one build, whatever fails while one helper or
\* another replaces, restores and restarts: one request is active, one helper works for it, and it
\* leaves files half replaced only while the service is down (the main program, CopyTree and
\* RestoreReplacedFiles of the updater; UpdateCoordinator.RecoverAsync, PollAsync).
THEOREM ServiceStaysWhole == Spec => []ServiceWhole
<1>1. UpdateInv /\ WholeInv /\ [Next]_updateVars => (UpdateInv /\ WholeInv)'
  BY UpdateNext, WholeNext
<1>2. Init => UpdateInv /\ WholeInv
  BY InitInv, WholeInit
<1>3. WholeInv => ServiceWhole
  BY WholeSuffices
<1> QED BY <1>1, <1>2, <1>3, PTL DEF Spec

\* When the last update is over, its transaction says what is installed: completed, the files are the
\* release that was asked for and the backend says so too; rolled back and reported, they are the
\* ones that were saved before, unless the machine, a failing step or a cancel came in between
\* (UpdateCoordinator.RecoverAsync, the main program of the updater, AgentReleaseService.complete).
THEOREM VerdictsInstalled == Spec => []VerdictInstalled
<1>1. UpdateInv /\ WholeInv /\ OutcomeInv /\ [Next]_updateVars => (UpdateInv /\ WholeInv /\ OutcomeInv)'
  BY UpdateNext, WholeNext, OutcomeNext
<1>2. Init => UpdateInv /\ WholeInv /\ OutcomeInv
  BY InitInv, WholeInit, OutcomeInit
<1>3. UpdateInv /\ WholeInv /\ OutcomeInv => VerdictInstalled
  BY OutcomeSuffices
<1> QED BY <1>1, <1>2, <1>3, PTL DEF Spec

=============================================================================
