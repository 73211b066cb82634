----------------------------- MODULE AgentUpdate -----------------------------
(***************************************************************************)
(* The update of the agent in place: the request in the backend            *)
(* (AgentReleaseService), the service that prepares it (UpdateCoordinator) *)
(* and stops, and the helper process that replaces the service's files,    *)
(* starts it again and watches it (JtlSyncEngine.Updater).  Service and    *)
(* helper share a transaction file for each request; service and backend   *)
(* talk over a network; the machine may restart at any moment.             *)
(*                                                                         *)
(* One agent.  A release is the number of its version; version 0 is        *)
(* installed at first.  The files are two: the executable, whose version   *)
(* is the one the service reports, and the libraries.                      *)
(***************************************************************************)
EXTENDS Integers, FiniteSets

CONSTANTS
  Release,       \* versions that were published, a set of numbers above 0
  Sick,          \* the releases whose build never reports health
  MaxRequests,   \* bound: update requests
  MaxTroubles    \* bound: lost calls, failing steps, busy times, overwritten outcomes, restarts, cancels, revocations

ASSUME UpdateAssumption ==
  /\ Release \subseteq Nat \ {0} /\ Sick \subseteq Release
  /\ MaxRequests \in Nat /\ MaxTroubles \in Nat

Request == 1 .. MaxRequests
Version == Release \cup {0}
Part    == {"exe", "libs"}

Claimable   == {"claimed", "downloading", "verifying", "staged", "waiting_for_window"}
Cancellable == {"approved"} \cup Claimable
Active      == Cancellable \cup {"installing", "verifying_health"}
\* rollback_failed: the status failed with the error code ROLLBACK_FAILED.
Terminal    == {"completed", "failed", "rollback_failed", "rolled_back", "cancelled"}

VARIABLES
  request,    \* agent_update_requests: [Request -> status, target, from, retry]
  revoked,    \* the releases that are not published any more
  beat,       \* sync_agents: the version of the last heartbeat; fresh: it is not too old
  service,    \* the service process: [pc, ver, req, busy]; busy: it is at no safe boundary
  helper,     \* [Request -> pc and the files still to do] of the helper processes
  tx,         \* the transaction files: [Request -> state, from, backup]
  files,      \* the install directory: [Part -> version]
  bad,        \* BadReleaseRegistry of the agent
  troublesLeft, \* what is left of the bound
  scars       \* history: what a restart, a failing rollback or a cancel left behind

backendVars == <<request, revoked, beat>>
diskVars == <<tx, files, bad>>
updateVars == <<request, revoked, beat, service, helper, tx, files, bad, troublesLeft, scars>>

NoHelper == [pc |-> "none", left |-> {}]
Installed(v) == [p \in Part |-> v]

Init ==
  /\ request = [r \in Request |-> [status |-> "none", target |-> 0, from |-> 0, retry |-> FALSE]]
  /\ revoked = {} /\ beat = [ver |-> 0, fresh |-> TRUE]
  /\ service = [pc |-> "recover", ver |-> 0, req |-> 0, busy |-> FALSE]
  /\ helper = [r \in Request |-> NoHelper]
  /\ tx = [r \in Request |-> [state |-> "none", from |-> 0, backup |-> Installed(0)]]
  /\ files = Installed(0) /\ bad = {}
  /\ troublesLeft = MaxTroubles /\ scars = {}

Trouble == troublesLeft > 0 /\ troublesLeft' = troublesLeft - 1

Target(r) == request[r].target
Set(r, s)  == request' = [request EXCEPT ![r].status = s]
Save(r, s) == tx' = [tx EXCEPT ![r].state = s]

-----------------------------------------------------------------------------
(* The backend.                                                            *)

\* Timing: what a helper does around the start and the stop of the service takes it seconds.
\* Nobody asks for another update just then and no service claims one, and one that has to fetch
\* a package, which takes minutes, does not get as far as launching a helper.
Settling == \E r \in Request : helper[r].pc \in {"launch", "mark", "rollback", "restore", "restored"}

\* A request for a newer, published release; the unique index allows one that is active.  To retry is
\* asked of a release that an earlier request was for.
Ask(r, v, retry) ==
  /\ request[r].status = "none" /\ \A q \in 1 .. r - 1 : request[q].status # "none"
  /\ v \in Release \ revoked /\ v > beat.ver
  /\ retry => \E q \in Request : request[q].status # "none" /\ Target(q) = v
  /\ \A q \in Request : request[q].status \notin Active
  /\ ~Settling
  /\ request' = [request EXCEPT ![r] = [status |-> "approved", target |-> v, from |-> beat.ver, retry |-> retry]]
  /\ UNCHANGED <<revoked, beat, service, helper, diskVars, troublesLeft, scars>>

Cancel(r) ==
  /\ request[r].status \in Cancellable /\ Trouble
  /\ Set(r, "cancelled")
  /\ scars' = scars \cup (IF tx[r].state # "none" THEN {"ghost"} ELSE {})
  /\ UNCHANGED <<revoked, beat, service, helper, diskVars>>

Revoke(v) ==
  /\ v \in Release \ revoked /\ Trouble
  /\ revoked' = revoked \cup {v}
  /\ UNCHANGED <<request, beat, service, helper, diskVars, scars>>

\* Fault: it moves any request.
Progress_Any(r, s) == Set(r, s)

\* A progress report moves a request that is active; one that is not is left alone.  Both are
\* answered alike: rows[0] of TypeORM's [rows, count] answer is there in either case.
Progress(r, s) == IF request[r].status \in Active THEN Set(r, s) ELSE UNCHANGED request

\* A heartbeat of the running service; a sick build sends none.
Heartbeat ==
  /\ service.pc # "off" /\ service.ver \notin Sick
  /\ beat # [ver |-> service.ver, fresh |-> TRUE]
  /\ beat' = [ver |-> service.ver, fresh |-> TRUE]
  /\ UNCHANGED <<request, revoked, service, helper, diskVars, troublesLeft, scars>>

BeatExpires ==
  /\ beat.fresh /\ (service.pc = "off" \/ service.ver # beat.ver)
  /\ beat' = [beat EXCEPT !.fresh = FALSE]
  /\ UNCHANGED <<request, revoked, service, helper, diskVars, troublesLeft, scars>>

Healthy(v) == beat.fresh /\ beat.ver = v

-----------------------------------------------------------------------------
(* The service.  RecoverAsync and PollAsync take turns.                    *)

Goto(pc, r) == service' = [service EXCEPT !.pc = pc, !.req = r]
At(pc) == service.pc = pc
Req == service.req


Pending(r) ==
  tx[r].state \in {"restarting", "service_stopped", "files_replaced", "verifying_health", "rolled_back",
                   "rollback_failed"}

UnderWay == {"restarting", "service_stopped", "files_replaced", "verifying_health"}

\* The old build runs, the new one is not in place.
Unfinished(r) ==
  /\ Pending(r) /\ tx[r].state \in UnderWay
  /\ Target(r) # service.ver /\ tx[r].from = service.ver

\* The helper has given up.
Undone(r) == Pending(r) /\ tx[r].state \in {"rolled_back", "rollback_failed"}

\* The new build runs.
InPlace(r) == Pending(r) /\ ~Undone(r) /\ Target(r) = service.ver

\* An error ends the recovery: what is behind waits for the next turn.
Deferred == Goto("poll", 0)

\* What is unfinished waits while a command or a module runs (IsSafeUpdateBoundary).
RecoverEnds ==
  /\ At("recover")
  /\ \A r \in Request : ~Undone(r) /\ ~InPlace(r) /\ (Unfinished(r) => service.busy)
  /\ Goto("poll", 0)
  /\ UNCHANGED <<backendVars, helper, diskVars, troublesLeft, scars>>

\* A command or a module's run begins.
GetsBusy ==
  /\ service.pc \notin {"stopping", "off"} /\ ~service.busy /\ Trouble
  /\ service' = [service EXCEPT !.busy = TRUE]
  /\ UNCHANGED <<backendVars, helper, diskVars, scars>>

\* It ends; but the id of a command whose renewal failed stays set until another command has ended,
\* and that may be never.
GetsFree ==
  /\ service.busy
  /\ service' = [service EXCEPT !.busy = FALSE]
  /\ UNCHANGED <<backendVars, helper, diskVars, troublesLeft, scars>>

\* The second report of a rollback is answered; the first one changes the request and then
\* fails, for its row is read as rows[0] of [rows, count].  One that is refused, because the
\* previous build has not been heard of, changes nothing.
ReportRollback(r) ==
  /\ At("recover") /\ Undone(r)
  /\ IF request[r].status \in {"rolled_back", "rollback_failed"}
     THEN Save(r, "rollback_reported") /\ UNCHANGED <<request, service>>
     ELSE /\ IF tx[r].state = "rolled_back" /\ ~Healthy(request[r].from)
             THEN UNCHANGED request ELSE Set(r, tx[r].state)
          /\ Deferred /\ UNCHANGED tx
  /\ UNCHANGED <<revoked, beat, helper, files, bad, troublesLeft, scars>>

\* The service has read a transaction that is unfinished.  Timing: its turns are a minute apart, and a
\* helper that had started the previous build in one has recorded the outcome in the next.
Resume(r) ==
  /\ At("recover") /\ Unfinished(r) /\ ~service.busy
  /\ ~(helper[r].pc = "restored" /\ tx[r].state = "restarting")
  /\ Goto("relaunching", r)
  /\ UNCHANGED <<backendVars, helper, diskVars, troublesLeft, scars>>

\* It saves what it read, over what the helper may have saved since: a helper that has started the
\* previous build records the outcome after that.  Then the helper is started again, unless it still
\* runs: its file cannot be replaced then.
Relaunch(r) ==
  /\ At("relaunching") /\ Req = r
  /\ Save(r, "restarting")
  /\ IF helper[r].pc = "none"
     THEN /\ helper' = [helper EXCEPT ![r] = [pc |-> "start", left |-> Part]]
          /\ Goto("stopping", 0)
     ELSE Deferred /\ UNCHANGED helper
  /\ UNCHANGED <<backendVars, files, bad, troublesLeft, scars>>

\* The new build asks for the verdict, which needs its heartbeat.
Verify(r) ==
  /\ At("recover") /\ InPlace(r)
  /\ Save(r, "verifying_health") /\ Progress(r, "verifying_health") /\ Goto("reporting", r)
  /\ UNCHANGED <<revoked, beat, helper, files, bad, troublesLeft, scars>>

Complete ==
  /\ At("reporting") /\ (Healthy(Target(Req)) \/ request[Req].status = "completed")
  /\ Set(Req, "completed") /\ Save(Req, "completed") /\ Goto("recover", 0)
  /\ UNCHANGED <<revoked, beat, helper, files, bad, troublesLeft, scars>>

\* The verdict is refused, or its answer is lost.
NotComplete ==
  /\ At("reporting")
  /\ \/ /\ ~Healthy(Target(Req)) /\ request[Req].status # "completed"
        /\ UNCHANGED <<request, troublesLeft, scars>>
     \/ /\ Healthy(Target(Req)) \/ request[Req].status = "completed"
        /\ Trouble /\ Set(Req, "completed") /\ scars' = scars \cup {"unseen"}
  /\ Deferred
  /\ UNCHANGED <<revoked, beat, helper, diskVars>>

-----------------------------------------------------------------------------
(* The service: PollAsync, after a RecoverAsync that launched nothing.  It *)
(* looks for a safe boundary once, at its begin.                           *)

NothingToDo ==
  /\ At("poll")
  /\ service.busy \/ \A r \in Request : request[r].status \notin Claimable \cup {"approved"}
  /\ Goto("recover", 0)
  /\ UNCHANGED <<backendVars, helper, diskVars, troublesLeft, scars>>

\* The first claim of a request moves it, but is answered with an error (the row is read as
\* rows[0] of [rows, count]); the next one finds it claimed.
Claim(r) ==
  /\ At("poll") /\ ~service.busy /\ request[r].status = "approved" /\ ~Settling
  /\ \A q \in Request : request[q].status \notin Claimable
  /\ request' = [request EXCEPT ![r].status = "claimed", ![r].from = service.ver]
  /\ Goto("recover", 0)
  /\ UNCHANGED <<revoked, beat, helper, diskVars, troublesLeft, scars>>

\* Whatever fails in the preparation is recorded and reported; the report may be lost.  The
\* request fails whatever it was before.
Fails(r) ==
  /\ bad' = bad \cup {Target(r)}
  /\ Goto("recover", 0)
  /\ \/ Set(r, "failed") /\ UNCHANGED troublesLeft
     \/ Trouble /\ UNCHANGED request

\* The claim answers; a release the agent has seen fail is refused.
Prepare(r) ==
  /\ At("poll") /\ ~service.busy /\ request[r].status \in Claimable
  /\ IF ~request[r].retry /\ Target(r) \in bad
     THEN Fails(r)
     ELSE Progress(r, "verifying") /\ Goto("verified", r) /\ UNCHANGED <<bad, troublesLeft>>
  /\ scars' = scars \cup (IF \E q \in Request : Pending(q) THEN {"pending"} ELSE {})
  /\ UNCHANGED <<revoked, beat, helper, tx, files>>

\* The package of a published release is given to an agent with an active request for it.
Download ==
  /\ At("verified") /\ tx[Req].state \notin {"staged", "restarting"}
  /\ IF /\ Target(Req) \notin revoked
        /\ \E q \in Request : request[q].status \in Active /\ Target(q) = Target(Req)
     THEN Progress(Req, "downloading") /\ Goto("downloaded", Req) /\ UNCHANGED <<bad, troublesLeft>>
     ELSE Fails(Req)
  /\ UNCHANGED <<revoked, beat, helper, tx, files, scars>>

\* Hash, signature and backup, and the transaction file.
Stage ==
  /\ At("downloaded")
  /\ Progress(Req, "staged")
  /\ tx' = [tx EXCEPT ![Req] = [state |-> "staged", from |-> service.ver, backup |-> files]]
  /\ Goto("verified", Req)
  /\ UNCHANGED <<revoked, beat, helper, files, bad, troublesLeft, scars>>

Staged == At("verified") /\ tx[Req].state \in {"staged", "restarting"}

WindowClosed ==
  /\ Staged
  /\ Progress(Req, "waiting_for_window") /\ Goto("recover", 0)
  /\ UNCHANGED <<revoked, beat, helper, diskVars, troublesLeft, scars>>

Install ==
  /\ Staged
  /\ Save(Req, "restarting") /\ Goto("leaving", Req)
  /\ UNCHANGED <<backendVars, helper, files, bad, troublesLeft, scars>>

\* The report, and the helper; then the service stops.
Leave ==
  /\ At("leaving") /\ helper[Req].pc = "none" /\ ~Settling
  /\ Progress(Req, "installing")
  /\ helper' = [helper EXCEPT ![Req] = [pc |-> "start", left |-> Part]]
  /\ Goto("stopping", 0)
  /\ UNCHANGED <<revoked, beat, diskVars, troublesLeft, scars>>

\* A call is lost, or a check, the disk or the start of the helper fails.
PrepareFails ==
  /\ service.pc \in {"verified", "downloaded", "leaving"} /\ Trouble
  /\ bad' = bad \cup {Target(Req)}
  /\ Goto("recover", 0)
  /\ \/ Set(Req, "failed")
     \/ UNCHANGED request
  /\ UNCHANGED <<revoked, beat, helper, tx, files, scars>>

ServiceStops ==
  /\ At("stopping")
  /\ service' = [service EXCEPT !.pc = "off", !.req = 0, !.busy = FALSE]
  /\ UNCHANGED <<backendVars, helper, diskVars, troublesLeft, scars>>

-----------------------------------------------------------------------------
(* The helper of a request.                                                *)

HelperAt(r, pc) == helper[r].pc = pc
HelperTo(r, pc, left) == helper' = [helper EXCEPT ![r] = [pc |-> pc, left |-> left]]
BackOut(r) == HelperTo(r, "rollback", Part)

\* It accepts a transaction that is to be installed, and waits for the service to end.
HelperStarts(r) ==
  /\ HelperAt(r, "start")
  /\ IF tx[r].state = "restarting" THEN HelperTo(r, "wait", Part) ELSE HelperTo(r, "none", {})
  /\ scars' = scars \cup (IF request[r].status \notin Active THEN {"ghost"} ELSE {})
  /\ UNCHANGED <<backendVars, service, diskVars, troublesLeft>>

ServiceGone(r) ==
  /\ HelperAt(r, "wait") /\ service.pc = "off"
  /\ Save(r, "service_stopped") /\ HelperTo(r, "copy", Part)
  /\ UNCHANGED <<backendVars, service, files, bad, troublesLeft, scars>>

\* CopyTree, one file at a time.
CopyPart(r, p) ==
  /\ HelperAt(r, "copy") /\ p \in helper[r].left /\ service.pc = "off"
  /\ files' = [files EXCEPT ![p] = Target(r)]
  /\ HelperTo(r, "copy", helper[r].left \ {p})
  /\ UNCHANGED <<backendVars, service, tx, bad, troublesLeft, scars>>

Copied(r) ==
  /\ HelperAt(r, "copy") /\ helper[r].left = {}
  /\ Save(r, "files_replaced") /\ HelperTo(r, "launch", {})
  /\ UNCHANGED <<backendVars, service, files, bad, troublesLeft, scars>>

Running(v) == service' = [pc |-> "recover", ver |-> v, req |-> 0, busy |-> FALSE]

StartService(r) ==
  /\ HelperAt(r, "launch")
  /\ IF service.pc = "off" THEN Running(files["exe"]) ELSE UNCHANGED service
  /\ HelperTo(r, "mark", {})
  /\ UNCHANGED <<backendVars, diskVars, troublesLeft, scars>>

\* Its copy of the transaction is the old one: what the service has saved since is overwritten.
Mark(r) ==
  /\ HelperAt(r, "mark")
  /\ Save(r, "verifying_health") /\ HelperTo(r, "watch", {})
  /\ scars' = scars \cup (IF tx[r].state = "completed" THEN {"unseen"} ELSE {})
  /\ UNCHANGED <<backendVars, service, files, bad, troublesLeft>>

\* The service has completed the update; or the time is over, at any moment.
Watch(r) ==
  /\ HelperAt(r, "watch")
  /\ IF tx[r].state = "completed" THEN HelperTo(r, "none", {}) ELSE BackOut(r)
  /\ UNCHANGED <<backendVars, service, diskVars, troublesLeft, scars>>

\* A service that stays up is not waited for for ever, and its executable cannot be replaced.
Blocked(r) == helper[r].left # {} /\ service.pc \notin {"off", "stopping"}

\* A step fails.
HelperFails(r) ==
  /\ IF helper[r].pc \in {"wait", "copy"} /\ Blocked(r) THEN UNCHANGED troublesLeft
     ELSE helper[r].pc \in {"wait", "copy", "launch"} /\ Trouble
  /\ BackOut(r)
  /\ UNCHANGED <<backendVars, service, diskVars, scars>>

StopService(r) ==
  /\ HelperAt(r, "rollback")
  /\ service' = [service EXCEPT !.pc = "off", !.req = 0, !.busy = FALSE]
  /\ HelperTo(r, "restore", Part)
  /\ UNCHANGED <<backendVars, diskVars, troublesLeft, scars>>

\* Fault: what was installed stays.
RestorePart_Keep(r, p) ==
  /\ HelperAt(r, "restore") /\ p \in helper[r].left /\ service.pc = "off"
  /\ files' = IF p = "exe" THEN [files EXCEPT ![p] = tx[r].backup[p]] ELSE files
  /\ HelperTo(r, "restore", helper[r].left \ {p})
  /\ UNCHANGED <<backendVars, service, tx, bad, troublesLeft, scars>>

\* RestoreReplacedFiles.
RestorePart(r, p) ==
  /\ HelperAt(r, "restore") /\ p \in helper[r].left /\ service.pc = "off"
  /\ files' = [files EXCEPT ![p] = tx[r].backup[p]]
  /\ HelperTo(r, "restore", helper[r].left \ {p})
  /\ UNCHANGED <<backendVars, service, tx, bad, troublesLeft, scars>>

StartPrevious(r) ==
  /\ HelperAt(r, "restore") /\ helper[r].left = {}
  /\ IF service.pc = "off" THEN Running(files["exe"]) ELSE UNCHANGED service
  /\ HelperTo(r, "restored", {})
  /\ UNCHANGED <<backendVars, diskVars, troublesLeft, scars>>

\* The outcome is saved and the release recorded.
Ends(r, s) ==
  /\ Save(r, s) /\ bad' = bad \cup {Target(r)} /\ HelperTo(r, "none", {})
  /\ UNCHANGED <<backendVars, service, files>>

\* A service that has just read the transaction overwrites it: that happens a few times, not for ever.
RolledBack(r) ==
  /\ HelperAt(r, "restored") /\ Ends(r, "rolled_back") /\ UNCHANGED scars
  /\ IF At("relaunching") /\ Req = r THEN Trouble ELSE UNCHANGED troublesLeft

\* The service cannot be stopped or started, or a file cannot be restored.
RollbackFails(r) ==
  /\ IF HelperAt(r, "restore") /\ Blocked(r) THEN UNCHANGED troublesLeft
     ELSE helper[r].pc \in {"rollback", "restore"} /\ Trouble
  /\ Ends(r, "rollback_failed") /\ scars' = scars \cup {"unrestored"}

-----------------------------------------------------------------------------
(* The machine.                                                            *)

\* Both processes end; the service starts with the machine.
Reboot ==
  /\ Trouble
  /\ helper' = [r \in Request |-> NoHelper]
  /\ Running(files["exe"])
  /\ scars' = scars \cup (IF files["exe"] # files["libs"] THEN {"torn"} ELSE {})
                    \cup (IF \E r \in Request : helper[r].pc \notin {"none", "start", "wait"} THEN {"unwatched"} ELSE {})
                    \cup (IF \E r \in Request : helper[r].pc \in {"restore", "restored"} THEN {"unrecorded"} ELSE {})
  /\ UNCHANGED <<backendVars, diskVars>>

\* A service nobody works on is down until the machine or somebody starts it.
Boot ==
  /\ service.pc = "off" /\ \A r \in Request : helper[r].pc = "none"
  /\ Running(files["exe"])
  /\ UNCHANGED <<backendVars, helper, diskVars, troublesLeft, scars>>

-----------------------------------------------------------------------------
ServiceStep ==
  \/ \E r \in Request : ReportRollback(r) \/ Resume(r) \/ Relaunch(r) \/ Verify(r) \/ Claim(r) \/ Prepare(r)
  \/ Complete \/ NotComplete \/ RecoverEnds \/ NothingToDo
  \/ Download \/ Stage \/ Install \/ Leave \/ PrepareFails \/ ServiceStops

HelperStep(r) ==
  \/ HelperStarts(r) \/ ServiceGone(r) \/ Copied(r) \/ StartService(r) \/ Mark(r) \/ Watch(r)
  \/ HelperFails(r) \/ StopService(r) \/ StartPrevious(r) \/ RolledBack(r) \/ RollbackFails(r)
  \/ \E p \in Part : CopyPart(r, p) \/ RestorePart(r, p)

Next ==
  \/ \E r \in Request :
       (\E v \in Release, retry \in BOOLEAN : Ask(r, v, retry)) \/ Cancel(r) \/ HelperStep(r)
  \/ \E v \in Release : Revoke(v)
  \/ Heartbeat \/ BeatExpires \/ ServiceStep \/ WindowClosed \/ GetsBusy \/ GetsFree \/ Reboot \/ Boot

Spec == Init /\ [][Next]_updateVars

\* The service's loop recovers and polls in every turn, a helper works on, builds that are not
\* sick report, the window opens, and a service that is down is started.  Nothing makes a busy
\* service free again.
FairSpec ==
  /\ Spec /\ WF_updateVars(Heartbeat) /\ WF_updateVars(Boot)
  /\ WF_updateVars(ServiceStep) /\ SF_updateVars(Install)
  /\ \A r \in Request : WF_updateVars(HelperStep(r))

-----------------------------------------------------------------------------
(* Properties.                                                             *)

TypeOK ==
  /\ \A r \in Request :
       /\ request[r].status \in Active \cup Terminal \cup {"none"}
       /\ request[r].target \in Version /\ request[r].from \in Version
       /\ tx[r].from \in Version /\ tx[r].backup \in [Part -> Version]
       /\ helper[r].left \subseteq Part
  /\ revoked \subseteq Release /\ bad \subseteq Release /\ beat.ver \in Version
  /\ files \in [Part -> Version] /\ service.ver \in Version
  /\ service.req \in Request \cup {0}

\* The last request there is, and its transaction has reached the helper.
Newest(r) ==
  tx[r].state \notin {"none", "staged"} /\ \A q \in Request : q > r => request[q].status = "none"

Quiet == \A r \in Request : helper[r].pc = "none"

\* A request that is over is installed all the same, or its helper does not see that it is: the next
\* request can be under way at the same time.
Overlap == scars \cap {"ghost", "unseen"} # {}

\* A service never runs a mixture of two builds, unless the machine went down while files were
\* being replaced, or a rollback failed half way; or one request was prepared while a transaction was
\* pending: a report of an earlier rollback that is refused ends the recovery before it gets to the
\* others, and then two helpers can be at work.
ServiceWhole ==
  service.pc # "off" /\ scars \cap {"torn", "unrestored", "pending"} = {} /\ ~Overlap => files["exe"] = files["libs"]

\* What the last transaction says became of it is what is installed.
VerdictInstalled ==
  \A r \in Request : Newest(r) /\ Quiet /\ scars = {} =>
    /\ tx[r].state = "completed" => files = Installed(Target(r)) /\ request[r].status = "completed"
    /\ tx[r].state = "rollback_reported" => files = tx[r].backup /\ request[r].status = "rolled_back"

\* A verdict is final: a rollback stays one, and a completed update can only be rolled back.
VerdictFinal ==
  [][\A r \in Request :
       /\ request[r].status \in {"rolled_back", "rollback_failed"} => request'[r].status = request[r].status
       /\ request[r].status = "completed"
            => request'[r].status \in {"completed", "rolled_back", "rollback_failed"}]_updateVars

\* What the service leaves alone until it is free again.
Postponed(r) == service.busy /\ (request[r].status \in Cancellable \/ \E q \in Request : Unfinished(q))


=============================================================================
