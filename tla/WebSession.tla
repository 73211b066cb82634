----------------------------- MODULE WebSession -----------------------------
(***************************************************************************)
(* The dashboard's session: the tabs of one browser, which share the       *)
(* refresh cookie and nothing else, and the handlers that issue, exchange  *)
(* and clear it (lib/api.ts, lib/store.ts, AuthWrapper.tsx,                *)
(* useCompanyData.ts; AuthService, the guards).  One user, a member of     *)
(* several companies.                                                      *)
(*                                                                         *)
(* A handler's look at the database and its answer's arrival in the        *)
(* browser are steps of their own; so are the two looks of an exchange.    *)
(***************************************************************************)
EXTENDS Integers, Sequences

CONSTANTS
  Tab, Company,
  Reading,      \* bound: the tabs whose pages fetch
  home,         \* users.tenant_id: the company the user was created in
  MaxEvents,    \* bound: refetches, reloads, log-ins, switches, sign-outs, expiries, memberships ended
  MaxTroubles   \* bound: calls that are lost, statements that fail, exchanges over the rate limit

Nowhere == "nowhere"

ASSUME WebSessionAssumption ==
  /\ Reading \subseteq Tab /\ home \in Company /\ Nowhere \notin Company
  /\ MaxEvents \in Nat /\ MaxTroubles \in Nat

\* A page asks one thing at a time, and so does its user.
Line == {"page", "user"}

VARIABLES
  member,      \* the companies of which the user is an active member
  token,       \* the refresh tokens issued, in order: the company each one is for
  revoked,     \* revoked_tokens
  cookie,      \* the browser's refresh token, 0 for none
  tab,         \* [Tab -> view; access token's company, and whether it still counts; X-Tenant-Id; company shown]
  renew,       \* [Tab -> pc; token sent, token got], of GET /auth/session or POST /auth/refresh
  call,        \* [Tab -> [Line -> pc; kind, companies asked for or answered, token got, retried]]
  rows,        \* [Tab -> the company of the rows shown, and whether they count as fresh]
  eventsLeft, troublesLeft,
  troubled,    \* history: tokens whose exchange failed, was throttled, or was not heard of
  raced,       \* history: tokens exchanged while another tab's exchange of it was under way
  mixed        \* history: tabs that took over another company's token, or rows of before a switch

server  == <<member, token, revoked>>
bounds  == <<eventsLeft, troublesLeft>>
history == <<troubled, raced, mixed>>
webVars == <<server, cookie, tab, renew, call, rows, bounds, history>>

NoCall   == [pc |-> "none", kind |-> "read", to |-> {}, new |-> 0, retried |-> FALSE]
NoRenew  == [pc |-> "none", token |-> 0, new |-> 0]
NoRows   == [co |-> Nowhere, fresh |-> FALSE]
Outside  == [view |-> "login", access |-> Nowhere, good |-> FALSE, header |-> Nowhere, company |-> Nowhere]
Inside(c) == [view |-> "in", access |-> c, good |-> TRUE, header |-> c, company |-> c]

\* A browser that was signed in before opens its tabs.
Init ==
  /\ member = Company
  /\ token \in {<<c>> : c \in Company} /\ cookie = 1 /\ revoked = {}
  /\ tab = [t \in Tab |-> [Outside EXCEPT !.view = "boot"]]
  /\ renew = [t \in Tab |-> NoRenew]
  /\ call = [t \in Tab |-> [l \in Line |-> NoCall]]
  /\ rows = [t \in Tab |-> NoRows]
  /\ eventsLeft = MaxEvents /\ troublesLeft = MaxTroubles
  /\ troubled = {} /\ raced = {} /\ mixed = {}

Event   == eventsLeft > 0 /\ eventsLeft' = eventsLeft - 1 /\ UNCHANGED troublesLeft
Trouble == troublesLeft > 0 /\ troublesLeft' = troublesLeft - 1 /\ UNCHANGED eventsLeft
In(t)   == tab[t].view = "in"
Idle(t) == renew[t].pc = "none" /\ \A l \in Line : call[t][l].pc = "none"

-----------------------------------------------------------------------------
(* The exchange of the refresh token: a tab has one under way at a time.   *)

\* What the exchange of k uses: the token itself takes the cookie's place when it is sent.
Sent(k) == [pc |-> "sent", token |-> k, new |-> 0]

\* Another tab's exchange of k is not over.
Contested(t, k) ==
  k # 0 /\ \E u \in Tab \ {t} : renew[u].pc \notin {"none", "silent"} /\ renew[u].token = k

Open(t) ==
  /\ tab[t].view = "boot" /\ renew[t].pc = "none"
  /\ renew' = [renew EXCEPT ![t] = Sent(cookie)]
  /\ raced' = IF Contested(t, cookie) THEN raced \cup {cookie} ELSE raced
  /\ UNCHANGED <<server, cookie, tab, call, rows, bounds, troubled, mixed>>

\* Fault: a revoked token passes.
Passes_Any(k) == k # 0
Passes(k) == k # 0 /\ k \notin revoked

Check(t) ==
  /\ renew[t].pc = "sent"
  /\ renew' = [renew EXCEPT ![t].pc = IF Passes(renew[t].token) THEN "checked" ELSE "refused"]
  /\ UNCHANGED <<server, cookie, tab, call, rows, bounds, history>>

\* The membership of the token while it is active, that of the home company otherwise.
Resolved(c) == IF c \in member THEN c ELSE home

\* The old token is revoked; that another exchange has done it already is no error.
Issue(t) ==
  /\ renew[t].pc = "checked"
  /\ LET k == renew[t].token
     IN /\ revoked' = revoked \cup {k}
        /\ token' = Append(token, Resolved(token[k]))
        /\ raced' = IF Contested(t, k) THEN raced \cup {k} ELSE raced
  /\ renew' = [renew EXCEPT ![t].pc = "ok", ![t].new = Len(token')]
  /\ UNCHANGED <<member, cookie, tab, call, rows, bounds, troubled, mixed>>

\* Who waits for the exchange asks again, with the new access token.
AskAgain(t) == [l \in Line |-> IF call[t][l].pc = "waiting"
                               THEN [call[t][l] EXCEPT !.pc = "again"] ELSE call[t][l]]

\* Guards and statements of the exchange's handler.  The rate limit is looked at first.
Throttled(t) ==
  /\ renew[t].pc = "sent" /\ Trouble
  /\ renew' = [renew EXCEPT ![t].pc = "throttled"]
  /\ troubled' = troubled \cup {renew[t].token}
  /\ UNCHANGED <<server, cookie, tab, call, rows, raced, mixed>>

\* A statement fails before the old token is revoked, behind that, or behind the new cookie.
ExchangeFails(t) ==
  /\ renew[t].pc \in {"sent", "checked", "ok"} /\ renew[t].token # 0 /\ Trouble
  /\ renew' = [renew EXCEPT ![t].pc = "failed"]
  /\ \/ UNCHANGED revoked
     \/ renew[t].pc = "checked" /\ revoked' = revoked \cup {renew[t].token}
  /\ troubled' = troubled \cup {renew[t].token}
  /\ UNCHANGED <<member, token, cookie, tab, call, rows, raced, mixed>>

\* A tab that is open takes over the company of the new token for its calls, and shows what it shows.
TakeOver(t, c) == [tab[t] EXCEPT !.access = c, !.good = TRUE, !.header = c]

\* Fault: the answer comes without the cookie.
NewCookie_Old(k) == cookie
NewCookie(k) == k

Receive(t) ==
  /\ renew[t].pc = "ok"
  /\ cookie' = NewCookie(renew[t].new)
  /\ LET c == token[renew[t].new]
     IN /\ tab' = [tab EXCEPT ![t] = IF @.view = "boot" THEN Inside(c) ELSE TakeOver(t, c)]
        /\ mixed' = IF In(t) /\ tab[t].company # c THEN mixed \cup {t} ELSE mixed
  /\ renew' = [renew EXCEPT ![t] = NoRenew] /\ call' = [call EXCEPT ![t] = AskAgain(t)]
  /\ UNCHANGED <<server, rows, bounds, troubled, raced>>

\* logout() of the store: the tab shows the log-in form, its queries are gone.  The calls that are
\* not over go on, and what the queries still hear is dropped.
Forgotten(c) == IF c.kind = "read" THEN [c EXCEPT !.kind = "dropped"] ELSE c
SignsOut(t, over) ==
  /\ tab' = [tab EXCEPT ![t] = Outside] /\ rows' = [rows EXCEPT ![t] = NoRows]
  /\ call' = [call EXCEPT ![t] = [l \in Line |-> IF l \in over THEN NoCall ELSE Forgotten(@[l])]]
  /\ mixed' = mixed \ {t}

\* The calls that wait for the exchange, which end with it when it brings no token.
Waiting(t) == {l \in Line : call[t][l].pc = "waiting"}

\* A refused GET /auth/session that had a token clears the cookie, whichever it is by now.
Refused(t) ==
  /\ renew[t].pc = "refused"
  /\ cookie' = IF tab[t].view = "boot" /\ renew[t].token # 0 THEN 0 ELSE cookie
  /\ renew' = [renew EXCEPT ![t] = NoRenew]
  /\ SignsOut(t, Waiting(t))
  /\ UNCHANGED <<server, bounds, troubled, raced>>

\* Fault: the promise of the exchange is dropped, and who waits for it is not told.
AfterLoss_Untold(t) == renew' = [renew EXCEPT ![t] = NoRenew] /\ UNCHANGED call

\* The calls that wait fail with it, and the next 401 starts another exchange.
AfterLoss(t) ==
  /\ renew' = [renew EXCEPT ![t] = NoRenew]
  /\ call' = [call EXCEPT ![t] = [l \in Line |-> IF l \in Waiting(t) THEN NoCall ELSE @[l]]]

\* The exchange brings no token: a tab that opens says the backend is unavailable, one that runs
\* stays, but signs out when that is what waited.
NoToken(t) ==
  IF call[t]["user"].kind = "logout" /\ call[t]["user"].pc = "waiting"
  THEN SignsOut(t, Waiting(t)) /\ renew' = [renew EXCEPT ![t] = NoRenew]
  ELSE /\ AfterLoss(t)
       /\ tab' = [tab EXCEPT ![t].view = IF @ = "boot" THEN "unavailable" ELSE @]
       /\ UNCHANGED <<rows, mixed>>

\* session() answers every exception like a refusal, and a 429 signs a tab that opens out as well;
\* doRefresh goes on without a token, and keeps the cookie that came with an error.
FailureArrives(t) ==
  /\ renew[t].pc \in {"failed", "throttled"}
  /\ IF tab[t].view = "boot"
     THEN /\ cookie' = IF renew[t].pc = "failed" THEN 0 ELSE cookie
          /\ renew' = [renew EXCEPT ![t] = NoRenew] /\ SignsOut(t, Waiting(t))
     ELSE /\ cookie' = IF renew[t].new # 0 THEN NewCookie(renew[t].new) ELSE cookie
          /\ NoToken(t)
  /\ UNCHANGED <<server, bounds, troubled, raced>>

\* The exchange is not answered, before or after it happened.
Unheard(t) == troubled' = IF renew[t].pc = "ok" THEN troubled \cup {renew[t].token} ELSE troubled

RenewLost(t) ==
  /\ renew[t].pc \in {"sent", "ok"} /\ Trouble
  /\ Unheard(t) /\ NoToken(t)
  /\ UNCHANGED <<server, cookie, raced>>

\* POST /auth/refresh has no time limit: nobody may ever notice that it is not answered.
RenewSilent(t) ==
  /\ tab[t].view # "boot" /\ renew[t].pc \in {"sent", "ok"} /\ Trouble
  /\ Unheard(t) /\ renew' = [renew EXCEPT ![t].pc = "silent", ![t].new = 0]
  /\ UNCHANGED <<server, cookie, tab, call, rows, raced, mixed>>

RenewBreaks(t) ==
  /\ renew[t].pc = "silent" /\ NoToken(t)
  /\ UNCHANGED <<server, cookie, bounds, troubled, raced>>

-----------------------------------------------------------------------------
(* The other calls.                                                        *)

\* The strategy's look at the access token.
Valid(t) == tab[t].good /\ tab[t].access \in member

\* The header decides on the company: TenantIsolationGuard lets no other pass.
Answer(t, kind, to) ==
  IF kind = "login" THEN "ok" ELSE
  IF ~Valid(t) THEN "unauthorized" ELSE
  IF tab[t].header \notin member \/ (kind = "switch" /\ ~ to \subseteq member)
  THEN "forbidden" ELSE "ok"

\* A call is sent and handled in one step; a switch leaves the old refresh token as it is.
Ask(t, l, kind, to, retried) ==
  LET a == Answer(t, kind, to)
      issues == a = "ok" /\ kind \in {"login", "switch"}
  IN /\ token' = IF issues THEN Append(token, CHOOSE c \in to : TRUE) ELSE token
     /\ call' = [call EXCEPT ![t][l] =
          [pc |-> a, kind |-> kind, retried |-> retried,
           to |-> CASE kind \in {"read", "dropped"} -> {tab[t].header} [] kind = "companies" -> member [] OTHER -> to,
           new |-> IF issues THEN Len(token) + 1 ELSE 0]]
     /\ tab' = IF kind = "logout" /\ a = "ok" THEN [tab EXCEPT ![t].good = FALSE] ELSE tab
     /\ UNCHANGED <<member, revoked, cookie, renew, rows, history>>

\* The page fetches the rows it lacks; now and then, rows it has or the list of companies.
Fetch(t) ==
  /\ In(t) /\ t \in Reading /\ call[t]["page"].pc = "none"
  /\ \/ ~rows[t].fresh /\ UNCHANGED bounds /\ Ask(t, "page", "read", {}, FALSE)
     \/ rows[t].fresh /\ Event /\ \E kind \in {"read", "companies"} : Ask(t, "page", kind, {}, FALSE)

UserActs(t) ==
  /\ call[t]["user"].pc = "none" /\ Event
  /\ \/ tab[t].view = "login" /\ \E c \in member : Ask(t, "user", "login", {c}, FALSE)
     \/ In(t) /\ \E c \in Company \ {tab[t].company} : Ask(t, "user", "switch", {c}, FALSE)
     \/ In(t) /\ Ask(t, "user", "logout", {}, FALSE)

Retry(t, l) ==
  /\ call[t][l].pc = "again"
  /\ Ask(t, l, call[t][l].kind, call[t][l].to, TRUE)
  /\ UNCHANGED bounds

Ends(t, l) == call' = [call EXCEPT ![t][l] = NoCall]

DroppedArrives(t) ==
  /\ call[t]["page"].pc = "ok" /\ call[t]["page"].kind = "dropped" /\ Ends(t, "page")
  /\ UNCHANGED <<server, cookie, tab, renew, rows, bounds, history>>

RowsArrive(t) ==
  /\ call[t]["page"].pc = "ok" /\ call[t]["page"].kind = "read"
  /\ rows' = [rows EXCEPT ![t] = [co |-> CHOOSE c \in call[t]["page"].to : TRUE, fresh |-> TRUE]]
  /\ Ends(t, "page")
  /\ UNCHANGED <<server, cookie, tab, renew, bounds, history>>

\* setCompanies: the company shown stays when it is in the list, and the calls are for it again.
CompaniesArrive(t) ==
  /\ call[t]["page"].pc = "ok" /\ call[t]["page"].kind = "companies"
  /\ LET list == call[t]["page"].to
         own  == {tab[t].company} \cap list
         next == {tab[t].access} \cap list
     IN \E c \in IF own # {} THEN own ELSE IF next # {} THEN next ELSE list :
          tab' = [tab EXCEPT ![t].company = c, ![t].header = c]
  /\ Ends(t, "page")
  /\ UNCHANGED <<server, cookie, renew, rows, bounds, history>>

LoginArrives(t) ==
  /\ call[t]["user"].pc = "ok" /\ call[t]["user"].kind = "login"
  /\ cookie' = call[t]["user"].new
  /\ tab' = [tab EXCEPT ![t] = Inside(token[call[t]["user"].new])]
  /\ Ends(t, "user")
  /\ UNCHANGED <<server, renew, rows, bounds, history>>

\* Fault: the queries are not invalidated.
Invalidated_Not(t) == rows[t]
Invalidated(t) == [rows[t] EXCEPT !.fresh = FALSE]

\* A tab that was signed out meanwhile has the new token and cookie, and shows the log-in form.
\* The queries are invalidated: a fetch under way starts anew if there are rows to show, and goes
\* on if it is the first one, whose rows then are those of before.
SwitchArrives(t) ==
  /\ call[t]["user"].pc = "ok" /\ call[t]["user"].kind = "switch"
  /\ LET c == token[call[t]["user"].new]
         refetch == call[t]["page"].kind = "read" /\ rows[t].co # Nowhere
         late == call[t]["page"].kind = "read" /\ rows[t].co = Nowhere /\ call[t]["page"].pc = "ok"
     IN /\ cookie' = call[t]["user"].new
        /\ tab' = [tab EXCEPT ![t] = [Inside(c) EXCEPT !.view = tab[t].view]]
        /\ rows' = [rows EXCEPT ![t] = Invalidated(t)]
        /\ call' = [call EXCEPT ![t] = [l \in Line |->
             IF l = "user" \/ refetch THEN NoCall ELSE @[l]]]
        /\ mixed' = IF late THEN mixed \cup {t} ELSE mixed \ {t}
  /\ UNCHANGED <<server, renew, bounds, troubled, raced>>

LogoutArrives(t) ==
  /\ call[t]["user"].pc = "ok" /\ call[t]["user"].kind = "logout"
  /\ cookie' = 0 /\ SignsOut(t, {"user"})
  /\ UNCHANGED <<server, renew, bounds, troubled, raced>>

\* The first 401 waits for an exchange, the tab's own one if it is under way.
Unauthorized(t, l) ==
  /\ call[t][l].pc = "unauthorized" /\ ~call[t][l].retried
  /\ call' = [call EXCEPT ![t][l].pc = "waiting"]
  /\ IF renew[t].pc = "none"
     THEN /\ renew' = [renew EXCEPT ![t] = Sent(cookie)]
          /\ raced' = IF Contested(t, cookie) THEN raced \cup {cookie} ELSE raced
     ELSE UNCHANGED <<renew, raced>>
  /\ UNCHANGED <<server, cookie, tab, rows, bounds, troubled, mixed>>

\* Any other error is the caller's: a sign-out goes on without the backend.
GivesUp(t, l) ==
  /\ IF call[t][l].kind = "logout" THEN SignsOut(t, {l})
     ELSE Ends(t, l) /\ UNCHANGED <<tab, rows, mixed>>
  /\ UNCHANGED <<server, cookie, renew, troubled, raced>>

Fails(t, l) ==
  /\ \/ call[t][l].pc = "forbidden"
     \/ call[t][l].pc = "unauthorized" /\ call[t][l].retried
  /\ GivesUp(t, l) /\ UNCHANGED bounds

CallLost(t, l) ==
  /\ call[t][l].pc \in {"ok", "unauthorized", "forbidden"} /\ Trouble
  /\ GivesUp(t, l)

-----------------------------------------------------------------------------
(* Events around them.                                                     *)

\* A page is loaded anew: one without calls under way, or one whose exchange is silent.
Reload(t) ==
  /\ tab[t].view # "boot" /\ (Idle(t) \/ renew[t].pc = "silent") /\ Event
  /\ tab' = [tab EXCEPT ![t] = [Outside EXCEPT !.view = "boot"]]
  /\ rows' = [rows EXCEPT ![t] = NoRows] /\ mixed' = mixed \ {t}
  /\ renew' = [renew EXCEPT ![t] = NoRenew]
  /\ call' = [call EXCEPT ![t] = [l \in Line |-> NoCall]]
  /\ UNCHANGED <<server, cookie, troubled, raced>>

AccessExpires(t) ==
  /\ In(t) /\ tab[t].good /\ Event
  /\ tab' = [tab EXCEPT ![t].good = FALSE]
  /\ UNCHANGED <<server, cookie, renew, call, rows, history>>

\* An administrator deactivates a membership, other than that of the home company.
Deactivate(c) ==
  /\ c \in member \ {home} /\ Event
  /\ member' = member \ {c}
  /\ UNCHANGED <<token, revoked, cookie, tab, renew, call, rows, history>>

RenewStep(t) ==
  \/ Open(t) \/ Check(t) \/ Issue(t) \/ Receive(t) \/ Refused(t)
  \/ Throttled(t) \/ ExchangeFails(t) \/ FailureArrives(t) \/ RenewLost(t) \/ RenewSilent(t)
PageArrives(t) == RowsArrive(t) \/ CompaniesArrive(t) \/ DroppedArrives(t)
UserArrives(t) == LoginArrives(t) \/ SwitchArrives(t) \/ LogoutArrives(t)
CallStep(t, l) == Retry(t, l) \/ Unauthorized(t, l) \/ Fails(t, l) \/ CallLost(t, l)

Next ==
  \/ \E t \in Tab :
       \/ RenewStep(t) \/ RenewBreaks(t) \/ Fetch(t) \/ UserActs(t) \/ PageArrives(t) \/ UserArrives(t)
       \/ Reload(t) \/ AccessExpires(t)
       \/ \E l \in Line : CallStep(t, l)
  \/ \E c \in Company : Deactivate(c)

Spec == Init /\ [][Next]_webVars

\* Handlers end, and answers arrive or are given up on after the 30 seconds of the api instance.
\* The exchange of a running tab is made without it (doRefresh): one that is silent may stay so.
FairSpec ==
  /\ Spec
  /\ \A t \in Tab : WF_webVars(RenewStep(t)) /\ WF_webVars(PageArrives(t)) /\ WF_webVars(UserArrives(t))
  /\ \A t \in Tab, l \in Line : WF_webVars(CallStep(t, l))

-----------------------------------------------------------------------------
(* Properties.                                                             *)

Token    == 0 .. Len(token)
Place    == Company \cup {Nowhere}
TabState == [view : {"boot", "login", "in", "unavailable"}, access : Place, good : BOOLEAN,
             header : Place, company : Place]
\* What is under way, with the tokens issued so far.
Renewal(tokens) == [pc : {"none", "sent", "checked", "refused", "ok", "throttled", "failed", "silent"}, token : tokens, new : tokens]
Calling(tokens) == [pc : {"none", "ok", "unauthorized", "forbidden", "waiting", "again"},
                    kind : {"login", "switch", "logout", "read", "companies", "dropped"},
                    to : SUBSET Place, new : tokens, retried : BOOLEAN]
Rows     == [co : Place, fresh : BOOLEAN]

\* Types; no token is sent, held, revoked or awaited that was not issued, and a call for a company
\* names one.
TypeOK ==
  /\ member \subseteq Company /\ home \in member
  /\ token \in Seq(Place) /\ cookie \in Token /\ revoked \subseteq Token
  /\ tab \in [Tab -> TabState] /\ renew \in [Tab -> Renewal(Token)]
  /\ call \in [Tab -> [Line -> Calling(Token)]] /\ rows \in [Tab -> Rows]
  /\ \A t \in Tab, l \in Line : LET c == call[t][l]
                               IN /\ c.kind \in {"login", "switch"} => c.to # {}
                                  /\ c.pc = "ok" /\ c.kind # "logout" => c.to # {}
                                  /\ c.pc = "ok" /\ c.kind \in {"login", "switch"} => c.new # 0
  /\ \A t \in Tab : renew[t].pc = "ok" => renew[t].new # 0
  /\ eventsLeft \in Nat /\ troublesLeft \in Nat
  /\ troubled \cup raced \subseteq Token /\ mixed \subseteq Tab

\* Why tab t is signed out, or the cookie cleared by an answer to it: its user signs out, there was
\* no session, or its exchange was raced by another tab's, met trouble, or came behind one that was.
SignsOutForCause(t) ==
  \/ \E l \in Line : call[t][l].kind = "logout" /\ call[t][l].pc # "none"
  \/ renew[t].pc # "none" /\ renew[t].token \in {0} \cup troubled \cup raced

\* A session does not end on its own (AuthService.refresh and session, doRefresh, bootstrap).  Trouble
\* is a cause in spite of "Your session was not cleared. Retry when the API/database is reachable."
\* (AuthWrapper.tsx:278), which a tab shows only when the call itself is lost.
SessionEndsForCause ==
  [][/\ \A t \in Tab : tab[t].view \in {"boot", "in"} /\ tab'[t].view = "login" => SignsOutForCause(t)
     /\ cookie # 0 /\ cookie' = 0 => \E t \in Tab : SignsOutForCause(t)]_webVars

\* The company a tab names, the one its calls are for and the one its rows are of are the same,
\* up to the two ways of "mixed", both of which an undisturbed switch puts right
\* (useSwitchCompany, setToken).
CompanyShown ==
  \A t \in Tab : In(t) /\ t \notin mixed =>
    /\ tab[t].header = tab[t].company
    /\ rows[t].fresh => rows[t].co = tab[t].company

\* Every call ends, also one that waits for an exchange (doRefresh's finally, _retry), unless the
\* exchange it waits for is silent: doRefresh has no time limit.
CallsEnd ==
  \A t \in Tab :
    /\ []<>(renew[t].pc \in {"none", "silent"})
    /\ \A l \in Line :
         []<>(call[t][l].pc = "none" \/ (call[t][l].pc = "waiting" /\ renew[t].pc = "silent"))

=============================================================================
