--------------------------- MODULE WebSessionProofs ---------------------------
(***************************************************************************)
(* Proofs about WebSession, for any tabs and companies.                    *)
(***************************************************************************)
EXTENDS WebSession, SequenceTheorems, TLAPS

-----------------------------------------------------------------------------
(* The types in parts, as far as the tokens up to n.                       *)

Renewals(n) == {x \in Renewal(0 .. n) : x.pc = "ok" => x.new # 0}

\* A call for a company names one, an answer too, and one that issues a token holds it.
Fits(c) == /\ c.kind \in {"login", "switch"} => c.to # {}
           /\ c.pc = "ok" /\ c.kind # "logout" => c.to # {}
           /\ c.pc = "ok" /\ c.kind \in {"login", "switch"} => c.new # 0
Calls(n) == {c \in Calling(0 .. n) : Fits(c)}

N == Len(token)

ServerOK == /\ member \subseteq Company /\ home \in member /\ token \in Seq(Place)
            /\ cookie \in 0 .. N /\ revoked \subseteq 0 .. N /\ troubled \subseteq 0 .. N /\ raced \subseteq 0 .. N
TabsOK   == /\ tab \in [Tab -> TabState] /\ rows \in [Tab -> Rows] /\ mixed \subseteq Tab
            /\ eventsLeft \in Nat /\ troublesLeft \in Nat
RenewOK  == renew \in [Tab -> Renewals(N)]
CallOK   == call \in [Tab -> [Line -> Calls(N)]]
Parts    == ServerOK /\ TabsOK /\ RenewOK /\ CallOK

LEMMA TypeParts == TypeOK <=> Parts
<1>1. Token = 0 .. N
  BY DEF Token, N
<1>2. /\ renew \in [Tab -> Renewal(Token)]
      /\ \A t \in Tab : renew[t].pc = "ok" => renew[t].new # 0
      <=> RenewOK
  BY <1>1 DEF RenewOK, Renewals
<1>3. /\ call \in [Tab -> [Line -> Calling(Token)]]
      /\ \A t \in Tab, l \in Line : Fits(call[t][l])
      <=> CallOK
  BY <1>1 DEF CallOK, Calls
<1>4. (\A t \in Tab, l \in Line : Fits(call[t][l])) <=>
      \A t \in Tab, l \in Line : LET c == call[t][l]
                               IN /\ c.kind \in {"login", "switch"} => c.to # {}
                                  /\ c.pc = "ok" /\ c.kind # "logout" => c.to # {}
                                  /\ c.pc = "ok" /\ c.kind \in {"login", "switch"} => c.new # 0
  BY DEF Fits
<1>5. ServerOK <=> /\ member \subseteq Company /\ home \in member
                   /\ token \in Seq(Place) /\ cookie \in Token /\ revoked \subseteq Token
                   /\ troubled \cup raced \subseteq Token
  BY <1>1 DEF ServerOK
<1> QED BY <1>2, <1>3, <1>4, <1>5 DEF TypeOK, TabsOK, Parts

LEMMA TypePartsNext == TypeOK' <=> Parts'
BY TypeParts, PTL

-----------------------------------------------------------------------------
(* What the steps put where.                                               *)

LEMMA Grown ==
  ASSUME NEW n \in Nat, NEW k \in Nat, n <= k
  PROVE  /\ Renewals(n) \subseteq Renewals(k) /\ Calls(n) \subseteq Calls(k)
         /\ 0 .. n \subseteq 0 .. k
<1>1. 0 .. n \subseteq 0 .. k
  OBVIOUS
<1>2. Renewal(0 .. n) \subseteq Renewal(0 .. k)
  BY <1>1 DEF Renewal
<1>3. Calling(0 .. n) \subseteq Calling(0 .. k)
  BY <1>1 DEF Calling
<1> QED BY <1>1, <1>2, <1>3 DEF Renewals, Calls

LEMMA NothingOK ==
  ASSUME NEW n \in Nat
  PROVE  /\ NoRenew \in Renewals(n) /\ NoCall \in Calls(n) /\ NoRows \in Rows
         /\ \A k \in 0 .. n : Sent(k) \in Renewals(n)
<1>1. NoRenew \in Renewals(n)
  BY DEF NoRenew, Renewals, Renewal
<1>2. NoCall \in Calls(n)
  BY DEF NoCall, Calls, Calling, Fits
<1>3. NoRows \in Rows
  BY DEF NoRows, Rows, Place
<1>4. ASSUME NEW k \in 0 .. n PROVE Sent(k) \in Renewals(n)
  BY DEF Sent, Renewals, Renewal
<1> QED BY <1>1, <1>2, <1>3, <1>4

LEMMA TabValues ==
  /\ Outside \in TabState /\ [Outside EXCEPT !.view = "boot"] \in TabState
  /\ \A c \in Place : Inside(c) \in TabState
BY DEF Outside, Inside, TabState, Place

LEMMA WaitsOK ==
  ASSUME NEW n \in Nat, NEW c \in Calls(n), NEW s \in {"waiting", "again"}
  PROVE  [c EXCEPT !.pc = s] \in Calls(n)
BY DEF Calls, Calling, Fits

\* One entry of a table of tables changes, or one table.
Updated(table, t, l, x) == [table EXCEPT ![t][l] = x]

LEMMA UpdatedOK ==
  ASSUME NEW S, NEW f \in [Tab -> [Line -> S]], NEW t \in Tab, NEW l \in Line, NEW x \in S
  PROVE  Updated(f, t, l, x) \in [Tab -> [Line -> S]]
<1> DEFINE line == [f[t] EXCEPT ![l] = x]
<1>1. Updated(f, t, l, x) = [f EXCEPT ![t] = line]
  BY DEF Updated
<1>2. line \in [Line -> S]
  OBVIOUS
<1> HIDE DEF line
<1> QED BY <1>1, <1>2

-----------------------------------------------------------------------------
(* The types are kept.                                                     *)

LEMMA NIsNat == ServerOK => N \in Nat
BY DEF ServerOK, N

\* A step that issues nothing.
LEMMA QuietServer ==
  ASSUME ServerOK, token' = token, member' \subseteq Company, home \in member', cookie' \in 0 .. N,
         revoked' \subseteq 0 .. N, troubled' \subseteq 0 .. N, raced' \subseteq 0 .. N
  PROVE  N' = N /\ ServerOK'
BY DEF ServerOK, N

\* A step that issues a token for c.
LEMMA IssuingServer ==
  ASSUME ServerOK, NEW c \in Place, token' = Append(token, c), UNCHANGED member, cookie' \in 0 .. N,
         revoked' \subseteq 0 .. N, troubled' \subseteq 0 .. N, raced' \subseteq 0 .. N
  PROVE  N' = N + 1 /\ N \in Nat /\ ServerOK'
<1>1. N \in Nat /\ Len(Append(token, c)) = N + 1 /\ Append(token, c) \in Seq(Place)
  BY DEF ServerOK, N
<1>2. N' = N + 1 /\ 0 .. N \subseteq 0 .. N'
  BY <1>1 DEF N
<1> QED BY <1>1, <1>2 DEF ServerOK

Put(table, t, x) == [table EXCEPT ![t] = x]

LEMMA RenewSame == ASSUME RenewOK, N \in Nat, N' \in Nat, N <= N', UNCHANGED renew PROVE RenewOK'
BY Grown DEF RenewOK

LEMMA RenewPut ==
  ASSUME RenewOK, N \in Nat, N' \in Nat, N <= N', NEW t \in Tab, NEW x \in Renewals(N'),
         renew' = Put(renew, t, x)
  PROVE  RenewOK' /\ renew'[t] = x /\ \A u \in Tab : u # t => renew'[u] = renew[u]
<1>1. renew \in [Tab -> Renewals(N')]
  BY Grown DEF RenewOK
<1> QED BY <1>1 DEF RenewOK, Put

LEMMA CallSame == ASSUME CallOK, N \in Nat, N' \in Nat, N <= N', UNCHANGED call PROVE CallOK'
<1>1. call \in [Tab -> [Line -> Calls(N')]]
  BY Grown DEF CallOK
<1> QED BY <1>1 DEF CallOK

LEMMA CallPut ==
  ASSUME CallOK, N \in Nat, N' \in Nat, N <= N', NEW t \in Tab, NEW l \in Line, NEW x \in Calls(N'),
         call' = Updated(call, t, l, x)
  PROVE  /\ CallOK' /\ call'[t][l] = x
         /\ \A u \in Tab, m \in Line : u # t \/ m # l => call'[u][m] = call[u][m]
<1>1. call \in [Tab -> [Line -> Calls(N')]]
  BY Grown DEF CallOK
<1>2. CallOK'
  BY <1>1, UpdatedOK DEF CallOK
<1> DEFINE line == [call[t] EXCEPT ![l] = x]
<1>3. call' = [call EXCEPT ![t] = line]
  BY DEF Updated
<1>4. \A m \in Line : line[m] = IF m = l THEN x ELSE call[t][m]
  BY <1>1
<1> HIDE DEF line
<1>5. \A u \in Tab : call'[u] = IF u = t THEN line ELSE call[u]
  BY <1>1, <1>3
<1> QED BY <1>2, <1>4, <1>5

LEMMA CallLine ==
  ASSUME CallOK, N \in Nat, N' \in Nat, N <= N', NEW t \in Tab, NEW g \in [Line -> Calls(N')],
         call' = Put(call, t, g)
  PROVE  CallOK' /\ call'[t] = g /\ \A u \in Tab : u # t => call'[u] = call[u]
<1>1. call \in [Tab -> [Line -> Calls(N')]]
  BY Grown DEF CallOK
<1> QED BY <1>1 DEF CallOK, Put

\* The tab, rows and mixed of one tab change.
LEMMA TabsKept ==
  ASSUME TabsOK, NEW t \in Tab, eventsLeft' \in Nat, troublesLeft' \in Nat,
         \/ UNCHANGED tab
         \/ \E x \in TabState : tab' = [tab EXCEPT ![t] = x],
         \/ UNCHANGED rows
         \/ \E x \in Rows : rows' = [rows EXCEPT ![t] = x],
         mixed' \in {mixed, mixed \cup {t}, mixed \ {t}}
  PROVE  TabsOK'
BY DEF TabsOK

LEMMA BoundsKept ==
  ASSUME TabsOK, Event \/ Trouble \/ UNCHANGED bounds
  PROVE  eventsLeft' \in Nat /\ troublesLeft' \in Nat
BY DEF TabsOK, Event, Trouble, bounds

-----------------------------------------------------------------------------
(* The exchange.                                                           *)

\* An exchange of the cookie starts.
LEMMA SendingOK ==
  ASSUME Parts, NEW t \in Tab, renew' = Put(renew, t, Sent(cookie)), UNCHANGED token,
         raced' = IF Contested(t, cookie) THEN raced \cup {cookie} ELSE raced
  PROVE  RenewOK' /\ raced' \subseteq 0 .. N
<1>1. N \in Nat /\ N' = N /\ cookie \in 0 .. N /\ raced \subseteq 0 .. N
  BY NIsNat DEF Parts, ServerOK, N
<1>2. Sent(cookie) \in Renewals(N')
  BY <1>1, NothingOK
<1> QED BY <1>1, <1>2, RenewPut DEF Parts

LEMMA RenewEndsOK ==
  ASSUME Parts, NEW t \in Tab, renew' = Put(renew, t, NoRenew), UNCHANGED token
  PROVE  RenewOK'
<1>1. N \in Nat /\ N' = N
  BY NIsNat DEF Parts, N
<1>2. NoRenew \in Renewals(N')
  BY <1>1, NothingOK
<1> QED BY <1>1, <1>2, RenewPut DEF Parts

LEMMA AtRenew ==
  ASSUME Parts, NEW t \in Tab
  PROVE  /\ N \in Nat /\ renew[t] \in Renewals(N) /\ renew[t].token \in 0 .. N /\ renew[t].new \in 0 .. N
         /\ renew[t].pc = "ok" => renew[t].new \in 1 .. N /\ token[renew[t].new] \in Place
<1>1. N \in Nat /\ renew[t] \in Renewals(N)
  BY NIsNat DEF Parts, RenewOK
<1>2. /\ renew[t].token \in 0 .. N /\ renew[t].new \in 0 .. N
      /\ renew[t].pc = "ok" => renew[t].new \in 1 .. N
  BY <1>1 DEF Renewals, Renewal
<1>3. \A k \in 1 .. N : token[k] \in Place
  BY DEF Parts, ServerOK, N
<1> QED BY <1>1, <1>2, <1>3

LEMMA AtCall ==
  ASSUME Parts, NEW t \in Tab, NEW l \in Line
  PROVE  /\ N \in Nat /\ call[t] \in [Line -> Calls(N)] /\ call[t][l] \in Calls(N) /\ Fits(call[t][l])
         /\ call[t][l].new \in 0 .. N
         /\ call[t][l].to \subseteq Place
         /\ call[t][l].pc = "ok" /\ call[t][l].kind \in {"login", "switch"}
              => call[t][l].new \in 1 .. N /\ token[call[t][l].new] \in Place
<1>1. N \in Nat /\ call[t] \in [Line -> Calls(N)] /\ call[t][l] \in Calls(N)
  BY NIsNat DEF Parts, CallOK
<1>2. /\ Fits(call[t][l]) /\ call[t][l].new \in 0 .. N /\ call[t][l].to \subseteq Place
      /\ call[t][l].pc = "ok" /\ call[t][l].kind \in {"login", "switch"} => call[t][l].new \in 1 .. N
  BY <1>1 DEF Calls, Calling, Fits
<1>3. \A k \in 1 .. N : token[k] \in Place
  BY DEF Parts, ServerOK, N
<1> QED BY <1>1, <1>2, <1>3

LEMMA OpenOK ==
  ASSUME Parts, NEW t \in Tab, Open(t)
  PROVE  Parts'
<1>1. RenewOK' /\ raced' \subseteq 0 .. N
  BY SendingOK DEF Open, server, Put
<1>2. ServerOK'
  BY <1>1, QuietServer DEF Parts, ServerOK, Open, server
<1>3. CallOK' /\ TabsOK'
  BY DEF Parts, CallOK, TabsOK, N, Open, server, bounds
<1> QED BY <1>1, <1>2, <1>3 DEF Parts

\* The exchange goes on, or fails, and issues nothing.
LEMMA OnwardsOK ==
  ASSUME Parts, NEW t \in Tab, NEW x \in Renewals(N), renew' = Put(renew, t, x),
         UNCHANGED <<member, token, cookie, tab, call, rows, raced, mixed>>, Trouble \/ UNCHANGED bounds,
         revoked' \subseteq 0 .. N, troubled' \subseteq 0 .. N
  PROVE  Parts'
<1>1. N' = N /\ N \in Nat
  BY NIsNat DEF Parts, N
<1>2. RenewOK'
  BY <1>1, RenewPut DEF Parts
<1>3. eventsLeft' \in Nat /\ troublesLeft' \in Nat
  BY BoundsKept DEF Parts
<1>4. ServerOK' /\ TabsOK' /\ CallOK'
  BY <1>1, <1>3 DEF Parts, ServerOK, TabsOK, CallOK
<1> QED BY <1>2, <1>4 DEF Parts

\* One field or two of the exchange change.
LEMMA RenewalValues ==
  ASSUME NEW n \in Nat, NEW x \in Renewals(n)
  PROVE  /\ \A s \in {"checked", "refused", "throttled", "failed"} : [x EXCEPT !.pc = s] \in Renewals(n)
         /\ [x EXCEPT !.pc = "silent", !.new = 0] \in Renewals(n)
<1>1. 0 \in 0 .. n /\ x \in Renewal(0 .. n)
  BY DEF Renewals
<1>2. ASSUME NEW s \in {"checked", "refused", "throttled", "failed"}
      PROVE  [x EXCEPT !.pc = s] \in Renewals(n)
  BY <1>1 DEF Renewals, Renewal
<1>3. [x EXCEPT !.pc = "silent", !.new = 0] \in Renewals(n)
  BY <1>1 DEF Renewals, Renewal
<1> QED BY <1>2, <1>3

LEMMA CheckOK ==
  ASSUME Parts, NEW t \in Tab, Check(t)
  PROVE  Parts'
<1>1. PICK s \in {"checked", "refused"} : renew' = Put(renew, t, [renew[t] EXCEPT !.pc = s])
  BY DEF Check, Put
<1>2. [renew[t] EXCEPT !.pc = s] \in Renewals(N)
  BY AtRenew, RenewalValues
<1>3. /\ UNCHANGED <<member, token, cookie, tab, call, rows, raced, mixed>> /\ UNCHANGED bounds
      /\ revoked' \subseteq 0 .. N /\ troubled' \subseteq 0 .. N
  BY DEF Check, server, history, Parts, ServerOK
<1> QED BY <1>1, <1>2, <1>3, OnwardsOK

\* The exchange is over the rate limit, or a statement of it fails.
LEMMA ExchangeFailsOK ==
  ASSUME Parts, NEW t \in Tab, Throttled(t) \/ ExchangeFails(t)
  PROVE  Parts'
<1>1. PICK s \in {"throttled", "failed"} : renew' = Put(renew, t, [renew[t] EXCEPT !.pc = s])
  BY DEF Throttled, ExchangeFails, Put
<1>2. /\ UNCHANGED <<member, token, cookie, tab, call, rows, raced, mixed>> /\ Trouble
      /\ revoked' \in {revoked, revoked \cup {renew[t].token}} /\ troubled' = troubled \cup {renew[t].token}
  BY DEF Throttled, ExchangeFails, server
<1>3. revoked' \subseteq 0 .. N /\ troubled' \subseteq 0 .. N
  BY <1>2, AtRenew DEF Parts, ServerOK
<1>4. [renew[t] EXCEPT !.pc = s] \in Renewals(N)
  BY AtRenew, RenewalValues
<1> QED BY <1>1, <1>2, <1>3, <1>4, OnwardsOK

LEMMA UnheardOK == ASSUME Parts, NEW t \in Tab, Unheard(t) PROVE troubled' \subseteq 0 .. N /\ troubled \subseteq troubled'
BY AtRenew DEF Unheard, Parts, ServerOK

LEMMA SilentOK ==
  ASSUME Parts, NEW t \in Tab, RenewSilent(t)
  PROVE  Parts'
<1>1. /\ renew' = Put(renew, t, [renew[t] EXCEPT !.pc = "silent", !.new = 0]) /\ Trouble /\ Unheard(t)
      /\ UNCHANGED <<member, token, cookie, tab, call, rows, raced, mixed>> /\ UNCHANGED revoked
  BY DEF RenewSilent, Put, server
<1>2. [renew[t] EXCEPT !.pc = "silent", !.new = 0] \in Renewals(N)
  BY AtRenew, RenewalValues
<1>3. revoked' \subseteq 0 .. N /\ troubled' \subseteq 0 .. N
  BY <1>1, UnheardOK DEF Parts, ServerOK
<1> QED BY <1>1, <1>2, <1>3, OnwardsOK

LEMMA IssueOK ==
  ASSUME Parts, NEW t \in Tab, Issue(t)
  PROVE  Parts' /\ N' = N + 1 /\ renew'[t].new = N + 1
<1>1. renew[t].token \in 0 .. N /\ N \in Nat /\ renew[t] \in Renewals(N)
  BY AtRenew
<1>2. PICK c \in Place : token' = Append(token, c)
  <2>1. Resolved(token[renew[t].token]) \in Place
    BY DEF Resolved, Parts, ServerOK, Place
  <2> QED BY <2>1 DEF Issue
<1>3. revoked' \subseteq 0 .. N /\ troubled' \subseteq 0 .. N /\ raced' \subseteq 0 .. N /\ cookie' \in 0 .. N
  BY <1>1 DEF Issue, Parts, ServerOK
<1>4. N' = N + 1 /\ ServerOK'
  BY <1>2, <1>3, IssuingServer DEF Parts, Issue
<1>5. renew' = Put(renew, t, [renew[t] EXCEPT !.pc = "ok", !.new = N'])
  BY DEF Issue, N, Put
<1>6. [renew[t] EXCEPT !.pc = "ok", !.new = N'] \in Renewals(N')
  <2>1. renew[t] \in Renewals(N') /\ N' \in 0 .. N' /\ N' # 0
    BY <1>1, <1>4, Grown
  <2> QED BY <2>1 DEF Renewals, Renewal
<1>7. RenewOK' /\ renew'[t] = [renew[t] EXCEPT !.pc = "ok", !.new = N']
  BY <1>1, <1>4, <1>5, <1>6, RenewPut DEF Parts
<1>10. CallOK'
  BY <1>1, <1>4, CallSame DEF Parts, Issue
<1>8. TabsOK'
  BY DEF Parts, TabsOK, Issue, bounds
<1>9. renew'[t].new = N'
  BY <1>1, <1>7 DEF Renewals, Renewal
<1> QED BY <1>4, <1>7, <1>8, <1>9, <1>10 DEF Parts

LEMMA AskAgainOK ==
  ASSUME Parts, NEW t \in Tab
  PROVE  /\ AskAgain(t) \in [Line -> Calls(N)]
         /\ \A l \in Line : AskAgain(t)[l].new = call[t][l].new
<1>1. ASSUME NEW l \in Line
      PROVE  /\ [call[t][l] EXCEPT !.pc = "again"] \in Calls(N) /\ call[t][l] \in Calls(N)
             /\ [call[t][l] EXCEPT !.pc = "again"].new = call[t][l].new
  <2>1. call[t][l] \in Calls(N) /\ N \in Nat
    BY AtCall
  <2> QED BY <2>1, WaitsOK DEF Calls, Calling
<1> QED BY <1>1 DEF AskAgain

LEMMA ReceiveOK ==
  ASSUME Parts, NEW t \in Tab, Receive(t)
  PROVE  Parts' /\ N' = N
<1>1. /\ N \in Nat /\ renew[t].new \in 1 .. N /\ token[renew[t].new] \in Place
  BY AtRenew DEF Receive
<1>2. cookie' \in 0 .. N
  BY <1>1 DEF Receive, NewCookie
<1>3. N' = N /\ ServerOK'
  BY <1>2, QuietServer DEF Parts, ServerOK, Receive, server
<1>4. RenewOK'
  BY RenewEndsOK DEF Receive, Put, server
<1>5. call' = Put(call, t, AskAgain(t)) /\ AskAgain(t) \in [Line -> Calls(N')]
  BY <1>3, AskAgainOK DEF Receive, Put
<1>6. CallOK'
  BY <1>1, <1>3, <1>5, CallLine DEF Parts
<1>7. PICK x \in TabState : tab' = Put(tab, t, x)
  <2> DEFINE c == token[renew[t].new]
  <2>1. tab[t] \in TabState /\ c \in Place
    BY <1>1 DEF Parts, TabsOK
  <2>2. Inside(c) \in TabState /\ TakeOver(t, c) \in TabState
    BY <2>1, TabValues DEF TakeOver, TabState
  <2> HIDE DEF c
  <2>3. tab' = Put(tab, t, IF tab[t].view = "boot" THEN Inside(c) ELSE TakeOver(t, c))
    BY DEF Receive, Put, c, Parts, TabsOK
  <2> QED BY <2>1, <2>2, <2>3
<1>8. mixed' \subseteq Tab /\ UNCHANGED <<rows, eventsLeft, troublesLeft>>
  BY DEF Parts, TabsOK, Receive, bounds
<1>9. TabsOK'
  BY <1>7, <1>8 DEF Parts, TabsOK, Put
<1> QED BY <1>3, <1>4, <1>6, <1>9 DEF Parts

\* What the queries no longer hear is the call all the same.
LEMMA ForgottenOK ==
  ASSUME NEW n \in Nat, NEW c \in Calls(n)
  PROVE  Forgotten(c) \in Calls(n) /\ Forgotten(c).new = c.new
BY DEF Forgotten, Calls, Calling, Fits

\* A call of the tab ends, or goes on.
Leaves(t) ==
  /\ \A l \in Line : call'[t][l] \in {NoCall, call[t][l], Forgotten(call[t][l])}
  /\ \A u \in Tab : u # t => call'[u] = call[u]

\* The tab shows the log-in form; calls end, or go on unheard.
LEMMA SignsOutOK ==
  ASSUME Parts, NEW t \in Tab, NEW over, SignsOut(t, over), UNCHANGED token,
         eventsLeft' \in Nat, troublesLeft' \in Nat
  PROVE  CallOK' /\ TabsOK' /\ Leaves(t) /\ \A l \in Line \cap over : call'[t][l] = NoCall
<1> DEFINE g == [l \in Line |-> IF l \in over THEN NoCall ELSE Forgotten(call[t][l])]
<1>1. N' = N /\ N \in Nat
  BY NIsNat DEF Parts, N
<1>2. NoRows \in Rows /\ \A l \in Line : NoCall \in Calls(N') /\ Forgotten(call[t][l]) \in Calls(N')
  BY <1>1, NothingOK, AtCall, ForgottenOK
<1>3. call' = Put(call, t, g)
  BY DEF SignsOut, Put, Parts, CallOK
<1>4. /\ g \in [Line -> Calls(N')] /\ \A l \in Line : g[l] \in {NoCall, Forgotten(call[t][l])}
      /\ \A l \in Line \cap over : g[l] = NoCall
  BY <1>2
<1> HIDE DEF g
<1>5. CallOK' /\ call'[t] = g /\ \A u \in Tab : u # t => call'[u] = call[u]
  BY <1>1, <1>3, <1>4, CallLine DEF Parts
<1>6. TabsOK'
  BY <1>2, TabValues DEF Parts, TabsOK, SignsOut
<1> QED BY <1>4, <1>5, <1>6 DEF Leaves

LEMMA RefusedOK ==
  ASSUME Parts, NEW t \in Tab, Refused(t)
  PROVE  Parts' /\ N' = N /\ Leaves(t)
<1>1. eventsLeft' \in Nat /\ troublesLeft' \in Nat
  BY DEF Parts, TabsOK, Refused, bounds
<1>2. CallOK' /\ TabsOK' /\ Leaves(t)
  BY <1>1, SignsOutOK DEF Refused, server
<1>3. RenewOK'
  BY RenewEndsOK DEF Refused, Put, server
<1>4. cookie' \in 0 .. N
  BY NIsNat DEF Parts, ServerOK, Refused
<1>5. N' = N /\ ServerOK'
  BY <1>4, QuietServer DEF Parts, ServerOK, Refused, server
<1> QED BY <1>2, <1>3, <1>5 DEF Parts

\* The exchange ends, and brings no token.
LEMMA NoTokenOK ==
  ASSUME Parts, NEW t \in Tab, NoToken(t), UNCHANGED token, eventsLeft' \in Nat, troublesLeft' \in Nat
  PROVE  CallOK' /\ TabsOK' /\ RenewOK' /\ renew' = Put(renew, t, NoRenew) /\ Leaves(t)
<1>1. N' = N /\ N \in Nat
  BY NIsNat DEF Parts, N
<1>2. renew' = Put(renew, t, NoRenew)
  BY DEF NoToken, AfterLoss, Put
<1>3. RenewOK'
  BY <1>2, RenewEndsOK
<1>4. CASE SignsOut(t, Waiting(t))
  BY <1>2, <1>3, <1>4, SignsOutOK
<1>5. CASE AfterLoss(t) /\ UNCHANGED <<rows, mixed>>
           /\ tab' = [tab EXCEPT ![t].view = IF @ = "boot" THEN "unavailable" ELSE @]
  <2> DEFINE g == [l \in Line |-> IF l \in Waiting(t) THEN NoCall ELSE call[t][l]]
  <2>1. call' = Put(call, t, g)
    BY <1>5 DEF AfterLoss, Put, Parts, CallOK
  <2>2. \A l \in Line : call[t][l] \in Calls(N') /\ NoCall \in Calls(N')
    BY <1>1, AtCall, NothingOK
  <2>3. g \in [Line -> Calls(N')] /\ \A l \in Line : g[l] \in {call[t][l], NoCall}
    BY <2>2
  <2> HIDE DEF g
  <2>4. CallOK' /\ call'[t] = g /\ \A u \in Tab : u # t => call'[u] = call[u]
    BY <1>1, <2>1, <2>3, CallLine DEF Parts
  <2>5. TabsOK'
    BY <1>5 DEF Parts, TabsOK, TabState
  <2> QED BY <1>2, <1>3, <2>3, <2>4, <2>5 DEF Leaves
<1> QED BY <1>4, <1>5 DEF NoToken

LEMMA RenewLostOK ==
  ASSUME Parts, NEW t \in Tab, RenewLost(t) \/ RenewBreaks(t)
  PROVE  Parts' /\ N' = N /\ renew' = Put(renew, t, NoRenew) /\ Leaves(t)
<1>1. /\ UNCHANGED <<member, token, revoked, cookie, raced>> /\ NoToken(t)
      /\ Unheard(t) \/ UNCHANGED troubled
      /\ Trouble \/ UNCHANGED bounds
  BY DEF RenewLost, RenewBreaks, server
<1>2. eventsLeft' \in Nat /\ troublesLeft' \in Nat
  BY <1>1, BoundsKept DEF Parts
<1>3. troubled' \subseteq 0 .. N
  BY <1>1, UnheardOK DEF Parts, ServerOK
<1>4. N' = N /\ ServerOK'
  BY <1>1, <1>3, QuietServer DEF Parts, ServerOK
<1> QED BY <1>1, <1>2, <1>4, NoTokenOK DEF Parts

LEMMA FailureArrivesOK ==
  ASSUME Parts, NEW t \in Tab, FailureArrives(t)
  PROVE  /\ Parts' /\ N' = N /\ renew' = Put(renew, t, NoRenew) /\ Leaves(t)
         /\ cookie' \in {0, cookie, renew[t].new}
<1>1. /\ UNCHANGED <<member, token, revoked, troubled, raced>> /\ UNCHANGED bounds
      /\ \/ SignsOut(t, Waiting(t)) /\ renew' = Put(renew, t, NoRenew)
         \/ NoToken(t)
      /\ cookie' \in {0, cookie, renew[t].new}
  BY DEF FailureArrives, server, Put, NewCookie
<1>2. eventsLeft' \in Nat /\ troublesLeft' \in Nat
  BY <1>1, BoundsKept DEF Parts
<1>3. cookie' \in 0 .. N
  BY <1>1, AtRenew DEF Parts, ServerOK
<1>4. N' = N /\ ServerOK'
  BY <1>1, <1>3, QuietServer DEF Parts, ServerOK
<1>5. CASE NoToken(t)
  BY <1>1, <1>2, <1>4, <1>5, NoTokenOK DEF Parts
<1>6. CASE SignsOut(t, Waiting(t)) /\ renew' = Put(renew, t, NoRenew)
  <2>1. CallOK' /\ TabsOK' /\ Leaves(t)
    BY <1>1, <1>2, <1>6, SignsOutOK
  <2>2. RenewOK'
    BY <1>1, <1>6, RenewEndsOK
  <2> QED BY <1>1, <1>4, <1>6, <2>1, <2>2 DEF Parts
<1> QED BY <1>1, <1>5, <1>6

\* What a call that ends or goes on unheard holds.
LEMMA LeavesNew ==
  ASSUME Parts, NEW t \in Tab, Leaves(t)
  PROVE  \A u \in Tab, l \in Line : call'[u][l].new \in {call[u][l].new, 0}
<1>1. ASSUME NEW l \in Line PROVE call'[t][l].new \in {call[t][l].new, 0}
  <2>1. call'[t][l] \in {NoCall, call[t][l], Forgotten(call[t][l])} /\ NoCall.new = 0
    BY DEF Leaves, NoCall
  <2>2. Forgotten(call[t][l]).new = call[t][l].new
    BY AtCall, ForgottenOK
  <2> QED BY <2>1, <2>2
<1> QED BY <1>1 DEF Leaves

-----------------------------------------------------------------------------
(* The other calls.                                                        *)

\* What sending does to the tokens held: the call may hold a new one.
Asked(t, l) ==
  /\ N \in Nat /\ N' \in {N, N + 1}
  /\ call'[t][l].new \in {0, N + 1} /\ (call'[t][l].new = N + 1 => N' = N + 1)
  /\ \A u \in Tab, m \in Line : u # t \/ m # l => call'[u][m] = call[u][m]
  /\ UNCHANGED <<revoked, cookie, renew, troubled, raced>>

LEMMA BoundsNext ==
  ASSUME Parts, Event \/ Trouble \/ UNCHANGED bounds
  PROVE  eventsLeft' \in Nat /\ troublesLeft' \in Nat
BY BoundsKept DEF Parts

\* A call is sent: it holds a token of its own, or none.
LEMMA AskOK ==
  ASSUME Parts, NEW t \in Tab, NEW l \in Line, NEW kind \in {"login", "switch", "logout", "read", "companies", "dropped"},
         NEW to \in SUBSET Place, NEW retried \in BOOLEAN, kind \in {"login", "switch"} => to # {},
         Ask(t, l, kind, to, retried), Event \/ UNCHANGED bounds
  PROVE  Parts' /\ Asked(t, l)
<1>11. eventsLeft' \in Nat /\ troublesLeft' \in Nat
  BY BoundsNext
<1> DEFINE a == Answer(t, kind, to)
           issues == a = "ok" /\ kind \in {"login", "switch"}
           named == CASE kind \in {"read", "dropped"} -> {tab[t].header} [] kind = "companies" -> member [] OTHER -> to
           x == [pc |-> a, kind |-> kind, retried |-> retried, to |-> named,
                 new |-> IF issues THEN Len(token) + 1 ELSE 0]
<1>1. a \in {"ok", "unauthorized", "forbidden"}
  BY DEF Answer
<1>2. named \subseteq Place /\ (kind # "logout" => kind \in {"login", "switch"} \/ named # {})
      /\ (kind \in {"login", "switch"} => named = to)
  <2>1. tab[t].header \in Place /\ member \subseteq Place /\ member # {}
    BY DEF Parts, TabsOK, TabState, ServerOK, Place
  <2>2. CASE kind \in {"read", "dropped"}
    BY <2>1, <2>2
  <2>3. CASE kind = "companies"
    BY <2>1, <2>3
  <2>4. CASE kind \in {"login", "switch", "logout"}
    BY <2>4
  <2> QED BY <2>2, <2>3, <2>4
<1>3. N \in Nat
  BY NIsNat DEF Parts
<1>4. /\ token' = IF issues THEN Append(token, CHOOSE c \in to : TRUE) ELSE token
      /\ call' = Updated(call, t, l, x)
      /\ tab' = IF kind = "logout" /\ a = "ok" THEN [tab EXCEPT ![t].good = FALSE] ELSE tab
      /\ UNCHANGED <<member, revoked, cookie, renew, rows, troubled, raced, mixed>>
  BY DEF Ask, Updated, history
<1>5. x.new \in {0, N + 1} /\ x.new = (IF issues THEN N + 1 ELSE 0)
  BY DEF N
<1> HIDE DEF a, named
<1>6. /\ N' \in {N, N + 1} /\ ServerOK' /\ (x.new = N + 1 => N' = N + 1) /\ x.new \in 0 .. N'
      /\ N' = IF issues THEN N + 1 ELSE N
  <2>1. CASE issues
    <3>1. (CHOOSE c \in to : TRUE) \in to
      BY <2>1
    <3>2. PICK c \in Place : token' = Append(token, c)
      BY <1>4, <2>1, <3>1
    <3>3. cookie' \in 0 .. N /\ revoked' \subseteq 0 .. N /\ troubled' \subseteq 0 .. N /\ raced' \subseteq 0 .. N
          /\ UNCHANGED member
      BY <1>4 DEF Parts, ServerOK
    <3>4. N' = N + 1 /\ ServerOK'
      BY <3>2, <3>3, IssuingServer DEF Parts
    <3> QED BY <1>3, <1>5, <2>1, <3>4
  <2>2. CASE ~issues
    <3>1. N' = N /\ ServerOK'
      BY <1>4, <2>2, QuietServer DEF Parts, ServerOK
    <3> QED BY <1>3, <1>5, <2>2, <3>1
  <2> QED BY <2>1, <2>2
<1>7. x \in Calls(N')
  <2>1. x \in Calling(0 .. N')
    BY <1>1, <1>2, <1>6 DEF Calling
  <2>2. Fits(x)
    BY <1>2, <1>3, <1>5 DEF Fits
  <2> QED BY <2>1, <2>2 DEF Calls
<1>8. RenewOK'
  BY <1>3, <1>4, <1>6, RenewSame DEF Parts
<1>9. TabsOK'
  BY <1>4, <1>11 DEF Parts, TabsOK, TabState
<1> HIDE DEF x
<1>10. /\ CallOK' /\ call'[t][l] = x
       /\ \A u \in Tab, m \in Line : u # t \/ m # l => call'[u][m] = call[u][m]
  BY <1>3, <1>4, <1>6, <1>7, CallPut DEF Parts
<1>12. Asked(t, l)
  BY <1>3, <1>4, <1>5, <1>6, <1>10 DEF Asked
<1> QED BY <1>6, <1>8, <1>9, <1>10, <1>12 DEF Parts

LEMMA AsksOK ==
  ASSUME Parts, NEW t \in Tab
  PROVE  /\ Fetch(t) => Parts' /\ Asked(t, "page")
         /\ UserActs(t) => Parts' /\ Asked(t, "user")
         /\ \A l \in Line : Retry(t, l) => Parts' /\ Asked(t, l)
<1>1. ASSUME NEW l \in Line, NEW kind \in {"login", "switch", "logout", "read", "companies", "dropped"},
             NEW to \in SUBSET Place, NEW retried \in BOOLEAN, kind \in {"login", "switch"} => to # {},
             Ask(t, l, kind, to, retried), Event \/ UNCHANGED bounds
      PROVE  Parts' /\ Asked(t, l)
  BY <1>1, AskOK
<1>2. /\ Company \subseteq Place /\ {} \in SUBSET Place /\ "page" \in Line /\ "user" \in Line
      /\ \A c \in Company : {c} \in SUBSET Place /\ {c} # {}
  BY DEF Place, Line
<1>3. Fetch(t) => Parts' /\ Asked(t, "page")
  <2> SUFFICES ASSUME Fetch(t) PROVE Parts' /\ Asked(t, "page")
    OBVIOUS
  <2>1. PICK kind \in {"read", "companies"} : Ask(t, "page", kind, {}, FALSE) /\ (Event \/ UNCHANGED bounds)
    BY DEF Fetch
  <2> QED BY <1>1, <1>2, <2>1
<1>4. UserActs(t) => Parts' /\ Asked(t, "user")
  <2> SUFFICES ASSUME UserActs(t) PROVE Parts' /\ Asked(t, "user")
    OBVIOUS
  <2>1. Event /\ member \subseteq Company
    BY DEF UserActs, Parts, ServerOK
  <2>2. CASE \E c \in Company, kind \in {"login", "switch"} : Ask(t, "user", kind, {c}, FALSE)
    <3>1. PICK c \in Company, kind \in {"login", "switch"} : Ask(t, "user", kind, {c}, FALSE)
      BY <2>2
    <3> QED BY <1>1, <1>2, <2>1, <3>1
  <2>3. CASE Ask(t, "user", "logout", {}, FALSE)
    BY <1>1, <1>2, <2>1, <2>3
  <2> QED BY <2>1, <2>2, <2>3 DEF UserActs
<1>5. ASSUME NEW l \in Line, Retry(t, l) PROVE Parts' /\ Asked(t, l)
  <2>1. /\ call[t][l].kind \in {"login", "switch", "logout", "read", "companies", "dropped"}
        /\ call[t][l].to \in SUBSET Place
        /\ call[t][l].kind \in {"login", "switch"} => call[t][l].to # {}
    BY AtCall DEF Calls, Calling, Fits
  <2>2. Ask(t, l, call[t][l].kind, call[t][l].to, TRUE) /\ UNCHANGED bounds
    BY <1>5 DEF Retry
  <2> QED BY <1>1, <2>1, <2>2
<1> QED BY <1>3, <1>4, <1>5

-----------------------------------------------------------------------------
(* Answers arrive, or do not.                                              *)

\* A step about calls: the server and the exchanges stay, the cookie may change.
LEMMA AllButCalls ==
  ASSUME Parts, UNCHANGED <<member, token, revoked, renew, troubled, raced>>, cookie' \in 0 .. N
  PROVE  ServerOK' /\ RenewOK'
<1>1. N' = N /\ N \in Nat /\ ServerOK /\ RenewOK
  BY NIsNat DEF Parts, N
<1>2. member' \subseteq Company /\ home \in member' /\ token' = token
      /\ revoked' \subseteq 0 .. N /\ troubled' \subseteq 0 .. N /\ raced' \subseteq 0 .. N
  BY <1>1 DEF ServerOK
<1>3. ServerOK'
  BY <1>1, <1>2, QuietServer
<1>4. RenewOK'
  BY <1>1, RenewSame
<1> QED BY <1>3, <1>4

\* A call of the tab ends, others are as they were or over too.
Ended(t, l) ==
  /\ call'[t][l].new = 0
  /\ \A u \in Tab, m \in Line : call'[u][m].new \in {call[u][m].new, 0}

LEMMA EndsOK ==
  ASSUME Parts, NEW t \in Tab, NEW l \in Line, Ends(t, l), UNCHANGED token
  PROVE  CallOK' /\ Ended(t, l)
<1>1. N' = N /\ N \in Nat /\ NoCall \in Calls(N') /\ NoCall.new = 0
  BY NIsNat, NothingOK DEF Parts, N, NoCall
<1>2. call' = Updated(call, t, l, NoCall)
  BY DEF Ends, Updated
<1>3. /\ CallOK' /\ call'[t][l] = NoCall
      /\ \A u \in Tab, m \in Line : u # t \/ m # l => call'[u][m] = call[u][m]
  BY <1>1, <1>2, CallPut DEF Parts
<1> QED BY <1>1, <1>3 DEF Ended

LEMMA SignsOutEnds ==
  ASSUME Parts, NEW t \in Tab, NEW l \in Line, SignsOut(t, {l}), UNCHANGED token,
         eventsLeft' \in Nat, troublesLeft' \in Nat
  PROVE  CallOK' /\ TabsOK' /\ Ended(t, l)
<1>1. CallOK' /\ TabsOK' /\ Leaves(t) /\ call'[t][l] = NoCall
  BY SignsOutOK
<1>2. NoCall.new = 0
  BY DEF NoCall
<1> QED BY <1>1, <1>2, LeavesNew DEF Ended

LEMMA ArrivesOK ==
  ASSUME Parts, NEW t \in Tab, PageArrives(t)
  PROVE  Parts' /\ Ended(t, "page") /\ UNCHANGED <<token, revoked, cookie, renew, troubled, raced>>
<1>1. /\ UNCHANGED <<member, token, revoked, cookie, renew, eventsLeft, troublesLeft, troubled, raced, mixed>>
      /\ Ends(t, "page") /\ "page" \in Line
  BY DEF PageArrives, RowsArrive, CompaniesArrive, DroppedArrives, server, bounds, history, Line
<1>2. CallOK' /\ Ended(t, "page") /\ N' = N /\ N \in Nat
  BY <1>1, EndsOK, NIsNat DEF Parts, N
<1>3. ServerOK' /\ RenewOK'
  <2>1. cookie' \in 0 .. N
    BY <1>1 DEF Parts, ServerOK
  <2> QED BY <1>1, <2>1, AllButCalls
<1>4. Fits(call[t]["page"]) /\ call[t]["page"].to \subseteq Place
  BY <1>1, AtCall
<1>5. ASSUME RowsArrive(t) PROVE TabsOK'
  <2> DEFINE c == CHOOSE c \in call[t]["page"].to : TRUE
  <2>1. c \in Place
    BY <1>4, <1>5 DEF Fits, RowsArrive
  <2>2. rows' = [rows EXCEPT ![t] = [co |-> c, fresh |-> TRUE]] /\ tab' = tab
    BY <1>5 DEF RowsArrive
  <2> HIDE DEF c
  <2>3. [co |-> c, fresh |-> TRUE] \in Rows
    BY <2>1 DEF Rows
  <2> QED BY <1>1, <2>2, <2>3 DEF Parts, TabsOK
<1>6. ASSUME CompaniesArrive(t) PROVE TabsOK'
  <2>1. PICK c \in call[t]["page"].to : tab' = [tab EXCEPT ![t].company = c, ![t].header = c]
    BY <1>6 DEF CompaniesArrive
  <2>2. c \in Place
    BY <1>4
  <2>3. tab' = Put(tab, t, [tab[t] EXCEPT !.company = c, !.header = c]) /\ tab \in [Tab -> TabState]
    BY <2>1 DEF Parts, TabsOK, Put
  <2>4. [tab[t] EXCEPT !.company = c, !.header = c] \in TabState
    BY <2>2, <2>3 DEF TabState, Place
  <2>5. tab' \in [Tab -> TabState]
    BY <2>3, <2>4 DEF Put
  <2> QED BY <1>1, <1>6, <2>5 DEF Parts, TabsOK, CompaniesArrive
<1>7. ASSUME DroppedArrives(t) PROVE TabsOK'
  BY <1>1, <1>7 DEF Parts, TabsOK, DroppedArrives
<1> QED BY <1>1, <1>2, <1>3, <1>5, <1>6, <1>7 DEF Parts, PageArrives

\* A log-in or a switch takes the token of its answer, a sign-out takes the cookie away.
LEMMA UserArrivesOK ==
  ASSUME Parts, NEW t \in Tab, UserArrives(t)
  PROVE  /\ Parts' /\ Ended(t, "user") /\ cookie' \in {0, call[t]["user"].new}
         /\ UNCHANGED <<token, revoked, renew, troubled, raced>>
<1>1. /\ UNCHANGED <<member, token, revoked, renew, eventsLeft, troublesLeft, troubled, raced>>
      /\ "user" \in Line /\ "page" \in Line
  BY DEF UserArrives, LoginArrives, SwitchArrives, LogoutArrives, server, bounds, history, Line
<1>2. N' = N /\ N \in Nat
  BY <1>1, NIsNat DEF Parts, N
<1>3. /\ cookie' \in {0, call[t]["user"].new} /\ cookie' \in 0 .. N
  BY <1>1, <1>2, AtCall DEF UserArrives, LoginArrives, SwitchArrives, LogoutArrives
<1>4. ServerOK' /\ RenewOK'
  BY <1>1, <1>3, AllButCalls
<1>5. ASSUME LoginArrives(t) PROVE CallOK' /\ TabsOK' /\ Ended(t, "user")
  <2>1. Ends(t, "user") /\ tab' = Put(tab, t, Inside(token[call[t]["user"].new])) /\ UNCHANGED <<rows, mixed>>
    BY <1>5 DEF LoginArrives, Put, history
  <2>2. token[call[t]["user"].new] \in Place
    BY <1>1, <1>5, AtCall DEF LoginArrives
  <2>3. Inside(token[call[t]["user"].new]) \in TabState
    BY <2>2, TabValues
  <2>4. TabsOK'
    BY <1>1, <2>1, <2>3 DEF Parts, TabsOK, Put
  <2> QED BY <1>1, <2>1, <2>4, EndsOK
<1>6. ASSUME SwitchArrives(t) PROVE CallOK' /\ TabsOK' /\ Ended(t, "user")
  <2>1. PICK refetch \in BOOLEAN, x \in SUBSET Tab :
          /\ call' = Put(call, t, [l \in Line |-> IF l = "user" \/ refetch THEN NoCall ELSE call[t][l]])
          /\ tab' = Put(tab, t, [Inside(token[call[t]["user"].new]) EXCEPT !.view = tab[t].view])
          /\ rows' = Put(rows, t, Invalidated(t)) /\ mixed' = x
    <3>1. mixed \cup {t} \subseteq Tab /\ mixed \ {t} \subseteq Tab
      BY DEF Parts, TabsOK
    <3>2. CASE call[t]["page"].kind = "read" /\ rows[t].co # Nowhere
      BY <1>6, <3>1, <3>2 DEF SwitchArrives, Put, Parts, CallOK
    <3>3. CASE ~(call[t]["page"].kind = "read" /\ rows[t].co # Nowhere)
      BY <1>6, <3>1, <3>3 DEF SwitchArrives, Put, Parts, CallOK
    <3> QED BY <3>2, <3>3
  <2>2. token[call[t]["user"].new] \in Place
    BY <1>1, <1>6, AtCall DEF SwitchArrives
  <2>3. /\ [Inside(token[call[t]["user"].new]) EXCEPT !.view = tab[t].view] \in TabState
        /\ Invalidated(t) \in Rows
    <3>1. Inside(token[call[t]["user"].new]) \in TabState /\ tab[t] \in TabState
      BY <2>2, TabValues DEF Parts, TabsOK
    <3> QED BY <3>1 DEF Invalidated, Parts, TabsOK, Rows, TabState
  <2>4. TabsOK'
    BY <1>1, <2>1, <2>3 DEF Parts, TabsOK, Put
  <2> DEFINE g == [l \in Line |-> IF l = "user" \/ refetch THEN NoCall ELSE call[t][l]]
  <2>5. \A l \in Line : call[t][l] \in Calls(N') /\ NoCall \in Calls(N') /\ NoCall.new = 0
    BY <1>2, AtCall, NothingOK DEF NoCall
  <2>6. g \in [Line -> Calls(N')] /\ g["user"].new = 0 /\ \A l \in Line : g[l].new \in {call[t][l].new, 0}
    BY <1>1, <2>5
  <2>7. call' = Put(call, t, g)
    BY <2>1
  <2> HIDE DEF g
  <2>8. CallOK' /\ call'[t] = g /\ \A u \in Tab : u # t => call'[u] = call[u]
    BY <1>2, <2>6, <2>7, CallLine DEF Parts
  <2> QED BY <2>4, <2>6, <2>8 DEF Ended
<1>7. ASSUME LogoutArrives(t) PROVE CallOK' /\ TabsOK' /\ Ended(t, "user")
  <2>1. SignsOut(t, {"user"}) /\ eventsLeft' \in Nat /\ troublesLeft' \in Nat
    BY <1>1, <1>7 DEF LogoutArrives, Parts, TabsOK
  <2> QED BY <1>1, <2>1, SignsOutEnds
<1> QED BY <1>1, <1>3, <1>4, <1>5, <1>6, <1>7 DEF Parts, UserArrives

\* The first 401 waits, and may start an exchange.
LEMMA UnauthorizedOK ==
  ASSUME Parts, NEW t \in Tab, NEW l \in Line, Unauthorized(t, l)
  PROVE  /\ Parts' /\ \A u \in Tab, m \in Line : call'[u][m].new = call[u][m].new
         /\ UNCHANGED <<token, revoked, cookie, troubled>>
         /\ \/ UNCHANGED <<renew, raced>>
            \/ /\ renew[t].pc = "none" /\ renew' = Put(renew, t, Sent(cookie))
               /\ raced' = IF Contested(t, cookie) THEN raced \cup {cookie} ELSE raced
<1>1. /\ UNCHANGED <<member, token, revoked, cookie, tab, rows, eventsLeft, troublesLeft, troubled, mixed>>
      /\ \/ UNCHANGED <<renew, raced>>
         \/ /\ renew[t].pc = "none" /\ renew' = Put(renew, t, Sent(cookie))
            /\ raced' = IF Contested(t, cookie) THEN raced \cup {cookie} ELSE raced
  BY DEF Unauthorized, server, bounds, Put
<1>2. N' = N /\ N \in Nat
  BY <1>1, NIsNat DEF Parts, N
<1>3. RenewOK' /\ raced' \subseteq 0 .. N
  <2>1. CASE UNCHANGED <<renew, raced>>
    BY <1>1, <1>2, <2>1, RenewSame DEF Parts, ServerOK
  <2>2. CASE ~UNCHANGED <<renew, raced>>
    BY <1>1, <1>2, <2>2, SendingOK
  <2> QED BY <2>1, <2>2
<1>4. ServerOK' /\ TabsOK'
  BY <1>1, <1>2, <1>3, QuietServer DEF Parts, ServerOK, TabsOK
<1> DEFINE x == [call[t][l] EXCEPT !.pc = "waiting"]
<1>5. call' = Updated(call, t, l, x)
  BY DEF Unauthorized, Updated, Parts, CallOK
<1>6. x \in Calls(N') /\ x.new = call[t][l].new
  <2>1. call[t][l] \in Calls(N')
    BY <1>2, AtCall
  <2> QED BY <1>2, <2>1, WaitsOK DEF Calls, Calling
<1> HIDE DEF x
<1>7. /\ CallOK' /\ call'[t][l] = x
      /\ \A u \in Tab, m \in Line : u # t \/ m # l => call'[u][m] = call[u][m]
  BY <1>2, <1>5, <1>6, CallPut DEF Parts
<1> QED BY <1>1, <1>3, <1>4, <1>6, <1>7 DEF Parts

\* The calls that fail, are lost or are never made anew.
LEMMA FailsOK ==
  ASSUME Parts, NEW t \in Tab, NEW l \in Line, Fails(t, l) \/ CallLost(t, l)
  PROVE  Parts' /\ Ended(t, l) /\ UNCHANGED <<token, revoked, cookie, renew, troubled, raced>>
<1>1. /\ UNCHANGED <<member, token, revoked, cookie, renew, troubled, raced>>
      /\ SignsOut(t, {l}) \/ (Ends(t, l) /\ UNCHANGED <<tab, rows, mixed>>)
      /\ Trouble \/ UNCHANGED bounds
  BY DEF Fails, CallLost, GivesUp, server
<1>2. N' = N /\ N \in Nat /\ eventsLeft' \in Nat /\ troublesLeft' \in Nat
  BY <1>1, NIsNat, BoundsNext DEF Parts, N
<1>5. ServerOK' /\ RenewOK'
  <2>1. cookie' \in 0 .. N
    BY <1>1 DEF Parts, ServerOK
  <2> QED BY <1>1, <2>1, AllButCalls
<1>3. CASE SignsOut(t, {l})
  BY <1>1, <1>2, <1>3, <1>5, SignsOutEnds DEF Parts
<1>4. CASE Ends(t, l) /\ UNCHANGED <<tab, rows, mixed>>
  <2>1. CallOK' /\ Ended(t, l)
    BY <1>1, <1>4, EndsOK
  <2>2. TabsOK'
    BY <1>2, <1>4 DEF Parts, TabsOK
  <2> QED BY <1>1, <1>5, <2>1, <2>2 DEF Parts
<1> QED BY <1>1, <1>3, <1>4

\* A page is loaded anew: its exchange and its calls are gone.
LEMMA ReloadOK ==
  ASSUME Parts, NEW t \in Tab, Reload(t)
  PROVE  /\ Parts' /\ UNCHANGED <<token, revoked, cookie, troubled, raced>>
         /\ renew' = Put(renew, t, NoRenew) /\ Leaves(t)
         /\ renew[t].pc \in {"none", "silent"} /\ call'[t] = [l \in Line |-> NoCall]
<1>1. /\ UNCHANGED <<member, token, revoked, cookie, troubled, raced>> /\ Event
      /\ renew' = Put(renew, t, NoRenew) /\ renew[t].pc \in {"none", "silent"}
      /\ call' = Put(call, t, [l \in Line |-> NoCall])
  BY DEF Reload, server, Put, Idle
<1>2. N' = N /\ N \in Nat /\ eventsLeft' \in Nat /\ troublesLeft' \in Nat
  BY <1>1, NIsNat, BoundsNext DEF Parts, N
<1>3. ServerOK' /\ RenewOK'
  BY <1>1, QuietServer, RenewEndsOK DEF Parts, ServerOK
<1>4. [l \in Line |-> NoCall] \in [Line -> Calls(N')]
  BY <1>2, NothingOK
<1>5. CallOK' /\ call'[t] = [l \in Line |-> NoCall] /\ \A u \in Tab : u # t => call'[u] = call[u]
  BY <1>1, <1>2, <1>4, CallLine DEF Parts
<1>6. /\ tab' = Put(tab, t, [Outside EXCEPT !.view = "boot"]) /\ rows' = Put(rows, t, NoRows)
      /\ mixed' \subseteq Tab
  BY DEF Reload, Put, Parts, TabsOK
<1>7. [Outside EXCEPT !.view = "boot"] \in TabState /\ NoRows \in Rows
  BY <1>2, TabValues, NothingOK
<1>8. TabsOK'
  BY <1>2, <1>6, <1>7 DEF Parts, TabsOK, Put
<1> QED BY <1>1, <1>3, <1>5, <1>8 DEF Parts, Leaves

LEMMA EventsOK ==
  ASSUME Parts, \/ \E t \in Tab : AccessExpires(t)
                \/ \E c \in Company : Deactivate(c)
  PROVE  Parts' /\ UNCHANGED <<token, revoked, cookie, renew, call, troubled, raced>>
<1>1. UNCHANGED <<token, revoked, cookie, renew, call, troubled, raced>> /\ Event
  BY DEF AccessExpires, Deactivate, server, history
<1>2. N' = N /\ N \in Nat /\ eventsLeft' \in Nat /\ troublesLeft' \in Nat
  BY <1>1, NIsNat, BoundsNext DEF Parts, N
<1>3. member' \subseteq Company /\ home \in member'
  BY DEF Parts, ServerOK, AccessExpires, Deactivate, server
<1>4. ServerOK' /\ RenewOK' /\ CallOK'
  BY <1>1, <1>2, <1>3, QuietServer, RenewSame, CallSame DEF Parts, ServerOK
<1>5. ASSUME NEW t \in Tab, AccessExpires(t) PROVE TabsOK'
  BY <1>2, <1>5 DEF AccessExpires, history, Parts, TabsOK, TabState
<1>6. ASSUME NEW c \in Company, Deactivate(c) PROVE TabsOK'
  BY <1>2, <1>6 DEF Deactivate, history, Parts, TabsOK
<1> QED BY <1>1, <1>4, <1>5, <1>6 DEF Parts

-----------------------------------------------------------------------------
(* Type correctness.                                                       *)

LEMMA InitOK == Init => Parts
<1> SUFFICES ASSUME Init PROVE Parts
  OBVIOUS
<1>1. PICK c \in Company : token = <<c>>
  BY DEF Init
<1>2. N = 1 /\ token \in Seq(Place) /\ 0 .. N = {0, 1}
  BY <1>1 DEF N, Place
<1>3. ServerOK
  BY <1>2, WebSessionAssumption DEF Init, ServerOK
<1>4. NoRenew \in Renewals(N) /\ NoCall \in Calls(N) /\ NoRows \in Rows
  BY <1>2, NothingOK
<1>5. TabsOK
  BY <1>4, TabValues, WebSessionAssumption DEF Init, TabsOK
<1>6. RenewOK /\ CallOK
  BY <1>4 DEF Init, RenewOK, CallOK
<1> QED BY <1>3, <1>5, <1>6 DEF Parts

LEMMA RenewStepOK ==
  ASSUME Parts, NEW t \in Tab, RenewStep(t)
  PROVE  Parts'
<1>1. CASE Open(t)
  BY <1>1, OpenOK
<1>2. CASE Check(t)
  BY <1>2, CheckOK
<1>3. CASE Issue(t)
  BY <1>3, IssueOK
<1>4. CASE Receive(t)
  BY <1>4, ReceiveOK
<1>5. CASE Refused(t)
  BY <1>5, RefusedOK
<1>6. CASE RenewLost(t)
  BY <1>6, RenewLostOK
<1>7. CASE Throttled(t) \/ ExchangeFails(t)
  BY <1>7, ExchangeFailsOK
<1>8. CASE FailureArrives(t)
  BY <1>8, FailureArrivesOK
<1>9. CASE RenewSilent(t)
  BY <1>9, SilentOK
<1> QED BY <1>1, <1>2, <1>3, <1>4, <1>5, <1>6, <1>7, <1>8, <1>9 DEF RenewStep

\* Types; no token is sent, held, revoked or awaited that was not issued, whoever asks for one.
LEMMA TypeNext == Parts /\ [Next]_webVars => Parts'
<1> SUFFICES ASSUME Parts, [Next]_webVars PROVE Parts'
  OBVIOUS
<1>1. CASE \E t \in Tab : RenewStep(t) \/ RenewBreaks(t)
  BY <1>1, RenewStepOK, RenewLostOK
<1>2. CASE \E t \in Tab : Fetch(t) \/ UserActs(t) \/ \E l \in Line : Retry(t, l)
  BY <1>2, AsksOK
<1>3. CASE \E t \in Tab : PageArrives(t)
  BY <1>3, ArrivesOK
<1>4. CASE \E t \in Tab : UserArrives(t)
  BY <1>4, UserArrivesOK
<1>5. CASE \E t \in Tab, l \in Line : Unauthorized(t, l)
  BY <1>5, UnauthorizedOK
<1>6. CASE \E t \in Tab, l \in Line : Fails(t, l) \/ CallLost(t, l)
  BY <1>6, FailsOK
<1>7. CASE (\E t \in Tab : Reload(t) \/ AccessExpires(t)) \/ \E c \in Company : Deactivate(c)
  BY <1>7, EventsOK, ReloadOK
<1>8. CASE UNCHANGED webVars
  BY <1>8 DEF webVars, server, bounds, history, Parts, ServerOK, TabsOK, RenewOK, CallOK, N
<1> QED BY <1>1, <1>2, <1>3, <1>4, <1>5, <1>6, <1>7, <1>8 DEF Next, CallStep

\* Types, of everything the tabs, the calls under way and the server hold.
THEOREM TypeCorrect == Spec => []TypeOK
<1>1. Init => Parts
  BY InitOK
<1>2. Parts /\ [Next]_webVars => Parts'
  BY TypeNext
<1>3. Parts => TypeOK
  BY TypeParts
<1> QED BY <1>1, <1>2, <1>3, PTL DEF Spec

-----------------------------------------------------------------------------
(* A session does not end on its own.  A token that is on its way has been *)
(* seen by nobody; one that was revoked is in the cookie, or in an         *)
(* exchange, only for one of the causes, or while the exchange that        *)
(* revoked it has still to be heard of.                                    *)

Slot == Line \cup {"renew"}

\* The token that the tab's exchange or call brings, 0 for none.
New(t, s) == IF s = "renew" THEN renew[t].new ELSE call[t][s].new

Unseen(n) == n # cookie /\ n \notin revoked /\ \A u \in Tab : renew[u].token # n

NewUnseen == \A t \in Tab, s \in Slot : New(t, s) # 0 => Unseen(New(t, s))
NewOnce   == \A t, u \in Tab, s, r \in Slot : New(t, s) # 0 /\ New(t, s) = New(u, r) => t = u /\ s = r

Cause == {0} \cup troubled \cup raced

CookieCause == cookie \in revoked =>
                 \/ cookie \in Cause
                 \/ \E u \in Tab : renew[u].pc = "ok" /\ renew[u].token = cookie
SentCause   == \A t \in Tab : renew[t].pc \in {"sent", "checked"} /\ renew[t].token \in revoked
                                => renew[t].token \in Cause
EndedForCause == \A t \in Tab : renew[t].pc \in {"refused", "failed", "throttled"} => renew[t].token \in Cause

NewInv == NewUnseen /\ NewOnce
Causes == CookieCause /\ SentCause /\ EndedForCause
SessionInv == Parts /\ NewInv /\ Causes

LEMMA SlotIs == Slot = {"renew", "page", "user"} /\ Line = {"page", "user"} /\ "renew" \notin Line
BY DEF Slot, Line

LEMMA NewBound ==
  ASSUME Parts
  PROVE  N \in Nat /\ \A t \in Tab, s \in Slot : New(t, s) \in 0 .. N
<1>1. ASSUME NEW t \in Tab, NEW s \in Slot PROVE New(t, s) \in 0 .. N
  <2>1. CASE s = "renew"
    BY <2>1, AtRenew DEF New
  <2>2. CASE s # "renew"
    BY <2>2, AtCall, SlotIs DEF New
  <2> QED BY <2>1, <2>2
<1> QED BY <1>1, NIsNat DEF Parts

\* Tokens on their way stay, or are dropped.
Fades == \A t \in Tab, s \in Slot : New(t, s)' \in {New(t, s), 0}

LEMMA FadingOnce == NewOnce /\ Fades => NewOnce'
BY DEF NewOnce, Fades

\* The exchanges send what they sent, or the cookie, or nothing.
LEMMA FadingUnseen ==
  ASSUME NewUnseen, Fades, UNCHANGED <<cookie, revoked>>,
         \A u \in Tab : renew'[u].token \in {renew[u].token, cookie, 0}
  PROVE  NewUnseen'
<1> SUFFICES ASSUME NEW t \in Tab, NEW s \in Slot, New(t, s)' # 0 PROVE Unseen(New(t, s))'
  BY DEF NewUnseen
<1>1. New(t, s)' = New(t, s) /\ Unseen(New(t, s))
  BY DEF Fades, NewUnseen
<1> QED BY <1>1 DEF Unseen

LEMMA CausesKept ==
  ASSUME Causes, UNCHANGED <<cookie, revoked, renew, troubled, raced>>
  PROVE  Causes'
BY DEF Causes, CookieCause, SentCause, EndedForCause, Cause

\* An exchange of the cookie starts: what is wrong with the cookie is that of the exchange.
LEMMA Sending ==
  ASSUME SessionInv, NEW t \in Tab, renew[t].pc = "none", renew' = Put(renew, t, Sent(cookie)),
         raced' = (IF Contested(t, cookie) THEN raced \cup {cookie} ELSE raced),
         UNCHANGED <<cookie, revoked, troubled>>, \A u \in Tab, l \in Line : call'[u][l].new = call[u][l].new
  PROVE  NewInv' /\ Causes'
<1>1. /\ renew'[t] = Sent(cookie) /\ \A u \in Tab : u # t => renew'[u] = renew[u]
      /\ Sent(cookie).pc = "sent" /\ Sent(cookie).token = cookie /\ Sent(cookie).new = 0
  BY DEF SessionInv, Parts, RenewOK, Put, Sent
<1>2. Fades
  BY <1>1, SlotIs DEF Fades, New
<1>3. NewInv'
  <2>1. \A u \in Tab : renew'[u].token \in {renew[u].token, cookie, 0}
    BY <1>1
  <2> QED BY <1>2, <2>1, FadingOnce, FadingUnseen DEF SessionInv, NewInv
<1>4. Cause \subseteq Cause'
  BY DEF Cause
<1>5. CookieCause'
  <2>1. ASSUME NEW u \in Tab, renew[u].pc = "ok" PROVE renew'[u] = renew[u]
    BY <1>1, <2>1
  <2> QED BY <1>4, <2>1 DEF SessionInv, Causes, CookieCause
<1>6. SentCause'
  <2> SUFFICES ASSUME NEW u \in Tab, renew'[u].pc \in {"sent", "checked"}, renew'[u].token \in revoked
               PROVE  renew'[u].token \in Cause'
    BY DEF SentCause
  <2>1. CASE u # t
    BY <1>1, <1>4, <2>1 DEF SessionInv, Causes, SentCause
  <2>2. CASE u = t /\ cookie \in Cause
    BY <1>1, <1>4, <2>2
  <2>3. CASE u = t /\ cookie \notin Cause
    <3>1. PICK w \in Tab : renew[w].pc = "ok" /\ renew[w].token = cookie
      BY <1>1, <2>3 DEF SessionInv, Causes, CookieCause
    <3>2. Contested(t, cookie)
      BY <2>3, <3>1 DEF Contested, Cause
    <3> QED BY <1>1, <2>3, <3>2 DEF Cause
  <2> QED BY <2>1, <2>2, <2>3
<1>7. EndedForCause'
  BY <1>1, <1>4 DEF SessionInv, Causes, EndedForCause, Cause
<1> QED BY <1>3, <1>5, <1>6, <1>7 DEF Causes

\* What is refused was revoked, or nothing.
LEMMA Checking ==
  ASSUME SessionInv, NEW t \in Tab, Check(t)
  PROVE  NewInv' /\ Causes'
<1>1. UNCHANGED <<cookie, revoked, troubled, raced, call>>
  BY DEF Check, server, history
<1>2. /\ renew[t].pc = "sent" /\ \A u \in Tab : u # t => renew'[u] = renew[u]
      /\ renew'[t].token = renew[t].token /\ renew'[t].new = renew[t].new
      /\ \/ renew'[t].pc = "checked"
         \/ renew'[t].pc = "refused" /\ ~Passes(renew[t].token)
  BY AtRenew DEF Check, SessionInv, Parts, RenewOK, Renewals, Renewal
<1>3. Fades
  BY <1>1, <1>2, SlotIs DEF Fades, New
<1>4. NewInv'
  <2>1. \A u \in Tab : renew'[u].token \in {renew[u].token, cookie, 0}
    BY <1>2
  <2> QED BY <1>1, <1>3, <2>1, FadingOnce, FadingUnseen DEF SessionInv, NewInv
<1>5. Cause' = Cause
  BY <1>1 DEF Cause
<1>6. CookieCause'
  BY <1>1, <1>2, <1>5 DEF SessionInv, Causes, CookieCause
<1>7. SentCause'
  BY <1>1, <1>2, <1>5 DEF SessionInv, Causes, SentCause
<1>8. EndedForCause'
  <2>1. renew'[t].pc = "refused" => renew[t].token \in Cause
    <3>1. ~Passes(renew[t].token) => renew[t].token \in revoked \/ renew[t].token = 0
      BY DEF Passes
    <3> QED BY <1>2, <3>1 DEF SessionInv, Causes, SentCause, Cause
  <2> QED BY <1>1, <1>2, <1>5, <2>1 DEF SessionInv, Causes, EndedForCause, Cause
<1> QED BY <1>4, <1>6, <1>7, <1>8 DEF Causes

\* A token is revoked and another issued: who sent the old one too has raced.
LEMMA Issuing ==
  ASSUME SessionInv, NEW t \in Tab, Issue(t)
  PROVE  NewInv' /\ Causes'
<1> DEFINE k == renew[t].token
<1>1. /\ UNCHANGED <<cookie, troubled, call>> /\ revoked' = revoked \cup {k} /\ renew[t].pc = "checked"
      /\ raced' = IF Contested(t, k) THEN raced \cup {k} ELSE raced
  BY DEF Issue
<1>2. N' = N + 1 /\ renew'[t].new = N + 1 /\ N \in Nat /\ \A u \in Tab, s \in Slot : New(u, s) \in 0 .. N
  BY IssueOK, NewBound DEF SessionInv
<1>3. /\ \A u \in Tab : u # t => renew'[u] = renew[u]
      /\ renew'[t].token = k /\ renew'[t].pc = "ok"
  BY AtRenew DEF Issue, SessionInv, Parts, RenewOK, Renewals, Renewal
<1>4. cookie \in 0 .. N /\ revoked \subseteq 0 .. N /\ \A u \in Tab : renew[u].token \in 0 .. N
  BY AtRenew DEF SessionInv, Parts, ServerOK
<1>5. /\ New(t, "renew")' = N + 1
      /\ \A u \in Tab, s \in Slot : u # t \/ s # "renew" => New(u, s)' = New(u, s)
  BY <1>1, <1>2, <1>3 DEF New
<1>6. NewOnce'
  BY <1>2, <1>5 DEF SessionInv, NewInv, NewOnce
<1>7. NewUnseen'
  <2> SUFFICES ASSUME NEW u \in Tab, NEW s \in Slot, New(u, s)' # 0 PROVE Unseen(New(u, s))'
    BY DEF NewUnseen
  <2>1. \A w \in Tab : renew'[w].token = renew[w].token
    BY <1>3
  <2>2. CASE u = t /\ s = "renew"
    <3>1. New(u, s)' = N + 1
      BY <1>5, <2>2
    <3> QED BY <1>1, <1>2, <1>4, <2>1, <3>1 DEF Unseen
  <2>3. CASE u # t \/ s # "renew"
    <3>1. New(u, s)' = New(u, s) /\ Unseen(New(u, s))
      BY <1>5, <2>3 DEF SessionInv, NewInv, NewUnseen
    <3> QED BY <1>1, <2>1, <3>1 DEF Unseen
  <2> QED BY <2>2, <2>3
<1>8. Cause \subseteq Cause' /\ (Contested(t, k) => k \in Cause') /\ 0 \in Cause'
  BY <1>1 DEF Cause
<1>9. CookieCause'
  <2>1. CASE cookie = k
    BY <1>1, <1>3, <2>1 DEF CookieCause
  <2>2. CASE cookie # k
    BY <1>1, <1>3, <1>8, <2>2 DEF SessionInv, Causes, CookieCause
  <2> QED BY <2>1, <2>2
<1>10. SentCause'
  <2> SUFFICES ASSUME NEW u \in Tab, renew'[u].pc \in {"sent", "checked"}, renew'[u].token \in revoked'
               PROVE  renew'[u].token \in Cause'
    BY DEF SentCause
  <2>1. u # t /\ renew'[u] = renew[u]
    BY <1>3
  <2>2. CASE renew[u].token = k
    BY <1>8, <2>1, <2>2 DEF Contested
  <2>3. CASE renew[u].token # k
    BY <1>1, <1>8, <2>1, <2>3 DEF SessionInv, Causes, SentCause
  <2> QED BY <2>2, <2>3
<1>11. EndedForCause'
  BY <1>3, <1>8 DEF SessionInv, Causes, EndedForCause, Cause
<1> QED BY <1>6, <1>7, <1>9, <1>10, <1>11 DEF NewInv, Causes

\* A token nobody has seen, or none, becomes the cookie, and is on its way no more.
LEMMA Taking ==
  ASSUME SessionInv, NEW t \in Tab, NEW s \in Slot, cookie' \in {0, New(t, s)}, New(t, s)' = 0, Fades,
         UNCHANGED <<revoked, troubled, raced>>,
         \A u \in Tab : renew'[u] = renew[u] \/ renew'[u] = NoRenew
  PROVE  NewInv' /\ Causes'
<1>1. NoRenew.token = 0 /\ NoRenew.pc = "none"
  BY DEF NoRenew
<1>2. NewOnce'
  BY FadingOnce DEF SessionInv, NewInv
<1>3. NewUnseen'
  <2> SUFFICES ASSUME NEW u \in Tab, NEW r \in Slot, New(u, r)' # 0 PROVE Unseen(New(u, r))'
    BY DEF NewUnseen
  <2>1. New(u, r)' = New(u, r) /\ Unseen(New(u, r))
    BY DEF Fades, SessionInv, NewInv, NewUnseen
  <2>2. New(u, r) # New(t, s)
    BY <2>1 DEF SessionInv, NewInv, NewOnce
  <2>3. \A w \in Tab : renew'[w].token # New(u, r)
    BY <1>1, <2>1 DEF Unseen
  <2> QED BY <2>1, <2>2, <2>3 DEF Unseen
<1>4. Cause' = Cause
  BY DEF Cause
<1>5. CookieCause'
  <2>1. cookie' = 0 \/ cookie' \notin revoked
    BY DEF SessionInv, NewInv, NewUnseen, Unseen
  <2> QED BY <2>1 DEF CookieCause, Cause
<1>6. SentCause'
  BY <1>1, <1>4 DEF SessionInv, Causes, SentCause
<1>7. EndedForCause'
  BY <1>1, <1>4 DEF SessionInv, Causes, EndedForCause
<1> QED BY <1>2, <1>3, <1>5, <1>6, <1>7 DEF NewInv, Causes

\* An exchange ends without a token: its answer is lost, or it is refused.
LEMMA Ending ==
  ASSUME SessionInv, NEW t \in Tab, renew' = Put(renew, t, NoRenew), UNCHANGED <<revoked, raced>>,
         cookie' \in {0, cookie}, troubled \subseteq troubled',
         renew[t].pc = "ok" => renew[t].token \in troubled',
         \A u \in Tab, l \in Line : call'[u][l].new \in {call[u][l].new, 0}
  PROVE  NewInv' /\ Causes'
<1>1. /\ renew'[t] = NoRenew /\ \A u \in Tab : u # t => renew'[u] = renew[u]
      /\ NoRenew.pc = "none" /\ NoRenew.token = 0 /\ NoRenew.new = 0
  BY DEF SessionInv, Parts, RenewOK, Put, NoRenew
<1>2. Fades
  BY <1>1, SlotIs DEF Fades, New
<1>3. NewOnce'
  BY <1>2, FadingOnce DEF SessionInv, NewInv
<1>4. NewUnseen'
  <2> SUFFICES ASSUME NEW u \in Tab, NEW r \in Slot, New(u, r)' # 0 PROVE Unseen(New(u, r))'
    BY DEF NewUnseen
  <2>1. New(u, r)' = New(u, r) /\ Unseen(New(u, r))
    BY <1>2 DEF Fades, SessionInv, NewInv, NewUnseen
  <2>2. \A w \in Tab : renew'[w].token # New(u, r)
    BY <1>1, <2>1 DEF Unseen
  <2> QED BY <2>1, <2>2 DEF Unseen
<1>5. Cause \subseteq Cause' /\ 0 \in Cause'
  BY DEF Cause
<1>6. CookieCause'
  <2> SUFFICES ASSUME cookie' = cookie, cookie \in revoked, cookie \notin Cause'
               PROVE  \E u \in Tab : renew'[u].pc = "ok" /\ renew'[u].token = cookie
    BY <1>5 DEF CookieCause
  <2>1. PICK u \in Tab : renew[u].pc = "ok" /\ renew[u].token = cookie
    BY <1>5 DEF SessionInv, Causes, CookieCause
  <2>2. u # t
    BY <2>1 DEF Cause
  <2> QED BY <1>1, <2>1, <2>2
<1>7. SentCause'
  BY <1>1, <1>5 DEF SessionInv, Causes, SentCause
<1>8. EndedForCause'
  BY <1>1, <1>5 DEF SessionInv, Causes, EndedForCause, Cause
<1> QED BY <1>3, <1>4, <1>6, <1>7, <1>8 DEF NewInv, Causes

\* An exchange that fails, or is not answered, is a cause from then on.
LEMMA Troubling ==
  ASSUME SessionInv, NEW t \in Tab, UNCHANGED <<cookie, raced, call>>,
         NEW x, renew' = Put(renew, t, x), x.pc \in {"failed", "throttled", "silent"},
         x.token = renew[t].token, x.new \in {renew[t].new, 0},
         revoked' \in {revoked, revoked \cup {renew[t].token}}, troubled \subseteq troubled',
         x.pc # "silent" \/ renew[t].pc = "ok" => renew[t].token \in troubled',
         x.pc = "silent" => revoked' = revoked
  PROVE  NewInv' /\ Causes'
<1>1. renew'[t] = x /\ \A u \in Tab : u # t => renew'[u] = renew[u]
  BY DEF SessionInv, Parts, RenewOK, Put
<1>2. Fades
  BY <1>1, SlotIs DEF Fades, New
<1>3. NewOnce'
  BY <1>2, FadingOnce DEF SessionInv, NewInv
<1>4. NewUnseen'
  <2> SUFFICES ASSUME NEW u \in Tab, NEW r \in Slot, New(u, r)' # 0 PROVE Unseen(New(u, r))'
    BY DEF NewUnseen
  <2>1. New(u, r)' = New(u, r) /\ Unseen(New(u, r))
    BY <1>2 DEF Fades, SessionInv, NewInv, NewUnseen
  <2>2. \A w \in Tab : renew'[w].token = renew[w].token
    BY <1>1
  <2>3. New(u, r) \notin revoked'
    BY <2>1 DEF Unseen
  <2> QED BY <2>1, <2>2, <2>3 DEF Unseen
<1>5. Cause \subseteq Cause' /\ (x.pc # "silent" \/ renew[t].pc = "ok" => renew[t].token \in Cause')
  BY DEF Cause
<1>6. \A k \in revoked' : k \in revoked \/ k \in Cause'
  BY <1>5
<1>7. CookieCause'
  <2> SUFFICES ASSUME cookie \in revoked', cookie \notin Cause'
               PROVE  \E u \in Tab : renew'[u].pc = "ok" /\ renew'[u].token = cookie
    BY DEF CookieCause
  <2>1. PICK u \in Tab : renew[u].pc = "ok" /\ renew[u].token = cookie
    BY <1>5, <1>6 DEF SessionInv, Causes, CookieCause
  <2> QED BY <1>1, <1>5, <2>1
<1>8. SentCause'
  <2> SUFFICES ASSUME NEW u \in Tab, renew'[u].pc \in {"sent", "checked"}, renew'[u].token \in revoked'
               PROVE  renew'[u].token \in Cause'
    BY DEF SentCause
  <2>1. renew'[u] = renew[u]
    BY <1>1
  <2> QED BY <1>5, <1>6, <2>1 DEF SessionInv, Causes, SentCause
<1>9. EndedForCause'
  <2> SUFFICES ASSUME NEW u \in Tab, renew'[u].pc \in {"refused", "failed", "throttled"}
               PROVE  renew'[u].token \in Cause'
    BY DEF EndedForCause
  <2>1. CASE u = t
    BY <1>1, <1>5, <2>1
  <2>2. CASE u # t
    BY <1>1, <1>5, <2>2 DEF SessionInv, Causes, EndedForCause
  <2> QED BY <2>1, <2>2
<1> QED BY <1>3, <1>4, <1>7, <1>8, <1>9 DEF NewInv, Causes

LEMMA TroubleInv ==
  ASSUME SessionInv, NEW t \in Tab, Throttled(t) \/ ExchangeFails(t) \/ RenewSilent(t)
  PROVE  NewInv' /\ Causes'
<1>1. renew[t] \in Renewals(N) /\ UNCHANGED <<cookie, raced, call>>
  BY AtRenew DEF SessionInv, Throttled, ExchangeFails, RenewSilent
<1>2. CASE Throttled(t) \/ ExchangeFails(t)
  <2>1. PICK p \in {"throttled", "failed"} : renew' = Put(renew, t, [renew[t] EXCEPT !.pc = p])
    BY <1>2 DEF Throttled, ExchangeFails, Put
  <2>2. /\ revoked' \in {revoked, revoked \cup {renew[t].token}} /\ troubled' = troubled \cup {renew[t].token}
    BY <1>2 DEF Throttled, ExchangeFails, server
  <2> DEFINE x == [renew[t] EXCEPT !.pc = p]
  <2>3. x.pc = p /\ x.token = renew[t].token /\ x.new = renew[t].new /\ renew' = Put(renew, t, x)
    BY <1>1, <2>1 DEF Renewals, Renewal
  <2> HIDE DEF x
  <2> QED BY <1>1, <2>2, <2>3, Troubling
<1>3. CASE RenewSilent(t)
  <2> DEFINE x == [renew[t] EXCEPT !.pc = "silent", !.new = 0]
  <2>1. renew' = Put(renew, t, x) /\ UNCHANGED revoked
    BY <1>3 DEF RenewSilent, Put, server
  <2>2. troubled \subseteq troubled' /\ (renew[t].pc = "ok" => renew[t].token \in troubled')
    BY <1>3 DEF RenewSilent, Unheard
  <2>3. x.pc = "silent" /\ x.token = renew[t].token /\ x.new = 0
    BY <1>1 DEF Renewals, Renewal
  <2> HIDE DEF x
  <2> QED BY <1>1, <2>1, <2>2, <2>3, Troubling
<1> QED BY <1>2, <1>3

\* The exchange ends: it is refused, failed, not answered, or gone with the page.
LEMMA EndInv ==
  ASSUME SessionInv, NEW t \in Tab,
         Refused(t) \/ RenewLost(t) \/ RenewBreaks(t) \/ FailureArrives(t) \/ Reload(t)
  PROVE  NewInv' /\ Causes'
<1>1. UNCHANGED <<revoked, raced>> /\ troubled \subseteq troubled'
      /\ (renew[t].pc = "ok" => renew[t].token \in troubled')
  BY DEF Refused, RenewLost, RenewBreaks, FailureArrives, Reload, Idle, Unheard, server
<1>2. renew' = Put(renew, t, NoRenew) /\ Leaves(t)
  <2>1. Refused(t) => renew' = Put(renew, t, NoRenew)
    BY DEF Refused, Put
  <2> QED BY <2>1, RefusedOK, RenewLostOK, FailureArrivesOK, ReloadOK DEF SessionInv
<1>3. \A u \in Tab, l \in Line : call'[u][l].new \in {call[u][l].new, 0}
  BY <1>2, LeavesNew DEF SessionInv
<1>4. CASE cookie' \in {0, cookie}
  BY <1>1, <1>2, <1>3, <1>4, Ending
<1>5. CASE FailureArrives(t) /\ cookie' = renew[t].new
  <2>1. "renew" \in Slot /\ cookie' = New(t, "renew") /\ UNCHANGED troubled
    BY <1>5 DEF Slot, New, FailureArrives
  <2>2. renew'[t] = NoRenew /\ \A u \in Tab : u # t => renew'[u] = renew[u]
    BY <1>2 DEF SessionInv, Parts, RenewOK, Put
  <2>3. New(t, "renew")' = 0 /\ Fades
    BY <1>3, <2>2, SlotIs DEF New, Fades, NoRenew
  <2> QED BY <1>1, <2>1, <2>2, <2>3, Taking
<1>6. CASE ~FailureArrives(t)
  BY <1>4, <1>6 DEF Refused, RenewLost, RenewBreaks, Reload
<1>7. FailureArrives(t) => cookie' \in {0, cookie, renew[t].new}
  BY FailureArrivesOK DEF SessionInv
<1> QED BY <1>4, <1>5, <1>6, <1>7

\* The steps of one tab's exchange.
LEMMA RenewStepInv ==
  ASSUME SessionInv, NEW t \in Tab, RenewStep(t)
  PROVE  NewInv' /\ Causes'
<1>1. ASSUME Open(t) PROVE NewInv' /\ Causes'
  BY <1>1, Sending DEF Open, Put, server
<1>2. ASSUME Receive(t) PROVE NewInv' /\ Causes'
  <2>1. /\ cookie' = New(t, "renew") /\ UNCHANGED <<revoked, troubled, raced>> /\ "renew" \in Slot
        /\ renew' = Put(renew, t, NoRenew) /\ call' = Put(call, t, AskAgain(t))
    BY <1>2 DEF Receive, NewCookie, New, server, Slot, Put
  <2>2. renew'[t] = NoRenew /\ \A u \in Tab : u # t => renew'[u] = renew[u]
    BY <2>1 DEF SessionInv, Parts, RenewOK, Put
  <2>3. call'[t] = AskAgain(t) /\ \A u \in Tab : u # t => call'[u] = call[u]
    BY <2>1 DEF SessionInv, Parts, CallOK, Put
  <2>4. \A u \in Tab, l \in Line : call'[u][l].new = call[u][l].new
    BY <2>3, AskAgainOK DEF SessionInv
  <2>5. New(t, "renew")' = 0 /\ Fades
    BY <2>2, <2>4, SlotIs DEF New, Fades, NoRenew
  <2> QED BY <2>1, <2>2, <2>5, Taking
<1> QED BY <1>1, <1>2, Checking, Issuing, TroubleInv, EndInv DEF RenewStep

\* A call that is sent holds a token of its own, which nobody has seen.
LEMMA Asking ==
  ASSUME SessionInv, NEW t \in Tab, NEW l \in Line, Asked(t, l)
  PROVE  NewInv' /\ Causes'
<1>1. /\ N \in Nat /\ \A u \in Tab, s \in Slot : New(u, s) \in 0 .. N
      /\ cookie \in 0 .. N /\ revoked \subseteq 0 .. N /\ \A u \in Tab : renew[u].token \in 0 .. N
  BY NewBound, AtRenew DEF SessionInv, Parts, ServerOK
<1>2. /\ l \in Slot /\ l # "renew" /\ New(t, l)' \in {0, N + 1}
      /\ \A u \in Tab, s \in Slot : u # t \/ s # l => New(u, s)' = New(u, s)
  BY SlotIs DEF Asked, New
<1>3. UNCHANGED <<cookie, revoked, renew, troubled, raced>>
  BY DEF Asked
<1>4. NewOnce'
  BY <1>1, <1>2 DEF SessionInv, NewInv, NewOnce
<1>5. NewUnseen'
  <2> SUFFICES ASSUME NEW u \in Tab, NEW s \in Slot, New(u, s)' # 0 PROVE Unseen(New(u, s))'
    BY DEF NewUnseen
  <2>1. CASE u = t /\ s = l
    BY <1>1, <1>2, <1>3, <2>1 DEF Unseen
  <2>2. CASE u # t \/ s # l
    <3>1. New(u, s)' = New(u, s) /\ Unseen(New(u, s))
      BY <1>2, <2>2 DEF SessionInv, NewInv, NewUnseen
    <3> QED BY <1>3, <3>1 DEF Unseen
  <2> QED BY <2>1, <2>2
<1>6. Causes'
  BY <1>3, CausesKept DEF SessionInv
<1> QED BY <1>4, <1>5, <1>6 DEF NewInv

\* Calls end, and nobody notices.
LEMMA Quieting ==
  ASSUME SessionInv, UNCHANGED <<revoked, cookie, renew, troubled, raced>>,
         \A u \in Tab, l \in Line : call'[u][l].new \in {call[u][l].new, 0}
  PROVE  NewInv' /\ Causes'
<1>1. Fades
  BY SlotIs DEF Fades, New
<1>2. NewInv'
  BY <1>1, FadingOnce, FadingUnseen DEF SessionInv, NewInv
<1> QED BY <1>2, CausesKept DEF SessionInv

LEMMA SessionNext == SessionInv /\ [Next]_webVars => SessionInv'
<1> SUFFICES ASSUME SessionInv, [Next]_webVars PROVE NewInv' /\ Causes'
  BY TypeNext DEF SessionInv
<1>1. CASE \E t \in Tab : RenewStep(t) \/ RenewBreaks(t) \/ Reload(t)
  BY <1>1, RenewStepInv, EndInv
<1>2. CASE \E t \in Tab : Fetch(t) \/ UserActs(t) \/ \E l \in Line : Retry(t, l)
  <2>1. PICK t \in Tab, l \in Line : Asked(t, l)
    BY <1>2, AsksOK, SlotIs DEF SessionInv
  <2> QED BY <2>1, Asking
<1>3. CASE \E t \in Tab : PageArrives(t)
  <2>1. UNCHANGED <<revoked, cookie, renew, troubled, raced>>
    BY <1>3, ArrivesOK DEF SessionInv
  <2>2. \A u \in Tab, l \in Line : call'[u][l].new \in {call[u][l].new, 0}
    BY <1>3, ArrivesOK DEF SessionInv, Ended
  <2> QED BY <2>1, <2>2, Quieting
<1>4. CASE \E t \in Tab : UserArrives(t)
  <2>1. PICK t \in Tab : UserArrives(t)
    BY <1>4
  <2>2. /\ cookie' \in {0, New(t, "user")} /\ UNCHANGED <<revoked, renew, troubled, raced>> /\ Ended(t, "user")
        /\ "user" \in Slot
    BY <2>1, UserArrivesOK, SlotIs DEF SessionInv, New
  <2>3. New(t, "user")' = 0 /\ Fades
    BY <2>2, SlotIs DEF Ended, New, Fades
  <2> QED BY <2>2, <2>3, Taking
<1>5. CASE \E t \in Tab, l \in Line : Unauthorized(t, l)
  <2>1. PICK t \in Tab, l \in Line : Unauthorized(t, l)
    BY <1>5
  <2>2. /\ UNCHANGED <<revoked, cookie, troubled>>
        /\ \A u \in Tab, m \in Line : call'[u][m].new = call[u][m].new
        /\ \/ UNCHANGED <<renew, raced>>
           \/ /\ renew[t].pc = "none" /\ renew' = Put(renew, t, Sent(cookie))
              /\ raced' = IF Contested(t, cookie) THEN raced \cup {cookie} ELSE raced
    BY <2>1, UnauthorizedOK DEF SessionInv
  <2>3. CASE UNCHANGED <<renew, raced>>
    BY <2>2, <2>3, Quieting
  <2> QED BY <2>2, <2>3, Sending
<1>6. CASE \E t \in Tab, l \in Line : Fails(t, l) \/ CallLost(t, l)
  <2>1. UNCHANGED <<revoked, cookie, renew, troubled, raced>>
    BY <1>6, FailsOK DEF SessionInv
  <2>2. \A u \in Tab, l \in Line : call'[u][l].new \in {call[u][l].new, 0}
    BY <1>6, FailsOK DEF SessionInv, Ended
  <2> QED BY <2>1, <2>2, Quieting
<1>7. CASE (\E t \in Tab : AccessExpires(t)) \/ \E c \in Company : Deactivate(c)
  <2>1. UNCHANGED <<token, revoked, cookie, renew, call, troubled, raced>>
    BY <1>7, EventsOK DEF SessionInv
  <2> QED BY <2>1, Quieting
<1>8. CASE UNCHANGED webVars
  <2>1. UNCHANGED <<token, revoked, cookie, renew, call, troubled, raced>>
    BY <1>8 DEF webVars, server, history
  <2> QED BY <2>1, Quieting
<1> QED BY <1>1, <1>2, <1>3, <1>4, <1>5, <1>6, <1>7, <1>8 DEF Next, CallStep

\* What a step may do to the sessions of the tabs and to the cookie.
EndsForCause ==
  /\ \A t \in Tab : tab[t].view \in {"boot", "in"} /\ tab'[t].view = "login" => SignsOutForCause(t)
  /\ cookie # 0 /\ cookie' = 0 => \E t \in Tab : SignsOutForCause(t)

\* A step that is about one tab has its cause there.
LEMMA ItsCause ==
  ASSUME NEW t \in Tab, SignsOutForCause(t), \A u \in Tab : u # t => tab'[u] = tab[u]
  PROVE  EndsForCause
BY DEF EndsForCause

LEMMA NoneEnds ==
  ASSUME \A u \in Tab : tab'[u].view \notin {"login"} \ {tab[u].view}, cookie' # 0 \/ cookie = 0
  PROVE  EndsForCause
BY DEF EndsForCause

LEMMA OutAlone ==
  ASSUME Parts, NEW t \in Tab, NEW over, SignsOut(t, over)
  PROVE  \A u \in Tab : u # t => tab'[u] = tab[u]
BY DEF SignsOut, Parts, TabsOK

\* A tab signs out, a failed exchange of its own behind it.
LEMMA RenewEndCause ==
  ASSUME SessionInv, NEW t \in Tab, Refused(t) \/ FailureArrives(t) \/ RenewLost(t) \/ RenewBreaks(t)
  PROVE  EndsForCause
<1>1. Parts /\ tab \in [Tab -> TabState]
  BY DEF SessionInv, Parts, TabsOK
<1>2. ASSUME NoToken(t)
      PROVE  /\ \A u \in Tab : u # t => tab'[u] = tab[u]
             /\ SignsOutForCause(t) \/ \A u \in Tab : tab'[u].view \notin {"login"} \ {tab[u].view}
  <2>1. CASE call[t]["user"].kind = "logout" /\ call[t]["user"].pc = "waiting" /\ SignsOut(t, Waiting(t))
    BY <1>1, <2>1, OutAlone DEF SignsOutForCause, Line
  <2>2. CASE tab' = [tab EXCEPT ![t].view = IF @ = "boot" THEN "unavailable" ELSE @]
    BY <1>1, <2>2 DEF TabState
  <2> QED BY <1>2, <2>1, <2>2 DEF NoToken
<1>3. CASE Refused(t) \/ FailureArrives(t)
  <2>1. SignsOutForCause(t)
    BY <1>3 DEF Refused, FailureArrives, SessionInv, Causes, EndedForCause, Cause, SignsOutForCause
  <2>2. \A u \in Tab : u # t => tab'[u] = tab[u]
    <3>1. SignsOut(t, Waiting(t)) \/ NoToken(t)
      BY <1>3 DEF Refused, FailureArrives
    <3> QED BY <1>1, <1>2, <3>1, OutAlone
  <2> QED BY <2>1, <2>2, ItsCause
<1>4. CASE RenewLost(t) \/ RenewBreaks(t)
  <2>1. NoToken(t) /\ cookie' = cookie
    BY <1>4 DEF RenewLost, RenewBreaks
  <2> QED BY <1>2, <2>1, ItsCause, NoneEnds
<1> QED BY <1>3, <1>4

\* A call ends: a sign-out is the user's.
LEMMA CallEndCause ==
  ASSUME SessionInv, NEW t \in Tab,
         \/ UserArrives(t)
         \/ \E l \in Line : Fails(t, l) \/ CallLost(t, l)
  PROVE  EndsForCause
<1>1. Parts /\ tab \in [Tab -> TabState] /\ "user" \in Line
  BY DEF SessionInv, Parts, TabsOK, Line
<1>2. ASSUME NEW l \in Line, call[t][l].kind = "logout", call[t][l].pc # "none", SignsOut(t, {l})
      PROVE  EndsForCause
  <2>1. SignsOutForCause(t)
    BY <1>2 DEF SignsOutForCause
  <2> QED BY <1>1, <1>2, <2>1, OutAlone, ItsCause
<1>3. ASSUME NEW l \in Line, Fails(t, l) \/ CallLost(t, l) PROVE EndsForCause
  <2>1. GivesUp(t, l) /\ call[t][l].pc # "none"
    BY <1>3 DEF Fails, CallLost
  <2>2. CASE call[t][l].kind = "logout"
    BY <1>2, <2>1, <2>2 DEF GivesUp
  <2>3. CASE call[t][l].kind # "logout"
    BY <2>1, <2>3, NoneEnds DEF GivesUp
  <2> QED BY <2>2, <2>3
<1>4. CASE LogoutArrives(t)
  BY <1>1, <1>2, <1>4 DEF LogoutArrives
<1>5. CASE LoginArrives(t) \/ SwitchArrives(t)
  <2>1. call[t]["user"].new # 0 /\ cookie' = call[t]["user"].new
    BY <1>1, <1>5, AtCall DEF LoginArrives, SwitchArrives
  <2>2. PICK x \in {Inside(token[call[t]["user"].new]),
                    [Inside(token[call[t]["user"].new]) EXCEPT !.view = tab[t].view]} : tab' = Put(tab, t, x)
    BY <1>5 DEF LoginArrives, SwitchArrives, Put
  <2>3. x.view \in {"in", tab[t].view}
    BY <2>2 DEF Inside
  <2>4. \A u \in Tab : tab'[u].view \notin {"login"} \ {tab[u].view}
    BY <1>1, <2>2, <2>3 DEF Put
  <2> QED BY <2>1, <2>4, NoneEnds
<1> QED BY <1>3, <1>4, <1>5 DEF UserArrives

\* The other steps clear no cookie and sign nobody out.
LEMMA OthersEndNone ==
  ASSUME SessionInv, NEW t \in Tab,
         \/ Open(t) \/ Check(t) \/ Issue(t) \/ Receive(t) \/ Throttled(t) \/ ExchangeFails(t) \/ RenewSilent(t)
         \/ Fetch(t) \/ UserActs(t) \/ PageArrives(t) \/ Reload(t) \/ AccessExpires(t)
         \/ \E l \in Line : Retry(t, l) \/ Unauthorized(t, l)
  PROVE  EndsForCause
<1>1. Parts /\ tab \in [Tab -> TabState]
  BY DEF SessionInv, Parts, TabsOK
<1>2. CASE Receive(t)
  <2>1. cookie' # 0
    BY <1>1, <1>2, AtRenew DEF Receive, NewCookie
  <2>2. PICK c : tab' = Put(tab, t, IF tab[t].view = "boot" THEN Inside(c) ELSE TakeOver(t, c))
    BY <1>2 DEF Receive, Put
  <2>3. Inside(c).view = "in" /\ TakeOver(t, c).view = tab[t].view
    BY <1>1 DEF Inside, TakeOver, TabState
  <2>4. \A u \in Tab : tab'[u].view \notin {"login"} \ {tab[u].view}
    BY <1>1, <2>2, <2>3 DEF Put
  <2> QED BY <2>1, <2>4, NoneEnds
<1>3. CASE Reload(t)
  <2>1. cookie' = cookie /\ tab' = Put(tab, t, [Outside EXCEPT !.view = "boot"])
    BY <1>3 DEF Reload, Put
  <2>2. [Outside EXCEPT !.view = "boot"].view = "boot"
    BY DEF Outside
  <2>3. \A u \in Tab : tab'[u].view \notin {"login"} \ {tab[u].view}
    BY <1>1, <2>1, <2>2 DEF Put
  <2> QED BY <2>1, <2>3, NoneEnds
<1>4. ASSUME NEW l, NEW kind, NEW to, NEW retried, Ask(t, l, kind, to, retried)
      PROVE  EndsForCause
  <2>1. cookie' = cookie /\ tab' \in {tab, [tab EXCEPT ![t].good = FALSE]}
    BY <1>4 DEF Ask
  <2>2. \A u \in Tab : tab'[u].view \notin {"login"} \ {tab[u].view}
    BY <1>1, <2>1 DEF TabState
  <2> QED BY <2>1, <2>2, NoneEnds
<1>5. CASE CompaniesArrive(t) \/ AccessExpires(t)
  <2>1. cookie' = cookie
    BY <1>5 DEF CompaniesArrive, AccessExpires
  <2>2. \A u \in Tab : tab'[u].view = tab[u].view
    <3>1. CASE AccessExpires(t)
      BY <1>1, <3>1 DEF AccessExpires, TabState
    <3>2. CASE CompaniesArrive(t)
      <4>1. PICK c : tab' = [tab EXCEPT ![t].company = c, ![t].header = c]
        BY <3>2 DEF CompaniesArrive
      <4> QED BY <1>1, <4>1 DEF TabState
    <3> QED BY <1>5, <3>1, <3>2
  <2> QED BY <2>1, <2>2, NoneEnds
<1>6. CASE UNCHANGED <<tab, cookie>>
  BY <1>6, NoneEnds
<1>7. CASE Fetch(t) \/ UserActs(t) \/ \E l \in Line : Retry(t, l)
  <2>1. PICK l, kind, to, retried : Ask(t, l, kind, to, retried)
    BY <1>7 DEF Fetch, UserActs, Retry
  <2> QED BY <1>4, <2>1
<1>8. Open(t) \/ Check(t) \/ Issue(t) \/ Throttled(t) \/ ExchangeFails(t) \/ RenewSilent(t)
      \/ RowsArrive(t) \/ DroppedArrives(t) \/ (\E l \in Line : Unauthorized(t, l)) => UNCHANGED <<tab, cookie>>
  BY DEF Open, Check, Issue, Throttled, ExchangeFails, RenewSilent, RowsArrive, DroppedArrives, Unauthorized
<1> QED BY <1>2, <1>3, <1>5, <1>6, <1>7, <1>8 DEF PageArrives

\* No session ends on its own: a tab is signed out, and the cookie cleared, only for a user who
\* signs out, without a session, or behind an exchange that another tab raced, that failed, that was
\* throttled or that was not answered (AuthService.refresh and session, doRefresh, bootstrap).
THEOREM NoSessionEndsAlone == Spec => SessionEndsForCause
<1>1. Init => SessionInv
  <2> SUFFICES ASSUME Init PROVE SessionInv
    OBVIOUS
  <2>1. \A t \in Tab, s \in Slot : New(t, s) = 0
    BY SlotIs DEF Init, New, NoRenew, NoCall
  <2>2. revoked = {} /\ \A t \in Tab : renew[t].pc = "none"
    BY DEF Init, NoRenew
  <2>3. NewInv
    BY <2>1 DEF NewInv, NewUnseen, NewOnce
  <2>4. Causes
    BY <2>2 DEF Causes, CookieCause, SentCause, EndedForCause
  <2> QED BY <2>3, <2>4, InitOK DEF SessionInv
<1>2. SessionInv /\ [Next]_webVars => SessionInv'
  BY SessionNext
<1>3. SessionInv /\ [Next]_webVars => [EndsForCause]_webVars
  <2> SUFFICES ASSUME SessionInv, Next PROVE EndsForCause
    OBVIOUS
  <2>1. CASE \E c \in Company : Deactivate(c)
    <3>1. UNCHANGED <<tab, cookie>>
      BY <2>1 DEF Deactivate
    <3> QED BY <3>1, NoneEnds
  <2> QED BY <2>1, RenewEndCause, CallEndCause, OthersEndNone DEF Next, RenewStep, CallStep
<1> QED BY <1>1, <1>2, <1>3, PTL DEF Spec, SessionEndsForCause, EndsForCause

-----------------------------------------------------------------------------
(* The company a tab shows is the one its rows are of.  Rows are shown in  *)
(* the dashboard only, and only there an answer brings some; what it names *)
(* is the company shown, unless the tab is mixed.                          *)

\* Outside of the dashboard nothing is shown and no rows are awaited; a log-in is on its way from the form.
Bare(t) == /\ ~In(t) => ~rows[t].fresh /\ (call[t]["page"].kind = "read" => call[t]["page"].pc = "none")
           /\ call[t]["user"].kind = "login" /\ call[t]["user"].pc # "none" => tab[t].view = "login"

Arriving(t, kind) == call[t]["page"].pc = "ok" /\ call[t]["page"].kind = kind

\* What a tab shows, is asked for and is about to show are of one company.
Agrees(t) ==
  /\ tab[t].header = tab[t].company
  /\ rows[t].fresh => rows[t].co = tab[t].company
  /\ Arriving(t, "read") => call[t]["page"].to = {tab[t].company}
  /\ Arriving(t, "companies") /\ rows[t].fresh => tab[t].company \in call[t]["page"].to

Shows(t) == Bare(t) /\ (In(t) /\ t \notin mixed => Agrees(t))
ShowInv  == Parts /\ \A t \in Tab : Shows(t)

\* What the step leaves as it is.
Same(u) == tab'[u] = tab[u] /\ rows'[u] = rows[u] /\ call'[u] = call[u] /\ (u \in mixed' <=> u \in mixed)
Only(t) == \A u \in Tab : u # t => Same(u)

LEMMA SameShows == ASSUME NEW u \in Tab, Shows(u), Same(u) PROVE Shows(u)'
<1>1. Bare(u)'
  BY DEF Shows, Bare, Same, In
<1>2. (In(u) /\ u \notin mixed => Agrees(u))'
  BY DEF Shows, Agrees, Arriving, Same, In
<1> QED BY <1>1, <1>2 DEF Shows

LEMMA OnlyShows ==
  ASSUME ShowInv, NEW t \in Tab, Only(t), Shows(t)'
  PROVE  \A u \in Tab : Shows(u)'
BY SameShows DEF ShowInv, Only

LEMMA AllShow ==
  ASSUME ShowInv, UNCHANGED <<tab, rows, call, mixed>>
  PROVE  \A u \in Tab : Shows(u)'
BY SameShows DEF ShowInv, Same

LEMMA TablesAre ==
  ASSUME Parts
  PROVE  /\ tab \in [Tab -> TabState] /\ rows \in [Tab -> Rows]
         /\ call \in [Tab -> [Line -> Calls(N)]] /\ mixed \subseteq Tab
         /\ "page" \in Line /\ "user" \in Line
BY DEF Parts, TabsOK, CallOK, Line

\* One call is put.
LEMMA UpdatedAt ==
  ASSUME Parts, NEW t \in Tab, NEW l \in Line, NEW x, call' = Updated(call, t, l, x)
  PROVE  /\ call'[t][l] = x
         /\ \A m \in Line : m # l => call'[t][m] = call[t][m]
         /\ \A u \in Tab : u # t => call'[u] = call[u]
<1> DEFINE line == [call[t] EXCEPT ![l] = x]
<1>1. call' = [call EXCEPT ![t] = line] /\ call \in [Tab -> [Line -> Calls(N)]]
  BY TablesAre DEF Updated
<1>2. line[l] = x /\ \A m \in Line : m # l => line[m] = call[t][m]
  BY <1>1
<1> HIDE DEF line
<1> QED BY <1>1, <1>2

\* The log-in form shows nothing.
LEMMA SignedOut ==
  ASSUME ShowInv, NEW t \in Tab, NEW over, SignsOut(t, over)
  PROVE  \A u \in Tab : Shows(u)'
<1> DEFINE g == [l \in Line |-> IF l \in over THEN NoCall ELSE Forgotten(call[t][l])]
<1>1. /\ tab' = Put(tab, t, Outside) /\ rows' = Put(rows, t, NoRows)
      /\ call' = Put(call, t, g) /\ mixed' = mixed \ {t}
  BY TablesAre DEF SignsOut, Put, ShowInv
<1>2. \A l \in Line : g[l] \in {NoCall, Forgotten(call[t][l])}
  OBVIOUS
<1> HIDE DEF g
<1>3. Only(t)
  BY <1>1, TablesAre DEF ShowInv, Only, Same, Put
<1>4. tab'[t] = Outside /\ rows'[t] = NoRows /\ call'[t] = g
  BY <1>1, TablesAre DEF ShowInv, Put
<1>5. tab'[t].view = "login" /\ ~rows'[t].fresh
  BY <1>4, TablesAre DEF ShowInv, Outside, NoRows
<1>6. call'[t]["page"].kind = "read" => call'[t]["page"].pc = "none"
  <2>1. call[t]["page"] \in Calls(N) /\ g["page"] \in {NoCall, Forgotten(call[t]["page"])}
    BY <1>2, TablesAre, AtCall DEF ShowInv
  <2>2. Forgotten(call[t]["page"]).kind # "read"
    BY <2>1 DEF Forgotten, Calls, Calling
  <2> QED BY <1>4, <2>1, <2>2 DEF NoCall
<1>7. Shows(t)'
  BY <1>5, <1>6 DEF Shows, Bare, In
<1> QED BY <1>3, <1>7, OnlyShows

-----------------------------------------------------------------------------
(* The exchange takes over the company of its token, or marks the tab.     *)

LEMMA AskAgainIs ==
  ASSUME Parts, NEW t \in Tab, NEW l \in Line
  PROVE  /\ AskAgain(t)[l].kind = call[t][l].kind
         /\ AskAgain(t)[l].pc = "ok" => AskAgain(t)[l] = call[t][l]
         /\ call[t][l].pc = "none" => AskAgain(t)[l] = call[t][l]
         /\ call[t][l].pc # "none" \/ AskAgain(t)[l].pc = "none"
<1>1. call[t][l] \in Calls(N)
  BY AtCall
<1>2. AskAgain(t)[l] = IF call[t][l].pc = "waiting" THEN [call[t][l] EXCEPT !.pc = "again"] ELSE call[t][l]
  BY DEF AskAgain
<1> QED BY <1>1, <1>2 DEF Calls, Calling

LEMMA ReceiveShows ==
  ASSUME ShowInv, NEW t \in Tab, Receive(t)
  PROVE  \A u \in Tab : Shows(u)'
<1> DEFINE c == token[renew[t].new]
           x == IF tab[t].view = "boot" THEN Inside(c) ELSE TakeOver(t, c)
<1>1. /\ tab' = Put(tab, t, x) /\ UNCHANGED rows /\ call' = Put(call, t, AskAgain(t))
      /\ mixed' = IF In(t) /\ tab[t].company # c THEN mixed \cup {t} ELSE mixed
  BY TablesAre DEF Receive, Put, ShowInv
<1> HIDE DEF c, x
<1>2. Only(t)
  BY <1>1, TablesAre DEF ShowInv, Only, Same, Put
<1>3. tab'[t] = x /\ rows'[t] = rows[t] /\ call'[t] = AskAgain(t) /\ tab[t] \in TabState
  BY <1>1, TablesAre DEF ShowInv, Put
<1>4. /\ Shows(t) /\ Parts /\ "page" \in Line /\ "user" \in Line
  BY TablesAre DEF ShowInv
<1>5. /\ tab[t].view = "boot" => x.view = "in" /\ x.header = c /\ x.company = c
      /\ tab[t].view # "boot" => x.view = tab[t].view /\ x.header = c /\ x.company = tab[t].company
  BY <1>3 DEF x, Inside, TakeOver, TabState
<1>6. Bare(t)'
  BY <1>3, <1>4, <1>5, AskAgainIs DEF Shows, Bare, In
<1>7. ASSUME In(t)', t \notin mixed' PROVE Agrees(t)'
  <2>1. CASE tab[t].view = "boot"
    <3>1. ~rows'[t].fresh /\ ~Arriving(t, "read")'
      BY <1>3, <1>4, <2>1, AskAgainIs DEF Shows, Bare, In, Arriving
    <3> QED BY <1>3, <1>5, <2>1, <3>1 DEF Agrees, Arriving
  <2>2. CASE tab[t].view = "in"
    <3>1. Agrees(t) /\ tab[t].company = c
      BY <1>1, <1>4, <1>7, <2>2 DEF Shows, In
    <3>2. tab'[t].header = c /\ tab'[t].company = c
      BY <1>3, <1>5, <2>2, <3>1
    <3>3. \A kind \in {"read", "companies"} : Arriving(t, kind)' => Arriving(t, kind) /\ call'[t]["page"] = call[t]["page"]
      BY <1>3, <1>4, AskAgainIs DEF Arriving
    <3> QED BY <1>3, <3>1, <3>2, <3>3 DEF Agrees
  <2> QED BY <1>3, <1>5, <1>7, <2>1, <2>2 DEF In
<1>8. Shows(t)'
  BY <1>6, <1>7 DEF Shows
<1> QED BY <1>2, <1>8, OnlyShows

LEMMA NoTokenShows ==
  ASSUME ShowInv, NEW t \in Tab, NoToken(t)
  PROVE  \A u \in Tab : Shows(u)'
<1>1. CASE SignsOut(t, Waiting(t))
  BY <1>1, SignedOut
<1>2. CASE AfterLoss(t) /\ UNCHANGED <<rows, mixed>>
           /\ tab' = [tab EXCEPT ![t].view = IF @ = "boot" THEN "unavailable" ELSE @]
  <2> DEFINE x == [tab[t] EXCEPT !.view = IF tab[t].view = "boot" THEN "unavailable" ELSE tab[t].view]
             g == [l \in Line |-> IF l \in Waiting(t) THEN NoCall ELSE call[t][l]]
  <2>1. tab' = Put(tab, t, x) /\ call' = Put(call, t, g)
    BY <1>2, TablesAre DEF AfterLoss, Put, ShowInv
  <2>2. \A l \in Line : g[l] \in {call[t][l], NoCall} /\ NoCall.pc = "none"
    BY DEF NoCall
  <2>3. /\ x.view = (IF tab[t].view = "boot" THEN "unavailable" ELSE tab[t].view)
        /\ x.header = tab[t].header /\ x.company = tab[t].company
    BY TablesAre DEF ShowInv, TabState
  <2> HIDE DEF x, g
  <2>4. Only(t)
    BY <1>2, <2>1, TablesAre DEF ShowInv, Only, Same, Put
  <2>5. tab'[t] = x /\ rows'[t] = rows[t] /\ call'[t] = g /\ Shows(t)
    BY <1>2, <2>1, TablesAre DEF ShowInv, Put
  <2>6. \A l \in Line : call'[t][l] \in {call[t][l], NoCall} /\ NoCall.pc = "none"
    BY <2>2, <2>5
  <2>7. /\ In(t)' <=> In(t)
        /\ tab[t].view = "login" => tab'[t].view = "login"
    BY <2>3, <2>5 DEF In
  <2>8. Bare(t)'
    BY <2>5, <2>6, <2>7, TablesAre DEF ShowInv, Shows, Bare
  <2>9. (In(t) /\ t \notin mixed => Agrees(t))'
    <3>1. tab'[t].header = tab[t].header /\ tab'[t].company = tab[t].company
      BY <2>3, <2>5
    <3>2. call'[t]["page"] \in {call[t]["page"], NoCall}
      BY <2>6, TablesAre DEF ShowInv
    <3> QED BY <1>2, <2>5, <2>6, <2>7, <3>1, <3>2 DEF Shows, Agrees, Arriving, NoCall
  <2>10. Shows(t)'
    BY <2>8, <2>9 DEF Shows
  <2> QED BY <2>4, <2>10, OnlyShows
<1> QED BY <1>1, <1>2 DEF NoToken

LEMMA RenewStepShows ==
  ASSUME ShowInv, NEW t \in Tab, RenewStep(t) \/ RenewBreaks(t)
  PROVE  \A u \in Tab : Shows(u)'
<1>1. CASE Open(t) \/ Check(t) \/ Issue(t) \/ Throttled(t) \/ ExchangeFails(t) \/ RenewSilent(t)
  <2>1. UNCHANGED <<tab, rows, call, mixed>>
    BY <1>1 DEF Open, Check, Issue, Throttled, ExchangeFails, RenewSilent, history
  <2> QED BY <2>1, AllShow
<1>2. CASE Refused(t) \/ FailureArrives(t) \/ RenewLost(t) \/ RenewBreaks(t)
  <2>1. SignsOut(t, Waiting(t)) \/ NoToken(t)
    BY <1>2 DEF Refused, FailureArrives, RenewLost, RenewBreaks
  <2> QED BY <2>1, SignedOut, NoTokenShows
<1> QED BY <1>1, <1>2, ReceiveShows DEF RenewStep

-----------------------------------------------------------------------------
(* A call asks for the company that the tab's calls are for.               *)

\* A call of the page changes; one for rows, in the dashboard.
LEMMA PageShows ==
  ASSUME ShowInv, NEW t \in Tab, Only(t), In(t) \/ call'[t]["page"].kind # "read",
         tab'[t].view = tab[t].view, tab'[t].header = tab[t].header, tab'[t].company = tab[t].company,
         rows'[t] = rows[t], t \in mixed' <=> t \in mixed, call'[t]["user"] = call[t]["user"],
         Arriving(t, "read")' => call'[t]["page"].to = {tab[t].header},
         Arriving(t, "companies")' => tab[t].header \in call'[t]["page"].to
  PROVE  \A u \in Tab : Shows(u)'
<1>1. Shows(t)
  BY DEF ShowInv
<1>2. Bare(t)'
  BY <1>1 DEF Shows, Bare, In
<1>3. ASSUME In(t)', t \notin mixed' PROVE Agrees(t)'
  BY <1>1, <1>3 DEF Shows, Agrees, In
<1> QED BY <1>2, <1>3, OnlyShows DEF Shows

\* A call of the user changes.
LEMMA UserShows ==
  ASSUME ShowInv, NEW t \in Tab, Only(t),
         tab'[t].view = tab[t].view, tab'[t].header = tab[t].header, tab'[t].company = tab[t].company,
         rows'[t] = rows[t], t \in mixed' <=> t \in mixed, call'[t]["page"] = call[t]["page"],
         call'[t]["user"].kind = "login" /\ call'[t]["user"].pc # "none" => tab[t].view = "login"
  PROVE  \A u \in Tab : Shows(u)'
<1>1. Shows(t)
  BY DEF ShowInv
<1>2. Bare(t)'
  BY <1>1 DEF Shows, Bare, In
<1>3. (In(t) /\ t \notin mixed => Agrees(t))'
  BY <1>1 DEF Shows, Agrees, Arriving, In
<1> QED BY <1>2, <1>3, OnlyShows DEF Shows

\* What sending does to the tab and the calls.
LEMMA AskIs ==
  ASSUME Parts, NEW t \in Tab, NEW l \in Line, NEW kind, NEW to, NEW retried, Ask(t, l, kind, to, retried)
  PROVE  /\ Only(t) /\ rows' = rows /\ mixed' = mixed
         /\ tab'[t].view = tab[t].view /\ tab'[t].header = tab[t].header /\ tab'[t].company = tab[t].company
         /\ \A m \in Line : m # l => call'[t][m] = call[t][m]
         /\ call'[t][l].kind = kind
         /\ call'[t][l].pc = "ok" /\ kind = "read" => call'[t][l].to = {tab[t].header}
         /\ call'[t][l].pc = "ok" /\ kind = "companies" => tab[t].header \in call'[t][l].to
<1> DEFINE a == Answer(t, kind, to)
           named == CASE kind \in {"read", "dropped"} -> {tab[t].header} [] kind = "companies" -> member [] OTHER -> to
           x == [pc |-> a, kind |-> kind, retried |-> retried, to |-> named,
                 new |-> IF a = "ok" /\ kind \in {"login", "switch"} THEN Len(token) + 1 ELSE 0]
<1>1. /\ call' = Updated(call, t, l, x) /\ rows' = rows /\ mixed' = mixed
      /\ tab' = IF kind = "logout" /\ a = "ok" THEN [tab EXCEPT ![t].good = FALSE] ELSE tab
  BY DEF Ask, Updated, history
<1>2. kind = "read" => named = {tab[t].header}
  OBVIOUS
<1>3. kind = "companies" => named = member
  OBVIOUS
<1>4. a = "ok" /\ kind = "companies" => tab[t].header \in member
  BY DEF Answer
<1>5. x.pc = a /\ x.kind = kind /\ x.to = named
  OBVIOUS
<1> HIDE DEF a, named, x
<1>6. /\ call'[t][l] = x
      /\ \A m \in Line : m # l => call'[t][m] = call[t][m]
      /\ \A u \in Tab : u # t => call'[u] = call[u]
  BY <1>1, TablesAre, UpdatedAt
<1>7. /\ tab'[t].view = tab[t].view /\ tab'[t].header = tab[t].header /\ tab'[t].company = tab[t].company
      /\ \A u \in Tab : u # t => tab'[u] = tab[u]
  BY <1>1, TablesAre DEF TabState
<1>8. Only(t)
  BY <1>1, <1>6, <1>7 DEF Only, Same
<1> QED BY <1>1, <1>2, <1>3, <1>4, <1>5, <1>6, <1>7, <1>8

LEMMA PageAsks ==
  ASSUME ShowInv, NEW t \in Tab, NEW kind, NEW to, NEW retried, Ask(t, "page", kind, to, retried),
         In(t) \/ kind # "read"
  PROVE  \A u \in Tab : Shows(u)'
<1>1. "page" \in Line /\ "user" \in Line /\ Parts
  BY TablesAre DEF ShowInv
<1>2. /\ Only(t) /\ rows' = rows /\ mixed' = mixed
      /\ tab'[t].view = tab[t].view /\ tab'[t].header = tab[t].header /\ tab'[t].company = tab[t].company
      /\ call'[t]["user"] = call[t]["user"] /\ call'[t]["page"].kind = kind
  BY <1>1, AskIs
<1>3. Arriving(t, "read")' => call'[t]["page"].to = {tab[t].header}
  BY <1>1, <1>2, AskIs DEF Arriving
<1>4. Arriving(t, "companies")' => tab[t].header \in call'[t]["page"].to
  BY <1>1, <1>2, AskIs DEF Arriving
<1> QED BY <1>2, <1>3, <1>4, PageShows

LEMMA UserAsks ==
  ASSUME ShowInv, NEW t \in Tab, NEW kind, NEW to, NEW retried, Ask(t, "user", kind, to, retried),
         kind = "login" => tab[t].view = "login"
  PROVE  \A u \in Tab : Shows(u)'
<1>1. "page" \in Line /\ "user" \in Line /\ Parts
  BY TablesAre DEF ShowInv
<1>2. /\ Only(t) /\ rows' = rows /\ mixed' = mixed
      /\ tab'[t].view = tab[t].view /\ tab'[t].header = tab[t].header /\ tab'[t].company = tab[t].company
      /\ call'[t]["page"] = call[t]["page"] /\ call'[t]["user"].kind = kind
  BY <1>1, AskIs
<1> QED BY <1>2, UserShows

LEMMA AsksShow ==
  ASSUME ShowInv, NEW t \in Tab, Fetch(t) \/ UserActs(t) \/ \E l \in Line : Retry(t, l)
  PROVE  \A u \in Tab : Shows(u)'
<1>1. CASE Fetch(t)
  <2>1. PICK kind \in {"read", "companies"} : Ask(t, "page", kind, {}, FALSE) /\ In(t)
    BY <1>1 DEF Fetch
  <2> QED BY <2>1, PageAsks
<1>2. CASE UserActs(t)
  <2>1. CASE tab[t].view = "login" /\ \E c \in member : Ask(t, "user", "login", {c}, FALSE)
    BY <2>1, UserAsks
  <2>2. CASE \E c \in Company \ {tab[t].company} : Ask(t, "user", "switch", {c}, FALSE)
    BY <2>2, UserAsks
  <2>3. CASE Ask(t, "user", "logout", {}, FALSE)
    BY <2>3, UserAsks
  <2> QED BY <1>2, <2>1, <2>2, <2>3 DEF UserActs
<1>3. ASSUME NEW l \in Line, Retry(t, l) PROVE \A u \in Tab : Shows(u)'
  <2>1. /\ call[t][l].pc = "again" /\ Ask(t, l, call[t][l].kind, call[t][l].to, TRUE)
        /\ Bare(t) /\ l \in {"page", "user"}
    BY <1>3 DEF Retry, ShowInv, Shows, Line
  <2>2. CASE l = "page"
    <3>1. In(t) \/ call[t]["page"].kind # "read"
      BY <2>1, <2>2 DEF Bare
    <3> QED BY <2>1, <2>2, <3>1, PageAsks
  <2>3. CASE l = "user"
    <3>1. call[t]["user"].kind = "login" => tab[t].view = "login"
      BY <2>1, <2>3 DEF Bare
    <3> QED BY <2>1, <2>3, <3>1, UserAsks
  <2> QED BY <2>1, <2>2, <2>3
<1> QED BY <1>1, <1>2, <1>3

-----------------------------------------------------------------------------
(* Answers, and errors.                                                    *)

\* A call that no longer is about to arrive: it ends, or it waits.
LEMMA CallFades ==
  ASSUME ShowInv, NEW t \in Tab, NEW l \in Line, NEW x, call' = Updated(call, t, l, x),
         UNCHANGED <<tab, rows, mixed>>, x.pc # "ok", x.pc = "none" \/ x.kind = call[t][l].kind,
         call[t][l].pc = "none" => x.pc = "none"
  PROVE  \A u \in Tab : Shows(u)'
<1>1. /\ call'[t][l] = x
      /\ \A m \in Line : m # l => call'[t][m] = call[t][m]
      /\ \A u \in Tab : u # t => call'[u] = call[u]
      /\ "page" \in Line /\ "user" \in Line /\ Shows(t)
  BY TablesAre, UpdatedAt DEF ShowInv
<1>2. Only(t)
  BY <1>1 DEF Only, Same
<1>3. Bare(t)'
  BY <1>1 DEF Shows, Bare, In
<1>4. (In(t) /\ t \notin mixed => Agrees(t))'
  <2>1. \A kind \in {"read", "companies"} : Arriving(t, kind)' => Arriving(t, kind) /\ call'[t]["page"] = call[t]["page"]
    BY <1>1 DEF Arriving
  <2> QED BY <1>1, <2>1 DEF Shows, Agrees, In
<1> QED BY <1>2, <1>3, <1>4, OnlyShows DEF Shows

LEMMA ErrorsShow ==
  ASSUME ShowInv, NEW t \in Tab, NEW l \in Line, Unauthorized(t, l) \/ Fails(t, l) \/ CallLost(t, l)
  PROVE  \A u \in Tab : Shows(u)'
<1>0. call[t][l] \in Calls(N)
  BY AtCall DEF ShowInv
<1>1. CASE Unauthorized(t, l)
  <2> DEFINE x == [call[t][l] EXCEPT !.pc = "waiting"]
  <2>1. call' = Updated(call, t, l, x) /\ UNCHANGED <<tab, rows, mixed>> /\ call[t][l].pc # "none"
    BY <1>1, TablesAre DEF Unauthorized, Updated, ShowInv
  <2>2. x.pc = "waiting" /\ x.kind = call[t][l].kind
    BY <1>0 DEF Calls, Calling
  <2> HIDE DEF x
  <2> QED BY <2>1, <2>2, CallFades
<1>2. CASE GivesUp(t, l)
  <2>1. CASE SignsOut(t, {l})
    BY <2>1, SignedOut
  <2>2. CASE Ends(t, l) /\ UNCHANGED <<tab, rows, mixed>>
    <3>1. call' = Updated(call, t, l, NoCall) /\ NoCall.pc = "none"
      BY <2>2 DEF Ends, Updated, NoCall
    <3> QED BY <2>2, <3>1, CallFades
  <2> QED BY <1>2, <2>1, <2>2 DEF GivesUp
<1> QED BY <1>1, <1>2 DEF Fails, CallLost

\* The rows that arrive are of the company shown.
LEMMA RowsShow ==
  ASSUME ShowInv, NEW t \in Tab, RowsArrive(t)
  PROVE  \A u \in Tab : Shows(u)'
<1> DEFINE c == CHOOSE c \in call[t]["page"].to : TRUE
           x == [co |-> c, fresh |-> TRUE]
<1>1. /\ rows' = Put(rows, t, x) /\ call' = Updated(call, t, "page", NoCall) /\ UNCHANGED <<tab, mixed>>
      /\ Arriving(t, "read") /\ x.co = c
  BY DEF RowsArrive, Ends, Put, Updated, Arriving, history
<1>2. ASSUME NEW d, call[t]["page"].to = {d} PROVE c = d
  BY <1>2
<1> HIDE DEF c, x
<1>3. /\ "page" \in Line /\ "user" \in Line /\ Shows(t)
      /\ call'[t]["page"] = NoCall /\ call'[t]["user"] = call[t]["user"] /\ rows'[t] = x
      /\ \A u \in Tab : u # t => call'[u] = call[u] /\ rows'[u] = rows[u]
  BY <1>1, TablesAre, UpdatedAt DEF ShowInv, Put
<1>4. Only(t)
  BY <1>1, <1>3 DEF Only, Same
<1>5. In(t) /\ NoCall.pc = "none" /\ call[t]["page"].pc = "ok"
  BY <1>1, <1>3 DEF Shows, Bare, Arriving, NoCall
<1>6. Bare(t)'
  BY <1>1, <1>3, <1>5 DEF Shows, Bare, In
<1>7. ASSUME t \notin mixed' PROVE Agrees(t)'
  <2>1. Agrees(t) /\ t \notin mixed
    BY <1>1, <1>3, <1>5, <1>7 DEF Shows
  <2>2. c = tab[t].company
    BY <1>1, <1>2, <2>1 DEF Agrees
  <2>3. ~Arriving(t, "read")' /\ ~Arriving(t, "companies")'
    BY <1>3, <1>5 DEF Arriving
  <2>4. tab'[t].header = tab'[t].company /\ rows'[t].co = tab'[t].company
    BY <1>1, <1>3, <2>1, <2>2 DEF Agrees
  <2> QED BY <2>3, <2>4 DEF Agrees
<1> QED BY <1>4, <1>6, <1>7, OnlyShows DEF Shows

\* The list of companies leaves the company shown, unless the rows are to be fetched anyway.
LEMMA CompaniesShow ==
  ASSUME ShowInv, NEW t \in Tab, CompaniesArrive(t)
  PROVE  \A u \in Tab : Shows(u)'
<1>0. "page" \in Line /\ "user" \in Line /\ Shows(t) /\ Parts
  BY TablesAre DEF ShowInv
<1>1. PICK c : /\ tab' = [tab EXCEPT ![t].company = c, ![t].header = c]
               /\ tab[t].company \in call[t]["page"].to => c = tab[t].company
  BY DEF CompaniesArrive
<1> DEFINE x == [tab[t] EXCEPT !.company = c, !.header = c]
<1>2. tab' = Put(tab, t, x) /\ tab[t] \in TabState
  BY <1>0, <1>1, TablesAre DEF Put
<1>3. x.company = c /\ x.header = c /\ x.view = tab[t].view
  BY <1>2 DEF TabState
<1> HIDE DEF x
<1>4. /\ call' = Updated(call, t, "page", NoCall) /\ UNCHANGED <<rows, mixed>> /\ Arriving(t, "companies")
  BY DEF CompaniesArrive, Ends, Updated, Arriving, history
<1>5. /\ call'[t]["page"] = NoCall /\ call'[t]["user"] = call[t]["user"] /\ tab'[t] = x
      /\ \A u \in Tab : u # t => call'[u] = call[u] /\ tab'[u] = tab[u]
  BY <1>0, <1>2, <1>4, TablesAre, UpdatedAt DEF Put
<1>6. Only(t)
  BY <1>4, <1>5 DEF Only, Same
<1>7. NoCall.pc = "none" /\ (In(t)' <=> In(t))
  BY <1>3, <1>5 DEF NoCall, In
<1>8. Bare(t)'
  BY <1>0, <1>3, <1>4, <1>5, <1>7 DEF Shows, Bare
<1>9. ASSUME In(t)', t \notin mixed' PROVE Agrees(t)'
  <2>1. Agrees(t)
    BY <1>0, <1>4, <1>7, <1>9 DEF Shows
  <2>2. rows'[t].fresh => rows'[t].co = c
    BY <1>1, <1>4, <2>1 DEF Agrees
  <2>3. ~Arriving(t, "read")' /\ ~Arriving(t, "companies")'
    BY <1>5, <1>7 DEF Arriving
  <2> QED BY <1>3, <1>5, <2>2, <2>3 DEF Agrees
<1> QED BY <1>6, <1>8, <1>9, OnlyShows DEF Shows

LEMMA InsideIs == \A c : Inside(c).view = "in" /\ Inside(c).header = c /\ Inside(c).company = c
BY DEF Inside

\* What a call that was dropped brings is heard by nobody.
LEMMA DroppedShows ==
  ASSUME ShowInv, NEW t \in Tab, DroppedArrives(t)
  PROVE  \A u \in Tab : Shows(u)'
<1>1. /\ call' = Updated(call, t, "page", NoCall) /\ UNCHANGED <<tab, rows, mixed>>
      /\ NoCall.pc = "none" /\ "page" \in Line
  BY DEF DroppedArrives, Ends, Updated, history, NoCall, Line
<1> QED BY <1>1, CallFades

\* A log-in starts with nothing shown and no rows asked for.
LEMMA LoginShows ==
  ASSUME ShowInv, NEW t \in Tab, LoginArrives(t)
  PROVE  \A u \in Tab : Shows(u)'
<1>0. "page" \in Line /\ "user" \in Line /\ Shows(t) /\ Parts
  BY TablesAre DEF ShowInv
<1>1. PICK c : tab' = Put(tab, t, Inside(c))
  BY DEF LoginArrives, Put
<1>2. call' = Updated(call, t, "user", NoCall) /\ UNCHANGED <<rows, mixed>>
  BY DEF LoginArrives, Ends, Updated, history
<1>3. /\ call'[t]["user"] = NoCall /\ call'[t]["page"] = call[t]["page"] /\ tab'[t] = Inside(c)
      /\ \A u \in Tab : u # t => call'[u] = call[u] /\ tab'[u] = tab[u]
  BY <1>0, <1>1, <1>2, TablesAre, UpdatedAt DEF Put
<1>4. Only(t)
  BY <1>2, <1>3 DEF Only, Same
<1>5. ~rows'[t].fresh /\ ~Arriving(t, "read")' /\ call'[t]["user"].pc = "none"
  BY <1>0, <1>2, <1>3 DEF LoginArrives, Shows, Bare, In, NoCall, Arriving
<1>6. Bare(t)'
  BY <1>3, <1>5, InsideIs DEF Bare, In
<1>7. Agrees(t)'
  BY <1>3, <1>5, InsideIs DEF Agrees
<1> QED BY <1>4, <1>6, <1>7, OnlyShows DEF Shows

\* After a switch no rows count as fresh, and what the page had asked is dropped or marks the tab.
LEMMA SwitchShows ==
  ASSUME ShowInv, NEW t \in Tab, SwitchArrives(t)
  PROVE  \A u \in Tab : Shows(u)'
<1>0. "page" \in Line /\ "user" \in Line /\ Shows(t) /\ Parts
  BY TablesAre DEF ShowInv
<1> DEFINE refetch == call[t]["page"].kind = "read" /\ rows[t].co # Nowhere
           x == [Inside(token[call[t]["user"].new]) EXCEPT !.view = tab[t].view]
           g == [l \in Line |-> IF l = "user" \/ refetch THEN NoCall ELSE call[t][l]]
<1>1. /\ call' = Put(call, t, g) /\ rows' = Put(rows, t, Invalidated(t))
      /\ tab' = Put(tab, t, x)
      /\ mixed' \in {mixed \cup {t}, mixed \ {t}}
      /\ Arriving(t, "read") /\ ~refetch => t \in mixed'
  BY <1>0, TablesAre DEF SwitchArrives, Put, Arriving
<1>2. g["user"] = NoCall /\ g["page"] = IF refetch THEN NoCall ELSE call[t]["page"]
  BY <1>0
<1>10. x.view = tab[t].view /\ x.header = x.company
  BY DEF Inside
<1> HIDE DEF g, refetch, x
<1>3. /\ call'[t] = g /\ rows'[t] = Invalidated(t) /\ tab'[t] = x
      /\ \A u \in Tab : u # t => call'[u] = call[u] /\ tab'[u] = tab[u] /\ rows'[u] = rows[u]
  BY <1>0, <1>1, TablesAre DEF Put
<1>4. Only(t)
  BY <1>1, <1>3 DEF Only, Same
<1>5. ~rows'[t].fresh /\ NoCall.pc = "none"
  BY <1>0, <1>3, TablesAre DEF Invalidated, NoCall, Rows
<1>6. (In(t)' <=> In(t)) /\ tab'[t].view = tab[t].view /\ tab'[t].header = tab'[t].company
  BY <1>3, <1>10 DEF In
<1>7. Bare(t)'
  BY <1>0, <1>2, <1>3, <1>5, <1>6 DEF Shows, Bare
<1>8. t \notin mixed' => ~Arriving(t, "read")'
  <2>1. CASE refetch
    BY <1>2, <1>3, <1>5, <2>1 DEF Arriving
  <2>2. CASE ~refetch
    BY <1>1, <1>2, <1>3, <2>2 DEF Arriving
  <2> QED BY <2>1, <2>2
<1>9. t \notin mixed' => Agrees(t)'
  BY <1>5, <1>6, <1>8 DEF Agrees
<1> QED BY <1>4, <1>7, <1>9, OnlyShows DEF Shows

LEMMA EventsShow ==
  ASSUME ShowInv, NEW t \in Tab, Reload(t) \/ AccessExpires(t)
  PROVE  \A u \in Tab : Shows(u)'
<1>0. "page" \in Line /\ "user" \in Line /\ Shows(t) /\ Parts
  BY TablesAre DEF ShowInv
<1>1. CASE Reload(t)
  <2> DEFINE x == [Outside EXCEPT !.view = "boot"]
  <2>1. /\ tab' = Put(tab, t, x) /\ rows' = Put(rows, t, NoRows) /\ mixed' = mixed \ {t}
        /\ call' = Put(call, t, [l \in Line |-> NoCall])
    BY <1>1 DEF Reload, Put
  <2>2. x.view = "boot" /\ ~NoRows.fresh
    BY DEF Outside, NoRows
  <2> HIDE DEF x
  <2>3. /\ tab'[t] = x /\ rows'[t] = NoRows /\ call'[t]["page"] = NoCall /\ call'[t]["user"] = NoCall
        /\ \A u \in Tab : u # t => rows'[u] = rows[u] /\ tab'[u] = tab[u] /\ call'[u] = call[u]
    BY <1>0, <2>1, TablesAre DEF Put
  <2>4. Only(t)
    BY <2>1, <2>3 DEF Only, Same
  <2>5. ~In(t)' /\ Bare(t)'
    BY <2>2, <2>3 DEF In, Bare, NoCall
  <2> QED BY <2>4, <2>5, OnlyShows DEF Shows
<1>2. CASE AccessExpires(t)
  <2>1. tab' = [tab EXCEPT ![t].good = FALSE] /\ UNCHANGED <<rows, call, mixed>>
    BY <1>2 DEF AccessExpires, history
  <2>2. /\ tab'[t].view = tab[t].view /\ tab'[t].header = tab[t].header /\ tab'[t].company = tab[t].company
        /\ \A u \in Tab : u # t => tab'[u] = tab[u]
    BY <1>0, <2>1, TablesAre DEF TabState
  <2>3. Only(t)
    BY <2>1, <2>2 DEF Only, Same
  <2>4. call'[t]["user"].kind = "login" /\ call'[t]["user"].pc # "none" => tab[t].view = "login"
    BY <1>0, <2>1 DEF Shows, Bare
  <2> QED BY <2>1, <2>2, <2>3, <2>4, UserShows
<1> QED BY <1>1, <1>2

LEMMA ShowNext == ShowInv /\ [Next]_webVars => ShowInv'
<1> SUFFICES ASSUME ShowInv, [Next]_webVars PROVE \A u \in Tab : Shows(u)'
  BY TypeNext DEF ShowInv
<1>1. CASE \E t \in Tab : RenewStep(t) \/ RenewBreaks(t)
  BY <1>1, RenewStepShows
<1>2. CASE \E t \in Tab : Fetch(t) \/ UserActs(t) \/ \E l \in Line : Retry(t, l)
  BY <1>2, AsksShow
<1>3. CASE \E t \in Tab : PageArrives(t)
  BY <1>3, RowsShow, CompaniesShow, DroppedShows DEF PageArrives
<1>4. CASE \E t \in Tab : UserArrives(t)
  BY <1>4, LoginShows, SwitchShows, SignedOut DEF UserArrives, LogoutArrives
<1>5. CASE \E t \in Tab, l \in Line : Unauthorized(t, l) \/ Fails(t, l) \/ CallLost(t, l)
  BY <1>5, ErrorsShow
<1>6. CASE \E t \in Tab : Reload(t) \/ AccessExpires(t)
  BY <1>6, EventsShow
<1>7. CASE (\E c \in Company : Deactivate(c)) \/ UNCHANGED webVars
  <2>1. UNCHANGED <<tab, rows, call, mixed>>
    BY <1>7 DEF Deactivate, history, webVars
  <2> QED BY <2>1, AllShow
<1> QED BY <1>1, <1>2, <1>3, <1>4, <1>5, <1>6, <1>7 DEF Next, CallStep

\* The company a tab names, the one its calls are for and the one its rows are of are the same, in
\* every tab that took over no other company's token and holds no rows of before a switch
\* (useSwitchCompany, setToken, setCompanies).
THEOREM OneCompanyShown == Spec => []CompanyShown
<1>1. Init => ShowInv
  <2> SUFFICES ASSUME Init, NEW t \in Tab PROVE Shows(t)
    BY InitOK DEF ShowInv
  <2>1. tab[t].view = "boot" /\ ~rows[t].fresh /\ call[t]["page"].pc = "none" /\ call[t]["user"].pc = "none"
    BY DEF Init, Outside, NoRows, NoCall, Line
  <2> QED BY <2>1 DEF Shows, Bare, In
<1>2. ShowInv /\ [Next]_webVars => ShowInv'
  BY ShowNext
<1>3. ShowInv => CompanyShown
  BY DEF ShowInv, Shows, Agrees, CompanyShown
<1> QED BY <1>1, <1>2, <1>3, PTL DEF Spec

=============================================================================
