------------------------------- MODULE Sessions -------------------------------
(***************************************************************************)
(* The lifetime of an anonymous session, kept twice: as the exp of a token *)
(* (api/src/auth/session.ts) and as expires_at of the tenant's row, which  *)
(* the purge goes by (auth/middleware.ts, retention/purge.ts).  Requests   *)
(* of one visitor run next to each other, statement by statement, and read *)
(* the clock when they do; Latency bounds how long one, or a purge, takes. *)
(***************************************************************************)
EXTENDS Integers, FiniteSets

CONSTANTS Requests, Ttl, Latency, MaxTime

VARIABLES clock, row, cookie, req, purge, last
sessionVars == <<clock, row, cookie, req, purge, last>>

SessionsAssumption == Ttl \in Nat /\ Latency \in Nat /\ MaxTime \in Nat

NoToken == [iat |-> -1, exp |-> -1]
Signed == [iat |-> clock, exp |-> clock + Ttl]
Idle == [pc |-> "idle"]
NotSelected == -1              \* or when the purge selected the row

(* last is the latest request that was let in before a purge selected the  *)
(* session: when, and with which token.                                    *)
Init ==
    /\ clock = 0
    /\ row = [state |-> "none", expiresAt |-> 0]
    /\ cookie = NoToken
    /\ req = [q \in Requests |-> Idle]
    /\ purge = NotSelected
    /\ last = [at |-> -1, exp |-> -1]

Is(q, pc) == req[q].pc = pc
Go(q, r) == req' = [req EXCEPT ![q] = r]

Arrive(q) ==
    /\ Is(q, "idle")
    /\ Go(q, [pc |-> "verify", since |-> clock, token |-> cookie, expiresAt |-> 0])
    /\ UNCHANGED <<clock, row, cookie, purge, last>>

(* mintTenant: expires_at first, the insert, then the token.  The visitor  *)
(* of this model has one tenant at most.                                   *)
Mint(q) ==
    /\ Is(q, "verify") /\ req[q].token = NoToken
    /\ row.state = "none" /\ \A p \in Requests : ~Is(p, "insert")
    /\ Go(q, [req[q] EXCEPT !.pc = "insert", !.expiresAt = clock + Ttl])
    /\ UNCHANGED <<clock, row, cookie, purge, last>>
Insert(q) ==
    /\ Is(q, "insert")
    /\ row' = [state |-> "live", expiresAt |-> req[q].expiresAt]
    /\ Go(q, [req[q] EXCEPT !.pc = "sign"])
    /\ UNCHANGED <<clock, cookie, purge, last>>

(* verifySession: an expired token is refused before the row is read.      *)
Refuse(q) ==
    /\ Is(q, "verify")
    /\ req[q].token.exp <= clock
    /\ req[q].token # NoToken \/ row.state # "none"
    /\ Go(q, Idle)
    /\ UNCHANGED <<clock, row, cookie, purge, last>>
Verify(q) ==
    /\ Is(q, "verify")
    /\ req[q].token.exp > clock
    /\ Go(q, [req[q] EXCEPT !.pc = "row"])
    /\ UNCHANGED <<clock, row, cookie, purge, last>>

(* The row is the real authority; past half its life a token is renewed.   *)
(* shouldRefresh reads the clock after the row was read.                   *)
shouldRefreshLate(token) == clock >= token.exp - 1
shouldRefresh(token) == 2 * clock >= token.iat + token.exp
ReadRow(q) ==
    /\ Is(q, "row")
    /\ IF row.state # "live" THEN Go(q, Idle) /\ UNCHANGED last
       ELSE /\ last' = IF purge = NotSelected THEN [at |-> clock, exp |-> req[q].token.exp] ELSE last
            /\ Go(q, IF shouldRefresh(req[q].token)
                     THEN [req[q] EXCEPT !.pc = "update", !.expiresAt = clock + Ttl] ELSE Idle)
    /\ UNCHANGED <<clock, row, cookie, purge>>
UpdateSkipped(q) ==
    /\ Is(q, "update")
    /\ Go(q, [req[q] EXCEPT !.pc = "sign"])
    /\ UNCHANGED <<clock, row, cookie, purge, last>>
Update(q) ==
    /\ Is(q, "update")
    /\ row' = IF row.state = "live" THEN [row EXCEPT !.expiresAt = req[q].expiresAt] ELSE row
    /\ Go(q, [req[q] EXCEPT !.pc = "sign"])
    /\ UNCHANGED <<clock, cookie, purge, last>>
Sign(q) ==
    /\ Is(q, "sign")
    /\ Go(q, [req[q] EXCEPT !.pc = "answer", !.token = Signed])
    /\ UNCHANGED <<clock, row, cookie, purge, last>>
(* The answers arrive in any order, and the later Set-Cookie wins.         *)
SetCookie(q) ==
    /\ Is(q, "answer")
    /\ cookie' = req[q].token
    /\ Go(q, Idle)
    /\ UNCHANGED <<clock, row, purge, last>>

(* purgeExpiredTenants: the select, the collection of files, the delete.   *)
Select ==
    /\ purge = NotSelected /\ row.state = "live" /\ row.expiresAt <= clock
    /\ purge' = clock
    /\ UNCHANGED <<clock, row, cookie, req, last>>
Delete ==
    /\ purge # NotSelected
    /\ purge' = NotSelected
    /\ row' = [row EXCEPT !.state = "gone"]
    /\ UNCHANGED <<clock, cookie, req, last>>

Tick ==
    /\ clock < MaxTime
    /\ \A q \in Requests : ~Is(q, "idle") => clock - req[q].since < Latency
    /\ purge # NotSelected => clock - purge < Latency
    /\ clock' = clock + 1
    /\ UNCHANGED <<row, cookie, req, purge, last>>

Handle(q) ==
    \/ Arrive(q) \/ Mint(q) \/ Insert(q) \/ Refuse(q) \/ Verify(q) \/ ReadRow(q)
    \/ Update(q) \/ Sign(q) \/ SetCookie(q)
Next == (\E q \in Requests : Handle(q)) \/ Select \/ Delete \/ Tick
Spec == Init /\ [][Next]_sessionVars

-----------------------------------------------------------------------------
Tokens == {cookie} \cup {req[q].token : q \in {p \in Requests : ~Is(p, "idle")}}

(* The one lifetime has two enforcers, and they agree to within the time   *)
(* two requests may be in flight: no token outlives the row of its tenant  *)
(* by more, although refreshes next to each other may leave the older      *)
(* expires_at in the row and the older token in the browser; and at rest   *)
(* the row outlives the cookie by no more than one request takes.          *)
EnforcersAgree ==
    row.state = "live" =>
        /\ \A t \in Tokens : t.exp <= row.expiresAt + 2 * Latency
        /\ cookie # NoToken /\ (\A q \in Requests : Is(q, "idle")) =>
               row.expiresAt <= cookie.exp + Latency

(* An active visitor is not purged: when the purge selects the session,    *)
(* half a lifetime, less what two requests take, has passed since the last *)
(* one that was let in, or that one came with a token at its very end.     *)
(* (Who comes back after the selection is let in, and loses the session    *)
(* nevertheless.)                                                          *)
ActiveIsNotSelected ==
    purge # NotSelected /\ last.at >= 0 =>
        \/ last.exp - last.at <= 3 * Latency
        \/ 2 * (purge - last.at) >= Ttl - 4 * Latency
=============================================================================
