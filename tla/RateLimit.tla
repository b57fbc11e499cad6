------------------------------ MODULE RateLimit ------------------------------
(***************************************************************************)
(* api/src/auth/rate-limit.ts for the bucket with two rules, ask: an       *)
(* hourly budget and a burst ceiling, each a counter in Redis that expires *)
(* with its window.  Requests of one tenant run next to each other, and    *)
(* Redis may fail at any check.  There are two ticks to a second.          *)
(***************************************************************************)
EXTENDS Integers, FiniteSets, FiniteSetsExt

CONSTANTS Requests, Limit, Window,   \* by rule, the window in ticks
          MaxTime, MaxArrivals       \* bounds

VARIABLES now, keys, pc, history
rateVars == <<now, keys, pc, history>>

RuleNames == {"hour", "burst"}
RateAssumption ==
    /\ IsFiniteSet(Requests) /\ MaxTime \in Nat /\ MaxArrivals \in Nat
    /\ Limit \in [RuleNames -> Nat] /\ Window \in [RuleNames -> Nat \ {0}]

NoKey == [count |-> 0, began |-> 0, expires |-> 0]

(* history: how many requests came; when the burst rule counted one and    *)
(* let it in, with when that window began and the count it had; how many   *)
(* of the hour's window were accepted, how many passed it but not the      *)
(* other; and what the last refusal of each rule promised.                 *)
Init ==
    /\ now = 0
    /\ keys = [r \in RuleNames |-> NoKey]
    /\ pc = [q \in Requests |-> "idle"]
    /\ history = [arrived |-> 0, accepted |-> {}, others |-> 0, inHour |-> 0,
                  promise |-> [r \in RuleNames |-> [at |-> 0, until |-> MaxTime + 1]]]

Live(r) == IF keys[r].expires > now THEN keys[r] ELSE NoKey
(* The script: INCR, PEXPIRE on the first, PTTL.                           *)
Incr(r) ==
    IF Live(r).count = 0 THEN [count |-> 1, began |-> now, expires |-> now + Window[r]]
    ELSE [Live(r) EXCEPT !.count = @ + 1]
resetSecFloor(key) == Max({1, (key.expires - now) \div 2})
resetSec(key) == Max({1, (key.expires - now + 1) \div 2})
allowedAbove(r, key) == key.count <= Limit[r] + 1
allowedBelow(r, key) == key.count < Limit[r]
allowed(r, key) == key.count <= Limit[r]

Arrive(q) ==
    /\ pc[q] = "idle" /\ history.arrived < MaxArrivals
    /\ pc' = [pc EXCEPT ![q] = "hour"]
    /\ history' = [history EXCEPT !.arrived = @ + 1]
    /\ UNCHANGED <<now, keys>>

Answered(q) == pc' = [pc EXCEPT ![q] = "idle"]
Promised(r, key) == [history.promise EXCEPT ![r] = [at |-> now, until |-> now + 2 * resetSec(key)]]

(* The rules in their order; the first that refuses answers 429.  Counting *)
(* starts afresh with each window of the hour.                             *)
CheckHour(q) ==
    LET key == Incr("hour")
        h   == IF key.count = 1 THEN [history EXCEPT !.others = 0, !.inHour = 0] ELSE history
    IN  /\ pc[q] = "hour"
        /\ keys' = [keys EXCEPT !["hour"] = key]
        /\ IF allowed("hour", key)
           THEN pc' = [pc EXCEPT ![q] = "burst"] /\ history' = h
           ELSE /\ Answered(q)
                /\ history' = [h EXCEPT !.promise = Promised("hour", key)]
        /\ UNCHANGED now
CheckBurst(q) ==
    LET key == Incr("burst")
    IN  /\ pc[q] = "burst"
        /\ keys' = [keys EXCEPT !["burst"] = key]
        /\ Answered(q)
        /\ history' = IF allowed("burst", key)
                      THEN [history EXCEPT !.inHour = @ + 1,
                              !.accepted = @ \cup {[at |-> now, began |-> key.began, nth |-> key.count]}]
                      ELSE [history EXCEPT !.others = @ + 1, !.promise = Promised("burst", key)]
        /\ UNCHANGED now

(* Redis is away: the rule lets the request pass and counts nothing.  The  *)
(* history forgets it too: such a request is not within any budget.        *)
FailOpen(q) ==
    /\ pc[q] \in RuleNames
    /\ pc' = [pc EXCEPT ![q] = IF pc[q] = "hour" THEN "burst" ELSE "idle"]
    /\ history' = IF pc[q] = "burst" THEN [history EXCEPT !.others = @ + 1] ELSE history
    /\ UNCHANGED <<now, keys>>

Tick ==
    /\ now < MaxTime
    /\ now' = now + 1
    /\ UNCHANGED <<keys, pc, history>>

Next ==
    \/ \E q \in Requests : Arrive(q) \/ CheckHour(q) \/ CheckBurst(q) \/ FailOpen(q)
    \/ Tick
Spec == Init /\ [][Next]_rateVars

-----------------------------------------------------------------------------
(* A window begins with its first request, so any stretch of time as long  *)
(* as a window meets two of them: of the requests the burst rule counted,  *)
(* never more than twice its limit are accepted in such a stretch.         *)
BurstIsBounded ==
    \A t \in 0 .. now :
       Cardinality({a \in history.accepted : a.at \in t .. t + Window["burst"] - 1}) <= 2 * Limit["burst"]

(* What a refusal is earned by.  The burst ceiling: by as many requests as *)
(* it allows, let in by the same window.  The hourly budget: by as many    *)
(* that came, accepted or refused by the ceiling after they were counted,  *)
(* let pass because Redis was away, or still between the two checks.  So   *)
(* the ceiling does not keep one tab from spending the hour in a minute,   *)
(* as is said of it where the limits are given.                            *)
RefusalIsEarned ==
    /\ LET key == Live("burst")
       IN  key.count > Limit["burst"] =>
             1 .. Limit["burst"] \subseteq
                 {a.nth : a \in {x \in history.accepted : x.began = key.began}}
    /\ Live("hour").count > Limit["hour"] =>
          history.inHour + history.others
            + Cardinality({q \in Requests : pc[q] = "burst"}) >= Limit["hour"]

(* Retry-After is never too short: when it has passed, the window that     *)
(* refused is over, and a counter that is live began after the refusal.    *)
RetryAfterIsHonest ==
    \A r \in RuleNames :
       LET p == history.promise[r]
       IN  now >= p.until /\ Live(r).count > 0 => Live(r).began > p.at
=============================================================================
