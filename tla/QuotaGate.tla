------------------------------ MODULE QuotaGate ------------------------------
(***************************************************************************)
(* The gateway's request gate (services/gateway/src/middleware.rs, `gate`) *)
(* and the daily quota it keeps in Redis (crates/proto/src/plan.rs).       *)
(*                                                                         *)
(* Any number of requests run the handler at once and interleave at its    *)
(* awaits: authentication, INCR, EXPIRE, DECR and the wrapped handler.     *)
(* Redis may fail to answer (having executed the command or not), a client *)
(* may go away at any await (the handler's future is dropped), the UTC day *)
(* changes, and the key of a past day expires.                             *)
(***************************************************************************)
EXTENDS Naturals, FiniteSets

CONSTANTS
  Requests,     \* requests, each one made once
  Orgs,         \* organisations
  PlanOf,       \* organisation -> plan tier
  DailyLimit,   \* plan tiers that have a limit -> that limit
  LastDay,      \* bound on the clock
  Faults        \* which of FaultKinds may happen

FaultKinds == {"redis", "disconnect"}

ASSUME QuotaAssumption ==
  /\ IsFiniteSet(Requests)
  /\ \A o \in Orgs : PlanOf[o] \in DOMAIN DailyLimit =>
                        DailyLimit[PlanOf[o]] \in Nat \ {0}
  /\ LastDay \in Nat
  /\ Faults \subseteq FaultKinds

Days == 0 .. LastDay
Keys == Orgs \X Days                            \* quota:{org}:{yyyymmdd}
NoKey == <<>>

VARIABLES
  today,    \* the UTC day
  quota,    \* Redis: key -> counter, 0 for an absent key
  ttl,      \* Redis: key -> has it an expiry?
  pc,       \* request -> the await it is at, or how it ended
  key,      \* request -> the window it counts in
  count,    \* request -> what INCR returned (0: no answer)
  held,     \* ghost: the requests whose INCR took effect and whose DECR did not
  expired,  \* ghost: the keys Redis has dropped
  faulted   \* ghost: the keys a fault has touched

gateVars == <<pc, key, count>>
redisVars == <<quota, ttl>>
vars == <<today, quota, ttl, pc, key, count, held, expired, faulted>>

-----------------------------------------------------------------------------
(* Plan arithmetic (proto::plan).                                          *)

Capped(k) == PlanOf[k[1]] \in DOMAIN DailyLimit
Limit(k) == DailyLimit[PlanOf[k[1]]]

OverLimitLax(k, n) == Capped(k) /\ n > Limit(k) + 1
OverLimit(k, n) == Capped(k) /\ n > Limit(k)

Remaining(k, n) ==
  IF ~ Capped(k) THEN "unlimited" ELSE IF n >= Limit(k) THEN 0 ELSE Limit(k) - n

\* What the response headers and the dashboard show of a window.
Status(k, n) == [used |-> n, remaining |-> Remaining(k, n)]

-----------------------------------------------------------------------------
(* States of a request.                                                    *)

Redis == {"incr", "expire", "decr"}             \* awaiting a Redis command
Passed == {"handler"}                           \* `next.run` is called
Turned == {"decr", "refused"}                   \* the answer is 429
Steps == {"idle", "unauthorized", "dropped"} \cup Redis \cup Passed \cup Turned

Init ==
  /\ today = 0
  /\ quota = [k \in Keys |-> 0]
  /\ ttl = [k \in Keys |-> FALSE]
  /\ pc = [r \in Requests |-> "idle"]
  /\ key = [r \in Requests |-> NoKey]
  /\ count = [r \in Requests |-> 0]
  /\ held = {}
  /\ expired = {}
  /\ faulted = {}

Goto(r, step) == pc' = [pc EXCEPT ![r] = step]

\* The bearer token resolves to no organisation.
Reject(r) ==
  /\ pc[r] = "idle"
  /\ Goto(r, "unauthorized")
  /\ UNCHANGED <<today, redisVars, key, count, held, expired, faulted>>

\* It resolves to one; the day is read once, before the first Redis command.
Authenticate(r, o) ==
  /\ pc[r] = "idle"
  /\ Goto(r, "incr")
  /\ key' = [key EXCEPT ![r] = <<o, today>>]
  /\ UNCHANGED <<today, redisVars, count, held, expired, faulted>>

\* The comparison made with no await after the answer of INCR or EXPIRE.
Decision(k, n) == IF OverLimit(k, n) THEN "decr" ELSE "handler"

AfterIncrNoExpiry(k, n) == Decision(k, n)
AfterIncr(k, n) == IF n = 1 THEN "expire" ELSE Decision(k, n)

Bumped(k) == quota[k] + 1

\* INCR takes effect and is answered.
Incr(r) == LET k == key[r] IN
  /\ pc[r] = "incr"
  /\ quota' = [quota EXCEPT ![k] = Bumped(k)]
  /\ count' = [count EXCEPT ![r] = Bumped(k)]
  /\ held' = held \cup {r}
  /\ Goto(r, AfterIncr(k, Bumped(k)))
  /\ UNCHANGED <<today, ttl, key, expired, faulted>>

\* A command that took effect or not, and of which nothing was heard.
MaybeIncr(r) == LET k == key[r] IN
  \/ quota' = [quota EXCEPT ![k] = Bumped(k)] /\ held' = held \cup {r}
  \/ UNCHANGED <<quota, held>>

MaybeDecr(r) == LET k == key[r] IN
  \/ quota' = [quota EXCEPT ![k] = @ - 1] /\ held' = held \ {r}
  \/ UNCHANGED <<quota, held>>

MaybeExpire(r) == ttl' = [ttl EXCEPT ![key[r]] = TRUE] \/ UNCHANGED ttl

Fault(kind, r) ==
  /\ kind \in Faults
  /\ faulted' = faulted \cup {key[r]}

\* INCR fails: `unwrap_or(0)` lets the request through uncounted.
IncrFails(r) ==
  /\ pc[r] = "incr"
  /\ Fault("redis", r)
  /\ MaybeIncr(r)
  /\ Goto(r, Decision(key[r], 0))
  /\ UNCHANGED <<today, ttl, key, count, expired>>

\* The first request of the window gives the key its expiry.
Expire(r) ==
  /\ pc[r] = "expire"
  /\ ttl' = [ttl EXCEPT ![key[r]] = TRUE]
  /\ Goto(r, Decision(key[r], count[r]))
  /\ UNCHANGED <<today, quota, key, count, held, expired, faulted>>

ExpireFails(r) ==
  /\ pc[r] = "expire"
  /\ Fault("redis", r)
  /\ MaybeExpire(r)
  /\ Goto(r, Decision(key[r], count[r]))
  /\ UNCHANGED <<today, quota, key, count, held, expired>>

\* An over-limit request gives its unit back and is answered 429.
DecrTwice(r) == quota' = [quota EXCEPT ![key[r]] = IF @ > 1 THEN @ - 2 ELSE 0]
GiveBack(r) == quota' = [quota EXCEPT ![key[r]] = @ - 1]

Decr(r) ==
  /\ pc[r] = "decr"
  /\ GiveBack(r)
  /\ held' = held \ {r}
  /\ Goto(r, "refused")
  /\ UNCHANGED <<today, ttl, key, count, expired, faulted>>

DecrFails(r) ==
  /\ pc[r] = "decr"
  /\ Fault("redis", r)
  /\ MaybeDecr(r)
  /\ Goto(r, "refused")
  /\ UNCHANGED <<today, ttl, key, count, expired>>

-----------------------------------------------------------------------------
(* The client goes away: the future is dropped at its await, and a command *)
(* already handed to the connection may still take effect.                 *)

Disconnect(r) ==
  /\ Fault("disconnect", r)
  /\ Goto(r, "dropped")
  /\ \/ pc[r] = "incr" /\ MaybeIncr(r) /\ UNCHANGED ttl
     \/ pc[r] = "expire" /\ MaybeExpire(r) /\ UNCHANGED <<quota, held>>
     \/ pc[r] = "decr" /\ MaybeDecr(r) /\ UNCHANGED ttl
  /\ UNCHANGED <<today, key, count, expired>>

-----------------------------------------------------------------------------
(* The clock, Redis expiry and the control plane.                          *)

Midnight ==
  /\ today < LastDay
  /\ today' = today + 1
  /\ UNCHANGED <<redisVars, gateVars, held, expired, faulted>>

\* The expiry is set to 25 hours on or after the key's day began, so the day
\* is over when it strikes. A request that took its day from the clock an hour
\* or more before is not still at a Redis command.
MayExpire(k) ==
  /\ ttl[k]
  /\ k[2] < today
  /\ \A r \in Requests : key[r] = k => pc[r] \notin Redis

KeyExpires(k) ==
  /\ MayExpire(k)
  /\ quota' = [quota EXCEPT ![k] = 0]
  /\ ttl' = [ttl EXCEPT ![k] = FALSE]
  /\ expired' = expired \cup {k}
  /\ UNCHANGED <<today, gateVars, held, faulted>>

\* The dashboard reads the same key (when Redis does not answer it shows a
\* count of 0, and so does a gateway response whose INCR failed).
ShownYesterday(o) == Status(<<o, IF today = 0 THEN 0 ELSE today - 1>>,
                            quota[<<o, IF today = 0 THEN 0 ELSE today - 1>>])
Shown(o) == Status(<<o, today>>, quota[<<o, today>>])

Next ==
  \/ \E r \in Requests :
       \/ Reject(r)
       \/ \E o \in Orgs : Authenticate(r, o)
       \/ Incr(r) \/ IncrFails(r)
       \/ Expire(r) \/ ExpireFails(r)
       \/ Decr(r) \/ DecrFails(r)
       \/ Disconnect(r)
  \/ Midnight
  \/ \E k \in Keys : KeyExpires(k)

Spec == Init /\ [][Next]_vars

-----------------------------------------------------------------------------
(* Properties.                                                             *)

\* Every variable keeps the shape the code gives it.
TypeOK ==
  /\ today \in Days
  /\ quota \in [Keys -> Nat]
  /\ ttl \in [Keys -> BOOLEAN]
  /\ pc \in [Requests -> Steps]
  /\ key \in [Requests -> Keys \cup {NoKey}]
  /\ count \in [Requests -> Nat]
  /\ held \subseteq Requests
  /\ expired \subseteq Keys
  /\ faulted \subseteq Keys
  /\ \A r \in Requests : pc[r] \notin {"idle", "unauthorized"} => key[r] \in Keys

Live(k) == k \notin expired

Holders(k) == {r \in held : key[r] = k}
Charged(k) == {r \in Holders(k) : ~ OverLimit(k, count[r])}
Metered(k) ==
  {r \in Requests : key[r] = k /\ count[r] > 0 /\ pc[r] \in Passed \cup {"expire"}}
TurnedAway(k) == {r \in Requests : key[r] = k /\ pc[r] \in Turned}

\* The Redis counter is the number of requests that hold a unit of the window,
\* whatever failed in between: no unit is given back twice and none appears
\* that no request took (the INCR and DECR of `gate`).
CounterIsExact == \A k \in Keys : Live(k) => quota[k] = Cardinality(Holders(k))

\* However the INCRs, the roll-backs and the failures interleave, no more than
\* the plan's limit of metered requests of a window reach the handler
\* (`count > limit` in `gate`).
AdmittedWithinLimit ==
  \A k \in Keys : Capped(k) => Cardinality(Metered(k)) <= Limit(k)

\* A 429 is never premature: when a request is turned away, the limit's worth
\* of units was taken by others under the limit. The transient overshoot of
\* other over-limit requests does not refuse a request with budget left.
NoSpuriousRefusal ==
  \A k \in Keys : TurnedAway(k) # {} => Cardinality(Charged(k)) >= Limit(k)

\* Once a window has turned a request away, it never meters another one
\* through: the DECRs that follow a refusal free no budget.
RefusalIsFinal ==
  [][\A k \in Keys : TurnedAway(k) # {} => Metered(k)' \subseteq Metered(k)]_vars

\* A counter without an expiry is about to get one from the request that
\* created it, unless a fault touched the window (`count == 1` in `gate`): two
\* concurrent first requests do not leave the key to live forever.
ExpiryIsOwned ==
  \A k \in Keys :
    /\ quota[k] > 0
    /\ ~ ttl[k]
    /\ k \notin faulted
    => \E r \in Requests : key[r] = k /\ pc[r] = "expire"

\* What the dashboard shows agrees with what the gateway enforces: a quota read
\* from Redis after a request of today was turned away shows nothing left
\* (metrics.rs `quota`, "so the number matches enforcement").
DashboardAgrees ==
  \A o \in Orgs : TurnedAway(<<o, today>>) # {} => Shown(o).remaining = 0

\* The verdict the caller of `gate` gets, in the terms of DailyBudget.
Verdict(r) ==
  IF count[r] > 0 THEN IF OverLimit(key[r], count[r]) THEN "refused" ELSE "granted"
  ELSE IF pc[r] \in Passed THEN "unmetered" ELSE "none"

Budget == INSTANCE DailyBudget WITH
  Windows <- Keys,
  spent <- [k \in Keys |-> Charged(k)],
  verdict <- [r \in Requests |-> Verdict(r)]

\* The gate implements the abstract budget: every step of the shared counter,
\* its overshoot and its roll-back is a grant, a refusal, an unmetered pass, a
\* wasted unit or nothing.
BudgetKept == Budget!Spec

-----------------------------------------------------------------------------
(* The inductive invariant behind the safety properties.                   *)

Over(r) == OverLimit(key[r], count[r])

\* Where a request stands determines what it saw and whether it holds a unit.
Bookkeeping ==
  \A r \in Requests :
    /\ pc[r] \in {"idle", "unauthorized", "incr"} => count[r] = 0 /\ r \notin held
    /\ pc[r] = "expire" => count[r] = 1
    /\ pc[r] = "decr" => r \in held
    /\ pc[r] \in Turned => Over(r)
    /\ pc[r] \in {"expire", "handler"} => ~ Over(r)
    /\ count[r] > 0 /\ ~ Over(r) => r \in held

\* Only windows of past days with no request at Redis have lost their counter.
ExpiredIsPast ==
  \A k \in expired :
    k[2] < today /\ \A r \in Requests : key[r] = k => pc[r] \notin Redis

\* A request sees a count over the limit only when the limit is used up.
OverMeansExhausted ==
  \A r \in Requests :
    pc[r] \notin {"idle", "unauthorized"} /\ Over(r)
      => Cardinality(Charged(key[r])) >= Limit(key[r])

IInv ==
  /\ TypeOK
  /\ Bookkeeping
  /\ ExpiredIsPast
  /\ CounterIsExact
  /\ AdmittedWithinLimit
  /\ OverMeansExhausted
=============================================================================
