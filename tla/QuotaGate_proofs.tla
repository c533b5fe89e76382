--------------------------- MODULE QuotaGate_proofs ---------------------------
(***************************************************************************)
(* Proofs about QuotaGate, for any number of requests and organisations,   *)
(* any plan limits and any combination of faults.                          *)
(*                                                                         *)
(* The argument: the counter of a live key is the number of requests that  *)
(* hold a unit of it (CounterIsExact); a request is metered through only   *)
(* when the counter it just raised is at most the limit, and every metered *)
(* request holds a unit, so there are no more of them than the limit       *)
(* (AdmittedWithinLimit); and a request can see a count over the limit     *)
(* only when the limit's worth of units is held by requests that will      *)
(* never give theirs back (OverMeansExhausted).                            *)
(***************************************************************************)
EXTENDS QuotaGate, FiniteSetTheorems, TLAPS

-----------------------------------------------------------------------------
(* Facts about keys, limits and the sets of requests of a window.          *)

\* A plan limit (proto::plan::daily_request_limit) is a positive number.
LEMMA LimitPositive ==
  ASSUME NEW k \in Keys, Capped(k)
  PROVE  Limit(k) \in Nat \ {0}
BY QuotaAssumption DEF Capped, Limit, Keys

\* The requests of a window are finitely many; the charged ones hold units.
LEMMA WindowSets ==
  ASSUME TypeOK, NEW k
  PROVE  /\ IsFiniteSet(Holders(k))
         /\ IsFiniteSet(Charged(k))
         /\ IsFiniteSet(Metered(k))
         /\ Charged(k) \subseteq Holders(k)
         /\ Cardinality(Charged(k)) \in Nat
         /\ Cardinality(Holders(k)) \in Nat
         /\ Cardinality(Metered(k)) \in Nat
         /\ Cardinality(Charged(k)) <= Cardinality(Holders(k))
<1>1. Holders(k) \in SUBSET Requests
  BY DEF TypeOK, Holders
<1>2. Metered(k) \in SUBSET Requests
  BY DEF Metered
<1>3. Charged(k) \in SUBSET Holders(k)
  BY DEF Charged
<1>4. IsFiniteSet(Holders(k)) /\ IsFiniteSet(Metered(k))
  BY <1>1, <1>2, QuotaAssumption, FS_Subset
<1>5. IsFiniteSet(Charged(k)) /\ Cardinality(Charged(k)) <= Cardinality(Holders(k))
  BY <1>3, <1>4, FS_Subset
<1> QED
  BY <1>3, <1>4, <1>5, FS_CardinalityType

\* A metered request is charged, by the bookkeeping.
LEMMA MeteredIsCharged ==
  ASSUME TypeOK, Bookkeeping, NEW k
  PROVE  Metered(k) \subseteq Charged(k)
BY DEF Bookkeeping, Metered, Charged, Holders, Passed, Over

\* A request that holds a unit of a live window accounts for one of its counter.
LEMMA HolderCounts ==
  ASSUME TypeOK, CounterIsExact, NEW r \in held, key[r] \in Keys, Live(key[r])
  PROVE  quota[key[r]] \in Nat \ {0}
<1>1. quota[key[r]] = Cardinality(Holders(key[r]))
  BY DEF CounterIsExact
<1>2. r \in Holders(key[r])
  BY DEF Holders
<1>3. Cardinality(Holders(key[r])) # 0
  BY <1>2, WindowSets, FS_EmptySet
<1> QED
  BY <1>1, <1>3, WindowSets

-----------------------------------------------------------------------------
(* The counter stays exact when a unit is taken, given back or untouched.  *)

\* A request that takes a unit, the counter going up by one with it.
LEMMA TakeUnit ==
  ASSUME TypeOK, CounterIsExact, NEW r \in Requests, key[r] \in Keys, r \notin held,
         held' = held \cup {r}, quota' = [quota EXCEPT ![key[r]] = Bumped(key[r])],
         UNCHANGED <<key, expired>>
  PROVE  CounterIsExact'
<1> SUFFICES ASSUME NEW k \in Keys, Live(k)
             PROVE  quota'[k] = Cardinality(Holders(k)')
  BY DEF CounterIsExact, Live
<1>1. quota[k] = Cardinality(Holders(k))
  BY DEF CounterIsExact
<1>2. CASE k = key[r]
  <2>1. Holders(k)' = Holders(k) \cup {r}
    BY <1>2 DEF Holders
  <2>2. r \notin Holders(k)
    BY DEF Holders
  <2>3. Cardinality(Holders(k)') = Cardinality(Holders(k)) + 1
    BY <2>1, <2>2, WindowSets, FS_AddElement
  <2> QED
    BY <1>1, <1>2, <2>3 DEF Bumped, TypeOK
<1>3. CASE k # key[r]
  <2>1. Holders(k)' = Holders(k)
    BY <1>3 DEF Holders
  <2> QED
    BY <1>1, <1>3, <2>1 DEF TypeOK
<1> QED
  BY <1>2, <1>3

\* A request that gives its unit back, the counter going down by one with it.
LEMMA GiveUnit ==
  ASSUME TypeOK, CounterIsExact, NEW r \in held, key[r] \in Keys, Live(key[r]),
         held' = held \ {r}, quota' = [quota EXCEPT ![key[r]] = @ - 1],
         UNCHANGED <<key, expired>>
  PROVE  /\ CounterIsExact'
         /\ quota' \in [Keys -> Nat]
<1>0. quota[key[r]] \in Nat \ {0}
  BY HolderCounts
<1>1. quota' \in [Keys -> Nat]
  BY <1>0 DEF TypeOK
<1> SUFFICES ASSUME NEW k \in Keys, Live(k)
             PROVE  quota'[k] = Cardinality(Holders(k)')
  BY <1>1 DEF CounterIsExact, Live
<1>2. quota[k] = Cardinality(Holders(k))
  BY DEF CounterIsExact
<1>3. CASE k = key[r]
  <2>1. Holders(k)' = Holders(k) \ {r}
    BY <1>3 DEF Holders
  <2>2. r \in Holders(k)
    BY <1>3 DEF Holders
  <2>3. Cardinality(Holders(k)') = Cardinality(Holders(k)) - 1
    BY <2>1, <2>2, WindowSets, FS_RemoveElement
  <2> QED
    BY <1>2, <1>3, <2>3 DEF TypeOK
<1>4. CASE k # key[r]
  <2>1. Holders(k)' = Holders(k)
    BY <1>4 DEF Holders
  <2> QED
    BY <1>2, <1>4, <2>1 DEF TypeOK
<1> QED
  BY <1>3, <1>4

\* A step that moves no unit and no counter leaves CounterIsExact alone.
LEMMA SameUnits ==
  ASSUME TypeOK, CounterIsExact, UNCHANGED <<quota, key, held>>, expired \subseteq expired'
  PROVE  CounterIsExact'
<1>1. ASSUME NEW k \in Keys PROVE Holders(k)' = Holders(k)
  BY DEF Holders
<1> QED
  BY <1>1 DEF CounterIsExact, Live

\* No request is newly metered: the bound on them is kept.
LEMMA NoneAdmitted ==
  ASSUME TypeOK, AdmittedWithinLimit, \A k \in Keys : Metered(k)' \subseteq Metered(k)
  PROVE  AdmittedWithinLimit'
<1> SUFFICES ASSUME NEW k \in Keys, Capped(k)
             PROVE  Cardinality(Metered(k)') <= Limit(k)
  BY DEF AdmittedWithinLimit, Capped, Limit
<1>1. Cardinality(Metered(k)') <= Cardinality(Metered(k)) /\ Cardinality(Metered(k)') \in Nat
  BY WindowSets, FS_Subset, FS_CardinalityType
<1> QED
  BY <1>1, WindowSets, LimitPositive DEF AdmittedWithinLimit

\* No request newly sees a count over the limit, and the charged ones remain.
LEMMA StillExhausted ==
  ASSUME TypeOK, TypeOK', OverMeansExhausted,
         \A r \in Requests : (pc[r] \notin {"idle", "unauthorized"} /\ Over(r))' =>
            pc[r] \notin {"idle", "unauthorized"} /\ Over(r) /\ key'[r] = key[r],
         \A k \in Keys : Charged(k) \subseteq Charged(k)'
  PROVE  OverMeansExhausted'
<1> SUFFICES ASSUME NEW r \in Requests, (pc[r] \notin {"idle", "unauthorized"})', Over(r)'
             PROVE  (Cardinality(Charged(key[r])) >= Limit(key[r]))'
  BY DEF OverMeansExhausted
<1> DEFINE k == key[r]
<1>1. k \in Keys /\ key'[r] = k /\ Cardinality(Charged(k)) >= Limit(k) /\ Capped(k)
  BY DEF OverMeansExhausted, TypeOK, Over, OverLimit
<1>2. IsFiniteSet(Charged(k)') /\ Cardinality(Charged(k)') \in Nat
  <2>1. Charged(k)' \in SUBSET Requests
    BY DEF Charged, Holders, TypeOK
  <2> QED
    BY <2>1, QuotaAssumption, FS_Subset, FS_CardinalityType
<1>3. Cardinality(Charged(k)) <= Cardinality(Charged(k)')
  BY <1>1, <1>2, FS_Subset
<1> QED
  BY <1>1, <1>2, <1>3, WindowSets, LimitPositive DEF Limit

-----------------------------------------------------------------------------
(* Each action preserves the inductive invariant.                          *)

\* The initial states satisfy the invariant: nothing is counted or held.
LEMMA InitIInv == Init => IInv
<1> SUFFICES ASSUME Init PROVE IInv
  OBVIOUS
<1>1. TypeOK
  BY QuotaAssumption DEF Init, TypeOK, Days, Steps, NoKey
<1>2. Bookkeeping /\ ExpiredIsPast /\ OverMeansExhausted
  BY DEF Init, Bookkeeping, ExpiredIsPast, OverMeansExhausted, Turned
<1>3. CounterIsExact
  <2>1. \A k \in Keys : Holders(k) = {}
    BY DEF Init, Holders
  <2> QED
    BY <2>1, FS_EmptySet DEF Init, CounterIsExact
<1>4. AdmittedWithinLimit
  <2>1. \A k \in Keys : Metered(k) = {}
    BY DEF Init, Metered
  <2> QED
    BY <2>1, FS_EmptySet, LimitPositive DEF AdmittedWithinLimit
<1> QED
  BY <1>1, <1>2, <1>3, <1>4 DEF IInv

\* A request at Redis counts in a live window.
LEMMA AtRedis ==
  ASSUME IInv, NEW r \in Requests, pc[r] \in Redis
  PROVE  key[r] \in Keys /\ Live(key[r])
BY DEF IInv, TypeOK, ExpiredIsPast, Live, Redis

\* A request without a known token touches no counter.
LEMMA RejectIInv ==
  ASSUME IInv, NEW r \in Requests, Reject(r)
  PROVE  IInv'
<1> USE DEF IInv
<1>1. TypeOK'
  BY DEF Reject, Goto, TypeOK, Steps, redisVars
<1>2. Bookkeeping'
  BY DEF Reject, Goto, TypeOK, Bookkeeping, Over, OverLimit, Capped, Limit, Turned, redisVars
<1>3. ExpiredIsPast'
  BY DEF Reject, Goto, TypeOK, ExpiredIsPast, Redis, redisVars
<1>4. CounterIsExact'
  BY SameUnits DEF Reject, redisVars
<1>5. AdmittedWithinLimit'
  BY NoneAdmitted DEF Reject, Goto, TypeOK, Metered, Passed
<1>6. OverMeansExhausted'
  BY <1>1, StillExhausted
  DEF Reject, Goto, TypeOK, Over, OverLimit, Capped, Limit, Charged, Holders
<1> QED
  BY <1>1, <1>2, <1>3, <1>4, <1>5, <1>6

\* A request that gets its window has taken no unit of it yet.
LEMMA AuthenticateIInv ==
  ASSUME IInv, NEW r \in Requests, NEW o \in Orgs, Authenticate(r, o)
  PROVE  IInv'
<1> USE DEF IInv
<1>0. <<o, today>> \in Keys /\ <<o, today>>[2] = today /\ r \notin held /\ count[r] = 0
  BY DEF Keys, TypeOK, Bookkeeping, Authenticate
<1>1. TypeOK'
  BY <1>0 DEF Authenticate, Goto, TypeOK, Steps, Redis, redisVars
<1>2. ~ OverLimit(<<o, today>>, 0)
  BY <1>0, LimitPositive DEF OverLimit
<1>3. Bookkeeping'
  BY <1>0, <1>2
  DEF Authenticate, Goto, TypeOK, Bookkeeping, Over, OverLimit, Capped, Limit, Turned, redisVars
<1>4. ExpiredIsPast'
  BY <1>0 DEF Authenticate, Goto, TypeOK, Days, ExpiredIsPast, Redis, redisVars
<1>5. \A k \in Keys : Holders(k)' = Holders(k)
  BY <1>0 DEF Authenticate, Holders, TypeOK
<1>6. CounterIsExact'
  BY <1>5 DEF Authenticate, CounterIsExact, Live, redisVars
<1>7. AdmittedWithinLimit'
  BY <1>0, NoneAdmitted DEF Authenticate, Goto, TypeOK, Metered, Passed
<1>8. \A k \in Keys : Charged(k) \subseteq Charged(k)'
  BY <1>0, <1>5 DEF Authenticate, Charged, Holders, OverLimit, Capped, Limit
<1>9. OverMeansExhausted'
  BY <1>0, <1>1, <1>2, <1>8, StillExhausted
  DEF Authenticate, Goto, TypeOK, Over, OverLimit, Capped, Limit
<1> QED
  BY <1>1, <1>3, <1>4, <1>6, <1>7, <1>9

\* The answered INCR: the one step that meters a request through.
LEMMA IncrIInv ==
  ASSUME IInv, NEW r \in Requests, Incr(r)
  PROVE  IInv'
<1> USE DEF IInv
<1> PICK k \in Keys : k = key[r]
  BY AtRedis DEF Incr, Redis
<1> PICK n : n = Bumped(k)
  OBVIOUS
<1>0. key[r] = k /\ Live(k) /\ r \notin held /\ count[r] = 0
  BY AtRedis DEF Incr, Bookkeeping, Redis
<1>1. n = quota[k] + 1 /\ quota[k] \in Nat /\ n \in Nat \ {0}
  BY <1>0 DEF Bumped, TypeOK
<1>2. /\ quota' = [quota EXCEPT ![k] = n]
      /\ count' = [count EXCEPT ![r] = n]
      /\ held' = held \cup {r}
      /\ pc' = [pc EXCEPT ![r] = AfterIncr(k, n)]
      /\ UNCHANGED <<today, ttl, key, expired, faulted>>
  BY DEF Incr, Goto
<1>3. AfterIncr(k, n) \in {"expire", "decr", "handler"}
  BY DEF AfterIncr, Decision
<1>4. TypeOK'
  <2>1. count' \in [Requests -> Nat] /\ quota' \in [Keys -> Nat]
    BY <1>0, <1>1, <1>2 DEF TypeOK
  <2>2. pc' \in [Requests -> Steps]
    BY <1>2, <1>3 DEF TypeOK, Steps, Redis, Passed, Turned
  <2> QED
    BY <1>0, <1>2, <2>1, <2>2 DEF TypeOK
<1>5. AfterIncr(k, n) = "expire" => n = 1
  BY DEF AfterIncr, Decision
<1>6. AfterIncr(k, n) = "decr" <=> OverLimit(k, n)
  BY <1>0, <1>1, LimitPositive DEF AfterIncr, Decision, OverLimit
<1>7. Bookkeeping'
  BY <1>0, <1>1, <1>2, <1>3, <1>5, <1>6
  DEF Bookkeeping, TypeOK, Over, OverLimit, Capped, Limit, Turned
<1>8. ExpiredIsPast'
  BY <1>0, <1>2 DEF ExpiredIsPast, Live, TypeOK
<1>9. CounterIsExact'
  BY <1>0, <1>2, TakeUnit
<1>10. AdmittedWithinLimit'
  <2> SUFFICES ASSUME NEW w \in Keys, Capped(w)
               PROVE  Cardinality(Metered(w)') <= Limit(w)
    BY DEF AdmittedWithinLimit, Capped, Limit
  <2>1. CASE w = k /\ ~ OverLimit(k, n)
    <3>1. Metered(w)' \in SUBSET Holders(w)'
      BY <1>2, <1>4, <1>7
      DEF Metered, Holders, Bookkeeping, Over, OverLimit, Capped, Limit, TypeOK, Passed
    <3>2. Cardinality(Holders(w)') = n
      BY <1>0, <1>1, <1>2, <1>9, <2>1 DEF CounterIsExact, Live, TypeOK
    <3>3. IsFiniteSet(Holders(w)')
      <4>1. Holders(w)' \in SUBSET Requests
        BY <1>4 DEF Holders, TypeOK
      <4> QED
        BY <4>1, QuotaAssumption, FS_Subset
    <3>4. Cardinality(Metered(w)') <= n
      BY <3>1, <3>2, <3>3, FS_Subset
    <3>5. Cardinality(Metered(w)') \in Nat
      BY <3>1, <3>3, FS_Subset, FS_CardinalityType
    <3> QED
      BY <1>1, <2>1, <3>4, <3>5, LimitPositive DEF OverLimit
  <2>2. CASE w # k \/ OverLimit(k, n)
    <3>1. Metered(w)' \in SUBSET Metered(w)
      BY <1>2, <1>6, <2>2 DEF Metered, TypeOK, Passed
    <3> QED
      BY <3>1, WindowSets, FS_Subset, FS_CardinalityType, LimitPositive
      DEF AdmittedWithinLimit
  <2> QED
    BY <2>1, <2>2
<1>11. \A w \in Keys : Charged(w) \subseteq Charged(w)'
  BY <1>0, <1>2 DEF Charged, Holders, OverLimit, Capped, Limit, TypeOK
<1>12. OverMeansExhausted'
  <2>1. CASE ~ OverLimit(k, n)
    BY <1>2, <1>3, <1>4, <1>11, <2>1, StillExhausted
    DEF TypeOK, Over, OverLimit, Capped, Limit
  <2>2. CASE OverLimit(k, n)
    <3>1. Cardinality(Charged(k)) >= Limit(k)
      <4>1. CASE Charged(k) = Holders(k)
        BY <1>0, <1>1, <2>2, <4>1, LimitPositive DEF CounterIsExact, OverLimit
      <4>2. CASE Charged(k) # Holders(k)
        <5>1. PICK q \in Holders(k) : OverLimit(k, count[q])
          BY <4>2 DEF Charged
        <5>2. q \in Requests /\ key[q] = k /\ pc[q] \notin {"idle", "unauthorized"} /\ Over(q)
          BY <5>1 DEF Holders, TypeOK, Bookkeeping, Over
        <5> QED
          BY <5>2 DEF OverMeansExhausted
      <4> QED
        BY <4>1, <4>2
    <3>2. Charged(k)' \in SUBSET Requests
      BY <1>4 DEF Charged, Holders, TypeOK
    <3>3. IsFiniteSet(Charged(k)')
      BY <3>2, QuotaAssumption, FS_Subset
    <3>4. Cardinality(Charged(k)) <= Cardinality(Charged(k)')
      BY <1>0, <1>11, <3>3, FS_Subset
    <3> SUFFICES ASSUME NEW q \in Requests,
                        (pc[q] \notin {"idle", "unauthorized"} /\ Over(q))'
                 PROVE  (Cardinality(Charged(key[q])) >= Limit(key[q]))'
      BY DEF OverMeansExhausted
    <3>5. CASE key[q] = k
      <4>1. Cardinality(Charged(k)') \in Nat /\ Limit(k) \in Nat
        BY <1>0, <2>2, <3>3, FS_CardinalityType, LimitPositive DEF OverLimit
      <4>2. key'[q] = k /\ Limit(k)' = Limit(k)
        BY <1>2, <3>5 DEF Limit
      <4> QED
        BY <3>1, <3>4, <4>1, <4>2, WindowSets DEF Limit
    <3>6. CASE key[q] # k
      <4>1. Over(q) /\ pc[q] \notin {"idle", "unauthorized"} /\ key'[q] = key[q]
        BY <1>2, <3>6 DEF Over, OverLimit, Capped, Limit, TypeOK
      <4>2. Charged(key[q])' = Charged(key[q])
        BY <1>2, <3>6 DEF Charged, Holders, OverLimit, Capped, Limit, TypeOK
      <4> QED
        BY <4>1, <4>2 DEF OverMeansExhausted, Limit
    <3> QED
      BY <3>5, <3>6
  <2> QED
    BY <2>1, <2>2
<1> QED
  BY <1>4, <1>7, <1>8, <1>9, <1>10, <1>12

\* An INCR nothing was heard of: the request passes unmetered or is dropped.
LEMMA UnheardIncrIInv ==
  ASSUME IInv, NEW r \in Requests, pc[r] = "incr", MaybeIncr(r),
         NEW step \in {"handler", "dropped"}, Goto(r, step),
         faulted' = faulted \cup {key[r]}, UNCHANGED <<today, ttl, key, count, expired>>
  PROVE  IInv'
<1> USE DEF IInv
<1>0. key[r] \in Keys /\ Live(key[r]) /\ r \notin held /\ count[r] = 0
  BY AtRedis DEF Bookkeeping, Redis
<1>1. ~ OverLimit(key[r], 0)
  BY <1>0, LimitPositive DEF OverLimit
<1>2. TypeOK'
  <2>1. quota' \in [Keys -> Nat]
    BY <1>0 DEF TypeOK, MaybeIncr, Bumped
  <2>2. held' \subseteq Requests /\ pc' \in [Requests -> Steps]
    BY DEF TypeOK, MaybeIncr, Goto, Steps, Passed
  <2> QED
    BY <1>0, <2>1, <2>2 DEF TypeOK, Goto
<1>3. held' = held \cup {r} \/ held' = held
  BY DEF MaybeIncr
<1>4. Bookkeeping'
  BY <1>0, <1>1, <1>3 DEF Goto, TypeOK, Bookkeeping, Over, OverLimit, Capped, Limit, Turned
<1>5. ExpiredIsPast'
  BY <1>0 DEF Goto, TypeOK, ExpiredIsPast, Redis, Live
<1>6. CounterIsExact'
  <2>1. CASE held' = held \cup {r} /\ quota' = [quota EXCEPT ![key[r]] = Bumped(key[r])]
    BY <1>0, <2>1, TakeUnit
  <2>2. CASE UNCHANGED <<quota, held>>
    BY <2>2, SameUnits
  <2> QED
    BY <2>1, <2>2 DEF MaybeIncr
<1>7. AdmittedWithinLimit'
  BY <1>0, NoneAdmitted DEF Goto, TypeOK, Metered, Passed
<1>8. \A k \in Keys : Charged(k) \subseteq Charged(k)'
  BY <1>3 DEF Charged, Holders, OverLimit, Capped, Limit
<1>9. OverMeansExhausted'
  BY <1>0, <1>1, <1>2, <1>8, StillExhausted DEF Goto, TypeOK, Over, OverLimit, Capped, Limit
<1> QED
  BY <1>2, <1>4, <1>5, <1>6, <1>7, <1>9

\* EXPIRE, answered or not: only the expiry of the key may change.
LEMMA AnyExpireIInv ==
  ASSUME IInv, NEW r \in Requests, pc[r] = "expire", MaybeExpire(r),
         NEW step \in {"handler", "dropped"}, Goto(r, step),
         faulted' \in {faulted, faulted \cup {key[r]}},
         UNCHANGED <<today, quota, key, count, held, expired>>
  PROVE  IInv'
<1> USE DEF IInv
<1>0. key[r] \in Keys /\ Live(key[r]) /\ ~ Over(r)
  BY AtRedis DEF Bookkeeping, Redis
<1>1. TypeOK'
  <2>1. pc' \in [Requests -> Steps]
    BY DEF TypeOK, Goto, Steps, Passed
  <2>2. ttl' \in [Keys -> BOOLEAN]
    BY <1>0 DEF TypeOK, MaybeExpire
  <2> QED
    BY <1>0, <2>1, <2>2 DEF TypeOK, Goto
<1>2. Bookkeeping'
  BY <1>0 DEF Goto, TypeOK, Bookkeeping, Over, OverLimit, Capped, Limit, Turned
<1>3. ExpiredIsPast'
  BY <1>0 DEF Goto, TypeOK, ExpiredIsPast, Redis, Live
<1>4. CounterIsExact'
  BY SameUnits
<1>5. AdmittedWithinLimit'
  BY NoneAdmitted DEF Goto, TypeOK, Metered, Passed
<1>6. \A k \in Keys : Charged(k) \subseteq Charged(k)'
  BY DEF Charged, Holders, OverLimit, Capped, Limit
<1>7. OverMeansExhausted'
  BY <1>1, <1>6, StillExhausted DEF Goto, TypeOK, Over, OverLimit, Capped, Limit
<1> QED
  BY <1>1, <1>2, <1>3, <1>4, <1>5, <1>7

\* DECR, answered or not, after which the request is refused or dropped.
LEMMA AnyDecrIInv ==
  ASSUME IInv, NEW r \in Requests, pc[r] = "decr", MaybeDecr(r),
         NEW step \in {"refused", "dropped"}, Goto(r, step),
         faulted' \in {faulted, faulted \cup {key[r]}},
         UNCHANGED <<today, ttl, key, count, expired>>
  PROVE  IInv'
<1> USE DEF IInv
<1>0. key[r] \in Keys /\ Live(key[r]) /\ r \in held /\ Over(r)
  BY AtRedis DEF Bookkeeping, Redis, Turned
<1>1. /\ CounterIsExact'
      /\ quota' \in [Keys -> Nat]
  <2>1. CASE held' = held \ {r} /\ quota' = [quota EXCEPT ![key[r]] = @ - 1]
    BY <1>0, <2>1, GiveUnit
  <2>2. CASE UNCHANGED <<quota, held>>
    BY <2>2, SameUnits DEF TypeOK
  <2> QED
    BY <2>1, <2>2 DEF MaybeDecr
<1>2. held' \in {held, held \ {r}}
  BY DEF MaybeDecr
<1>3. TypeOK'
  <2>1. pc' \in [Requests -> Steps]
    BY DEF TypeOK, Goto, Steps, Turned
  <2> QED
    BY <1>0, <1>1, <1>2, <2>1 DEF TypeOK, Goto
<1>4. Bookkeeping'
  BY <1>0, <1>2 DEF Goto, TypeOK, Bookkeeping, Over, OverLimit, Capped, Limit, Turned
<1>5. ExpiredIsPast'
  BY <1>0 DEF Goto, TypeOK, ExpiredIsPast, Redis, Live
<1>6. AdmittedWithinLimit'
  BY NoneAdmitted DEF Goto, TypeOK, Metered, Passed
<1>7. \A k \in Keys : Charged(k) \subseteq Charged(k)'
  BY <1>0, <1>2 DEF Charged, Holders, Over, OverLimit, Capped, Limit
<1>8. OverMeansExhausted'
  BY <1>3, <1>7, StillExhausted DEF Goto, TypeOK, Over, OverLimit, Capped, Limit
<1> QED
  BY <1>1, <1>3, <1>4, <1>5, <1>6, <1>8

\* What a request does when a command of it is answered, fails or is dropped.
LEMMA OtherRequestStepsIInv ==
  ASSUME IInv, NEW r \in Requests,
         IncrFails(r) \/ Expire(r) \/ ExpireFails(r) \/ Decr(r) \/ DecrFails(r)
           \/ Disconnect(r)
  PROVE  IInv'
<1>1. CASE IncrFails(r)
  <2>1. key[r] \in Keys /\ pc[r] = "incr"
    BY <1>1, AtRedis DEF IncrFails, Redis
  <2>2. Decision(key[r], 0) = "handler"
    BY <2>1, LimitPositive DEF Decision, OverLimit
  <2> QED
    BY <1>1, <2>1, <2>2, UnheardIncrIInv DEF IncrFails, Fault
<1>2. CASE Expire(r) \/ ExpireFails(r)
  <2>1. pc[r] = "expire" /\ MaybeExpire(r)
    BY <1>2 DEF Expire, ExpireFails, MaybeExpire
  <2>2. Decision(key[r], count[r]) = "handler"
    BY <2>1 DEF Decision, IInv, Bookkeeping, Over
  <2> QED
    BY <1>2, <2>1, <2>2, AnyExpireIInv DEF Expire, ExpireFails, Fault
<1>3. CASE Decr(r) \/ DecrFails(r)
  <2>1. pc[r] = "decr" /\ MaybeDecr(r)
    BY <1>3 DEF Decr, DecrFails, MaybeDecr, GiveBack
  <2> QED
    BY <1>3, <2>1, AnyDecrIInv DEF Decr, DecrFails, Fault
<1>4. CASE Disconnect(r)
  <2>0. faulted' = faulted \cup {key[r]} /\ Goto(r, "dropped")
        /\ UNCHANGED <<today, key, count, expired>>
    BY <1>4 DEF Disconnect, Fault
  <2>1. CASE pc[r] = "incr"
    <3>1. MaybeIncr(r) /\ UNCHANGED ttl
      BY <1>4, <2>1 DEF Disconnect
    <3> QED
      BY <2>0, <2>1, <3>1, UnheardIncrIInv
  <2>2. CASE pc[r] = "expire"
    <3>1. MaybeExpire(r) /\ UNCHANGED <<quota, held>>
      BY <1>4, <2>2 DEF Disconnect
    <3> QED
      BY <2>0, <2>2, <3>1, AnyExpireIInv
  <2>3. CASE pc[r] = "decr"
    <3>1. MaybeDecr(r) /\ UNCHANGED ttl
      BY <1>4, <2>3 DEF Disconnect
    <3> QED
      BY <2>0, <2>3, <3>1, AnyDecrIInv
  <2> QED
    BY <1>4, <2>1, <2>2, <2>3 DEF Disconnect, Redis
<1> QED
  BY <1>1, <1>2, <1>3, <1>4

\* The change of day leaves requests in the windows they read.
LEMMA MidnightIInv ==
  ASSUME IInv, Midnight
  PROVE  IInv'
<1> USE DEF IInv
<1>1. TypeOK'
  BY QuotaAssumption DEF Midnight, TypeOK, Days, redisVars, gateVars
<1>2. Bookkeeping'
  BY DEF Midnight, Bookkeeping, Over, OverLimit, Capped, Limit, redisVars, gateVars
<1>3. ExpiredIsPast'
  <2>1. today \in Int /\ today' = today + 1
    BY DEF Midnight, TypeOK, Days
  <2>2. ASSUME NEW k \in expired PROVE k[2] \in Int
    BY DEF TypeOK, Keys, Days
  <2> QED
    BY <2>1, <2>2 DEF Midnight, ExpiredIsPast, gateVars
<1>4. CounterIsExact'
  BY SameUnits DEF Midnight, redisVars, gateVars
<1>5. AdmittedWithinLimit'
  BY NoneAdmitted DEF Midnight, Metered, gateVars
<1>6. OverMeansExhausted'
  BY <1>1, StillExhausted
  DEF Midnight, Over, OverLimit, Capped, Limit, Charged, Holders, gateVars, redisVars
<1> QED
  BY <1>1, <1>2, <1>3, <1>4, <1>5, <1>6

\* An expiring key is of a past day and no request is at Redis for it.
LEMMA KeyExpiresIInv ==
  ASSUME IInv, NEW k \in Keys, KeyExpires(k)
  PROVE  IInv'
<1> USE DEF IInv
<1>1. TypeOK'
  BY DEF KeyExpires, TypeOK, gateVars
<1>2. Bookkeeping'
  BY DEF KeyExpires, Bookkeeping, Over, OverLimit, Capped, Limit, gateVars
<1>3. ExpiredIsPast'
  BY DEF KeyExpires, MayExpire, ExpiredIsPast, gateVars
<1>4. CounterIsExact'
  <2> SUFFICES ASSUME NEW w \in Keys, w \notin expired'
               PROVE  quota'[w] = Cardinality(Holders(w)')
    BY DEF CounterIsExact, Live
  <2>1. w # k /\ Live(w)
    BY DEF KeyExpires, Live
  <2>2. Holders(w)' = Holders(w)
    BY DEF KeyExpires, Holders, gateVars
  <2> QED
    BY <2>1, <2>2 DEF KeyExpires, CounterIsExact, TypeOK
<1>5. AdmittedWithinLimit'
  BY NoneAdmitted DEF KeyExpires, Metered, gateVars
<1>6. OverMeansExhausted'
  BY <1>1, StillExhausted
  DEF KeyExpires, Over, OverLimit, Capped, Limit, Charged, Holders, gateVars
<1> QED
  BY <1>1, <1>2, <1>3, <1>4, <1>5, <1>6

\* A stuttering step.
LEMMA StutterIInv ==
  ASSUME IInv, UNCHANGED vars
  PROVE  IInv'
BY DEF vars, IInv, TypeOK, Bookkeeping, ExpiredIsPast, CounterIsExact, AdmittedWithinLimit,
       OverMeansExhausted, Over, OverLimit, Capped, Limit, Charged, Holders, Metered, Live

\* Every step, by the action it is.
LEMMA NextIInv == IInv /\ [Next]_vars => IInv'
<1> SUFFICES ASSUME IInv, [Next]_vars PROVE IInv'
  OBVIOUS
<1>1. CASE \E r \in Requests : Reject(r) \/ (\E o \in Orgs : Authenticate(r, o)) \/ Incr(r)
  BY <1>1, RejectIInv, AuthenticateIInv, IncrIInv
<1>2. CASE \E r \in Requests : IncrFails(r) \/ Expire(r) \/ ExpireFails(r) \/ Decr(r)
                                \/ DecrFails(r) \/ Disconnect(r)
  BY <1>2, OtherRequestStepsIInv
<1>3. CASE Midnight
  BY <1>3, MidnightIInv
<1>4. CASE \E k \in Keys : KeyExpires(k)
  BY <1>4, KeyExpiresIInv
<1>5. CASE UNCHANGED vars
  BY <1>5, StutterIInv
<1> QED
  BY <1>1, <1>2, <1>3, <1>4, <1>5 DEF Next

-----------------------------------------------------------------------------
(* The safety theorems.                                                    *)

\* The inductive invariant holds of every reachable state of the gate.
THEOREM Invariance == Spec => []IInv
<1> QED
  BY InitIInv, NextIInv, PTL DEF Spec

\* Every variable of the gate keeps its type, the Redis counter never going
\* below zero: no roll-back (`redis.decr`) is without its INCR.
THEOREM TypeCorrect == Spec => []TypeOK
<1>1. IInv => TypeOK
  BY DEF IInv
<1> QED
  BY <1>1, Invariance, PTL

\* The counter of a live window equals the number of requests holding a unit of
\* it, under every interleaving and every fault of Redis or of the client.
THEOREM CounterExact == Spec => []CounterIsExact
<1>1. IInv => CounterIsExact
  BY DEF IInv
<1> QED
  BY <1>1, Invariance, PTL

\* No window of a capped plan has more metered requests passed to the handler
\* than its limit (`count > limit` in `gate`).
THEOREM WithinLimit == Spec => []AdmittedWithinLimit
<1>1. IInv => AdmittedWithinLimit
  BY DEF IInv
<1> QED
  BY <1>1, Invariance, PTL

\* When a request is refused, the limit's worth of units is held by requests
\* that will not give theirs back.
LEMMA RefusedMeansExhausted ==
  ASSUME IInv, NEW k \in Keys, TurnedAway(k) # {}
  PROVE  Capped(k) /\ Cardinality(Charged(k)) >= Limit(k)
<1>1. PICK r \in Requests : key[r] = k /\ pc[r] \in Turned
  BY DEF TurnedAway
<1>2. Over(r) /\ pc[r] \notin {"idle", "unauthorized"}
  BY <1>1 DEF IInv, Bookkeeping, Turned
<1> QED
  BY <1>1, <1>2 DEF IInv, OverMeansExhausted, Over, OverLimit

\* No request is answered 429 while its window has budget left, even while
\* other refused requests have not yet rolled their increments back.
THEOREM RefusalsAreDue == Spec => []NoSpuriousRefusal
<1>1. IInv => NoSpuriousRefusal
  BY RefusedMeansExhausted DEF NoSpuriousRefusal
<1> QED
  BY <1>1, Invariance, PTL

\* The quota the control plane reads shows nothing left once the gateway has
\* turned a request of the same day away.
THEOREM DashboardIsRight == Spec => []DashboardAgrees
<1>1. IInv => DashboardAgrees
  <2> SUFFICES ASSUME IInv, NEW o \in Orgs, TurnedAway(<<o, today>>) # {}
               PROVE  Shown(o).remaining = 0
    BY DEF DashboardAgrees
  <2> PICK k : k = <<o, today>>
    OBVIOUS
  <2>1. k \in Keys /\ k[2] = today /\ today \in Nat
    BY DEF IInv, TypeOK, Keys, Days
  <2>2. Live(k)
    BY <2>1 DEF IInv, ExpiredIsPast, Live
  <2>3. quota[k] = Cardinality(Holders(k)) /\ quota[k] \in Nat
    BY <2>1, <2>2 DEF IInv, CounterIsExact, TypeOK
  <2>4. Capped(k) /\ quota[k] >= Limit(k)
    BY <2>1, <2>3, RefusedMeansExhausted, WindowSets, LimitPositive DEF IInv
  <2> QED
    BY <2>4 DEF Shown, Status, Remaining
<1> QED
  BY <1>1, Invariance, PTL

\* Once a window has turned a request away, no later request of it is metered
\* through: the roll-backs that follow free no budget.
THEOREM RefusalsAreFinal == Spec => RefusalIsFinal
<1>1. IInv /\ [Next]_vars =>
        \A k \in Keys : TurnedAway(k) # {} => Metered(k)' \subseteq Metered(k)
  <2> SUFFICES ASSUME IInv, [Next]_vars, NEW k \in Keys, TurnedAway(k) # {},
                      NEW q \in Requests, q \in Metered(k)'
               PROVE  q \in Metered(k)
    BY DEF Metered
  <2>1. CASE \E r \in Requests : Incr(r)
    <3>1. PICK r \in Requests : Incr(r)
      BY <2>1
    <3>2. CASE q = r /\ key[r] = k
      <4>1. Live(k) /\ Capped(k) /\ Cardinality(Charged(k)) >= Limit(k)
        BY <3>1, <3>2, AtRedis, RefusedMeansExhausted DEF Incr, Redis
      <4>2. quota[k] = Cardinality(Holders(k)) /\ quota[k] \in Nat
        BY <4>1 DEF IInv, CounterIsExact, TypeOK
      <4>3. quota[k] >= Limit(k)
        BY <4>1, <4>2, WindowSets, LimitPositive DEF IInv
      <4>4. OverLimit(k, Bumped(k)) /\ Bumped(k) # 1
        BY <4>1, <4>2, <4>3, LimitPositive DEF OverLimit, Bumped
      <4>5. pc'[q] = "decr"
        BY <3>1, <3>2, <4>4 DEF Incr, Goto, AfterIncr, Decision, IInv, TypeOK
      <4> QED
        BY <4>5 DEF Metered, Passed
    <3>3. CASE q # r \/ key[r] # k
      BY <3>1, <3>3 DEF Incr, Goto, Metered, IInv, TypeOK
    <3> QED
      BY <3>2, <3>3
  <2>2. CASE \E r \in Requests :
               Reject(r) \/ (\E o \in Orgs : Authenticate(r, o)) \/ IncrFails(r) \/ Expire(r)
               \/ ExpireFails(r) \/ Decr(r) \/ DecrFails(r) \/ Disconnect(r)
    <3>1. PICK r \in Requests :
               Reject(r) \/ (\E o \in Orgs : Authenticate(r, o)) \/ IncrFails(r) \/ Expire(r)
               \/ ExpireFails(r) \/ Decr(r) \/ DecrFails(r) \/ Disconnect(r)
      BY <2>2
    <3>2. count' = count
      BY <3>1 DEF Reject, Authenticate, IncrFails, Expire, ExpireFails, Decr, DecrFails, Disconnect
    <3>3. CASE q = r
      <4>1. pc[r] \in {"idle", "incr"} => count[r] = 0
        BY DEF IInv, Bookkeeping
      <4>2. pc[r] \notin {"idle", "incr"} => Expire(r) \/ ExpireFails(r) \/ Decr(r)
                                              \/ DecrFails(r) \/ Disconnect(r)
        BY <3>1 DEF Reject, Authenticate, IncrFails
      <4>3. CASE Expire(r) \/ ExpireFails(r)
        BY <3>2, <3>3, <4>3 DEF Expire, ExpireFails, Metered
      <4>4. CASE Decr(r) \/ DecrFails(r) \/ Disconnect(r)
        BY <3>3, <4>4 DEF Decr, DecrFails, Disconnect, Goto, Metered, Passed, IInv, TypeOK
      <4> QED
        BY <3>2, <3>3, <4>1, <4>2, <4>3, <4>4 DEF Metered
    <3>4. CASE q # r
      BY <3>1, <3>2, <3>4 DEF Reject, Authenticate, IncrFails, Expire, ExpireFails, Decr,
         DecrFails, Disconnect, Goto, Metered, IInv, TypeOK
    <3> QED
      BY <3>3, <3>4
  <2>3. CASE Midnight \/ (\E w \in Keys : KeyExpires(w)) \/ UNCHANGED vars
    BY <2>3 DEF Midnight, KeyExpires, Metered, gateVars, vars
  <2> QED
    BY <2>1, <2>2, <2>3 DEF Next
<1> QED
  BY <1>1, Invariance, PTL DEF Spec, RefusalIsFinal

\* A live counter without an expiry has a request about to give it one, unless
\* a fault touched its window (`if count == 1` in `gate`).
THEOREM ExpiryOwned == Spec => []ExpiryIsOwned
<1>1. Init => ExpiryIsOwned
  BY DEF Init, ExpiryIsOwned
<1>2. IInv /\ ExpiryIsOwned /\ [Next]_vars => ExpiryIsOwned'
  <2> SUFFICES ASSUME IInv, ExpiryIsOwned, [Next]_vars, NEW k \in Keys,
                      quota'[k] > 0, ~ ttl'[k], k \notin faulted'
               PROVE  \E r \in Requests : key'[r] = k /\ pc'[r] = "expire"
    BY DEF ExpiryIsOwned
  <2> USE DEF IInv, TypeOK
  <2>1. CASE \E r \in Requests : Incr(r)
    <3>1. PICK r \in Requests : Incr(r)
      BY <2>1
    <3>2. CASE key[r] = k /\ quota[k] = 0
      BY <3>1, <3>2 DEF Incr, Goto, AfterIncr, Bumped
    <3>3. CASE key[r] # k \/ quota[k] # 0
      BY <3>1, <3>3 DEF Incr, Goto, ExpiryIsOwned
    <3> QED
      BY <3>2, <3>3
  <2>2. CASE \E r \in Requests : IncrFails(r) \/ ExpireFails(r) \/ DecrFails(r) \/ Disconnect(r)
    <3>1. PICK r \in Requests : IncrFails(r) \/ ExpireFails(r) \/ DecrFails(r) \/ Disconnect(r)
      BY <2>2
    <3>2. faulted' = faulted \cup {key[r]} /\ key' = key /\ pc[r] \in Redis
      BY <3>1 DEF IncrFails, ExpireFails, DecrFails, Disconnect, Fault, Redis
    <3>3. key[r] # k /\ key[r] \in Keys
      BY <3>2, AtRedis
    <3>4. quota'[k] = quota[k] /\ ttl'[k] = ttl[k]
      BY <3>1, <3>3 DEF IncrFails, ExpireFails, DecrFails, Disconnect, Redis,
         MaybeIncr, MaybeExpire, MaybeDecr
    <3>5. PICK q \in Requests : key[q] = k /\ pc[q] = "expire"
      BY <3>2, <3>4 DEF ExpiryIsOwned
    <3>6. pc'[q] = pc[q]
      BY <3>1, <3>3, <3>5 DEF IncrFails, ExpireFails, DecrFails, Disconnect, Goto
    <3> QED
      BY <3>2, <3>5, <3>6
  <2>3. CASE \E r \in Requests : Expire(r)
    BY <2>3 DEF Expire, Goto, ExpiryIsOwned
  <2>4. CASE \E r \in Requests : Decr(r)
    <3>1. PICK r \in Requests : Decr(r)
      BY <2>4
    <3>2. key[r] \in Keys /\ quota[key[r]] \in Nat \ {0}
      BY <3>1, AtRedis, HolderCounts DEF Decr, Redis, Bookkeeping
    <3>3. quota[k] > 0
      BY <3>1, <3>2 DEF Decr, GiveBack
    <3>4. PICK q \in Requests : key[q] = k /\ pc[q] = "expire"
      BY <3>1, <3>3 DEF Decr, ExpiryIsOwned
    <3> QED
      BY <3>1, <3>4 DEF Decr, Goto
  <2>5. CASE \E r \in Requests : Reject(r) \/ \E o \in Orgs : Authenticate(r, o)
    BY <2>5 DEF Reject, Authenticate, Goto, redisVars, ExpiryIsOwned
  <2>6. CASE Midnight \/ (\E w \in Keys : KeyExpires(w)) \/ UNCHANGED vars
    BY <2>6 DEF Midnight, KeyExpires, gateVars, redisVars, vars, ExpiryIsOwned
  <2> QED
    BY <2>1, <2>2, <2>3, <2>4, <2>5, <2>6 DEF Next
<1> QED
  BY <1>1, <1>2, Invariance, PTL DEF Spec

-----------------------------------------------------------------------------
(* The gate implements DailyBudget.                                        *)

\* The spent units of the abstract budget, and what an unchanged verdict means.
LEMMA BudgetInit == Init => Budget!Init
<1> SUFFICES ASSUME Init PROVE Budget!Init
  OBVIOUS
<1>1. \A k \in Keys : Charged(k) = {}
  BY DEF Init, Charged, Holders
<1>2. \A r \in Requests : Verdict(r) = "none"
  BY DEF Init, Verdict, Passed
<1> QED
  BY <1>1, <1>2 DEF Budget!Init

\* The abstract variables are unchanged when no unit and no verdict changes.
LEMMA BudgetStutter ==
  ASSUME \A k \in Keys : Charged(k)' = Charged(k),
         \A r \in Requests : Verdict(r)' = Verdict(r)
  PROVE  UNCHANGED Budget!vars
<1>1. [k \in Keys |-> Charged(k)]' = [k \in Keys |-> Charged(k)]
  BY DEF Keys, Days
<1>2. [r \in Requests |-> Verdict(r)]' = [r \in Requests |-> Verdict(r)]
  OBVIOUS
<1> QED
  BY <1>1, <1>2 DEF Budget!vars

\* The instance counts sets as this module does.
LEMMA BudgetCardinality == \A S : Budget!Cardinality(S) = Cardinality(S)
BY DEF Budget!Cardinality, Cardinality

\* What a verdict and a spent unit of request r become, and no others.
LEMMA BudgetIncr ==
  ASSUME IInv, NEW r \in Requests, Incr(r)
  PROVE  Budget!Next
<1> USE DEF IInv
<1> PICK k \in Keys : k = key[r]
  BY AtRedis DEF Incr, Redis
<1> PICK n : n = Bumped(k)
  OBVIOUS
<1>0. /\ key[r] = k /\ Live(k) /\ r \notin held /\ count[r] = 0 /\ pc[r] = "incr"
      /\ n = quota[k] + 1 /\ quota[k] \in Nat /\ n > 0
      /\ quota[k] = Cardinality(Holders(k))
      /\ count' = [count EXCEPT ![r] = n] /\ held' = held \cup {r} /\ key' = key
      /\ pc' = [pc EXCEPT ![r] = AfterIncr(k, n)]
  BY AtRedis DEF Incr, Goto, Bookkeeping, Redis, Bumped, TypeOK, CounterIsExact
<1>1. Verdict(r) = "none"
  BY <1>0 DEF Verdict, Passed
<1>2. \A q \in Requests \ {r} : Verdict(q)' = Verdict(q)
  BY <1>0 DEF Verdict, OverLimit, Capped, Limit, TypeOK
<1>3. \A w \in Keys : w # k => Charged(w)' = Charged(w)
  BY <1>0 DEF Charged, Holders, OverLimit, Capped, Limit, TypeOK
<1>4. CASE OverLimit(k, n)
  <2>1. Verdict(r)' = "refused"
    BY <1>0, <1>4 DEF Verdict, OverLimit, Capped, Limit, TypeOK
  <2>2. Charged(k)' = Charged(k)
    BY <1>0, <1>4 DEF Charged, Holders, OverLimit, Capped, Limit, TypeOK
  <2>3. Capped(k) /\ Cardinality(Charged(k)) >= Limit(k)
    <3>1. (Over(r) /\ pc[r] \notin {"idle", "unauthorized"})' /\ OverMeansExhausted'
      BY <1>0, <1>4, IncrIInv, LimitPositive
      DEF Over, OverLimit, Capped, Limit, TypeOK, AfterIncr, Decision
    <3> QED
      BY <1>0, <1>4, <2>2, <3>1 DEF OverMeansExhausted, Limit, OverLimit
  <2>4. UNCHANGED [w \in Keys |-> Charged(w)]
    BY <1>3, <2>2 DEF Keys, Days
  <2>5. [q \in Requests |-> Verdict(q)]'
          = [[q \in Requests |-> Verdict(q)] EXCEPT ![r] = "refused"]
    BY <1>2, <2>1
  <2>6. Budget!Exhausted(k)
    BY <2>3, BudgetCardinality DEF Budget!Exhausted
  <2>7. Budget!Refuse(r, k)
    BY <1>1, <2>4, <2>5, <2>6 DEF Budget!Refuse, Budget!Answer
  <2> QED
    BY <2>7 DEF Budget!Next
<1>5. CASE ~ OverLimit(k, n)
  <2>1. Verdict(r)' = "granted"
    BY <1>0, <1>5 DEF Verdict, OverLimit, Capped, Limit, TypeOK
  <2>2. Charged(k)' = Charged(k) \cup {r}
    BY <1>0, <1>5 DEF Charged, Holders, OverLimit, Capped, Limit, TypeOK
  <2>3. Capped(k) => Cardinality(Charged(k)) < Limit(k)
    BY <1>0, <1>5, WindowSets, LimitPositive DEF OverLimit
  <2>4. [w \in Keys |-> Charged(w)]'
          = [[w \in Keys |-> Charged(w)] EXCEPT ![k] = @ \cup {r}]
    BY <1>3, <2>2 DEF Keys, Days
  <2>5. [q \in Requests |-> Verdict(q)]'
          = [[q \in Requests |-> Verdict(q)] EXCEPT ![r] = "granted"]
    BY <1>2, <2>1
  <2>6. ~ Budget!Exhausted(k)
    BY <2>3, BudgetCardinality, WindowSets, LimitPositive DEF Budget!Exhausted
  <2>7. Budget!Grant(r, k)
    BY <1>1, <2>4, <2>5, <2>6 DEF Budget!Grant, Budget!Answer, Budget!Spend
  <2> QED
    BY <2>7 DEF Budget!Next
<1> QED
  BY <1>4, <1>5

\* An INCR nothing was heard of is an unmetered pass, a wasted unit or nothing.
LEMMA BudgetUnheard ==
  ASSUME IInv, NEW r \in Requests, pc[r] = "incr", MaybeIncr(r),
         NEW step \in {"handler", "dropped"}, Goto(r, step), UNCHANGED <<key, count>>
  PROVE  Budget!Next \/ UNCHANGED Budget!vars
<1> USE DEF IInv
<1> PICK k \in Keys : k = key[r]
  BY AtRedis DEF Redis
<1>0. r \notin held /\ count[r] = 0 /\ ~ OverLimit(k, 0) /\ key[r] = k
      /\ pc' = [pc EXCEPT ![r] = step]
  BY LimitPositive DEF Bookkeeping, OverLimit, Goto
<1>1. Verdict(r) = "none" /\ Verdict(r)' = (IF step = "handler" THEN "unmetered" ELSE "none")
  BY <1>0 DEF Verdict, Passed, TypeOK
<1>2. \A q \in Requests \ {r} : Verdict(q)' = Verdict(q)
  BY <1>0 DEF Verdict, OverLimit, Capped, Limit, TypeOK
<1>3. \A w \in Keys : w # k => Charged(w)' = Charged(w)
  BY <1>0 DEF MaybeIncr, Charged, Holders, OverLimit, Capped, Limit, TypeOK
<1>4. Charged(k)' = Charged(k) \cup {r} \/ Charged(k)' = Charged(k)
  BY <1>0 DEF MaybeIncr, Charged, Holders, OverLimit, Capped, Limit, TypeOK
<1>5. \/ [w \in Keys |-> Charged(w)]'
            = [[w \in Keys |-> Charged(w)] EXCEPT ![k] = @ \cup {r}]
      \/ UNCHANGED [w \in Keys |-> Charged(w)]
  BY <1>3, <1>4 DEF Keys, Days
<1>6. CASE step = "handler"
  <2>1. [q \in Requests |-> Verdict(q)]'
          = [[q \in Requests |-> Verdict(q)] EXCEPT ![r] = "unmetered"]
    BY <1>1, <1>2, <1>6
  <2>2. Budget!PassUnmetered(r, k)
    BY <1>1, <1>5, <2>1 DEF Budget!PassUnmetered, Budget!Answer, Budget!Spend
  <2> QED
    BY <2>2 DEF Budget!Next
<1>7. CASE step = "dropped"
  <2>1. UNCHANGED [q \in Requests |-> Verdict(q)]
    BY <1>1, <1>2, <1>7
  <2>2. Budget!Waste(r, k) \/ UNCHANGED Budget!vars
    BY <1>1, <1>5, <2>1 DEF Budget!Waste, Budget!Spend, Budget!vars
  <2> QED
    BY <2>2 DEF Budget!Next
<1> QED
  BY <1>6, <1>7

\* Every step that hears nothing new of the counter leaves the budget alone.
LEMMA BudgetQuiet ==
  ASSUME IInv, IInv',
         \/ \E r \in Requests : \/ Reject(r) \/ (\E o \in Orgs : Authenticate(r, o))
                               \/ Expire(r) \/ ExpireFails(r) \/ Decr(r) \/ DecrFails(r)
                               \/ (Disconnect(r) /\ pc[r] \in {"expire", "decr"})
         \/ Midnight \/ (\E k \in Keys : KeyExpires(k)) \/ UNCHANGED vars
  PROVE  UNCHANGED Budget!vars
<1> USE DEF IInv
<1>1. CASE \E r \in Requests : Reject(r) \/ \E o \in Orgs : Authenticate(r, o)
  <2>1. PICK r \in Requests : Reject(r) \/ \E o \in Orgs : Authenticate(r, o)
    BY <1>1
  <2>2. r \notin held /\ count[r] = 0 /\ pc[r] = "idle" /\ count' = count /\ held' = held
        /\ \A q \in Requests \ {r} : key'[q] = key[q] /\ pc'[q] = pc[q]
    BY <2>1 DEF Reject, Authenticate, Goto, Bookkeeping, TypeOK
  <2>3. pc'[r] \notin Passed
    BY <2>1 DEF Reject, Authenticate, Goto, TypeOK, Passed
  <2>4. \A k \in Keys : Charged(k)' = Charged(k)
    BY <2>2 DEF Charged, Holders, OverLimit, Capped, Limit, TypeOK
  <2>5. \A q \in Requests : Verdict(q)' = Verdict(q)
    BY <2>2, <2>3 DEF Verdict, OverLimit, Capped, Limit, Passed
  <2> QED
    BY <2>4, <2>5, BudgetStutter
<1>2. CASE \E r \in Requests : Expire(r) \/ ExpireFails(r) \/ Decr(r) \/ DecrFails(r)
                              \/ (Disconnect(r) /\ pc[r] \in {"expire", "decr"})
  <2>1. PICK r \in Requests : Expire(r) \/ ExpireFails(r) \/ Decr(r) \/ DecrFails(r)
                              \/ (Disconnect(r) /\ pc[r] \in {"expire", "decr"})
    BY <1>2
  <2>2. key' = key /\ count' = count /\ pc[r] \in {"expire", "decr"} /\ key[r] \in Keys
        /\ \A q \in Requests \ {r} : pc'[q] = pc[q]
    <3>1. key' = key /\ count' = count /\ pc[r] \in {"expire", "decr"}
      BY <2>1 DEF Expire, ExpireFails, Decr, DecrFails, Disconnect
    <3>2. PICK step : pc' = [pc EXCEPT ![r] = step]
      BY <2>1 DEF Expire, ExpireFails, Decr, DecrFails, Disconnect, Goto
    <3> QED
      BY <3>1, <3>2, AtRedis DEF TypeOK, Redis
  <2>3. count[r] > 0
    BY <2>2, LimitPositive DEF Bookkeeping, Over, OverLimit, Turned, TypeOK
  <2>4. held' = held \/ (Over(r) /\ held' = held \ {r})
    BY <2>1 DEF Expire, ExpireFails, Decr, DecrFails, Disconnect, MaybeDecr, Bookkeeping, Turned
  <2>5. \A k \in Keys : Charged(k)' = Charged(k)
    BY <2>2, <2>4 DEF Charged, Holders, Over, OverLimit, Capped, Limit
  <2>6. \A q \in Requests : Verdict(q)' = Verdict(q)
    BY <2>2, <2>3 DEF Verdict, OverLimit, Capped, Limit, Passed
  <2> QED
    BY <2>5, <2>6, BudgetStutter
<1>3. CASE Midnight \/ (\E k \in Keys : KeyExpires(k)) \/ UNCHANGED vars
  <2>1. UNCHANGED <<pc, key, count, held>>
    BY <1>3 DEF Midnight, KeyExpires, gateVars, vars
  <2>2. \A k \in Keys : Charged(k)' = Charged(k)
    BY <2>1 DEF Charged, Holders, OverLimit, Capped, Limit
  <2>3. \A q \in Requests : Verdict(q)' = Verdict(q)
    BY <2>1 DEF Verdict, OverLimit, Capped, Limit
  <2> QED
    BY <2>2, <2>3, BudgetStutter
<1> QED
  BY <1>1, <1>2, <1>3

\* The gate implements the abstract daily budget: seen through the units its
\* requests keep and the verdicts they get, every step of the shared counter,
\* its overshoot and its roll-back is a step DailyBudget allows.
THEOREM GateImplementsBudget == Spec => BudgetKept
<1>1. IInv /\ IInv' /\ [Next]_vars => [Budget!Next]_(Budget!vars)
  <2> SUFFICES ASSUME IInv, IInv', [Next]_vars
               PROVE  Budget!Next \/ UNCHANGED Budget!vars
    OBVIOUS
  <2>1. CASE \E r \in Requests : Incr(r)
    BY <2>1, BudgetIncr
  <2>2. ASSUME NEW r \in Requests, IncrFails(r) \/ (Disconnect(r) /\ pc[r] = "incr")
        PROVE  Budget!Next \/ UNCHANGED Budget!vars
    <3>1. pc[r] = "incr" /\ MaybeIncr(r) /\ UNCHANGED <<key, count>>
      BY <2>2 DEF IncrFails, Disconnect
    <3>2. key[r] \in Keys
      BY <3>1, AtRedis DEF Redis
    <3>3. Goto(r, "handler") \/ Goto(r, "dropped")
      BY <2>2, <3>2, LimitPositive DEF IncrFails, Disconnect, Decision, OverLimit
    <3> QED
      BY <3>1, <3>3, BudgetUnheard
  <2>3. CASE \/ \E r \in Requests :
                 \/ Reject(r) \/ (\E o \in Orgs : Authenticate(r, o))
                 \/ Expire(r) \/ ExpireFails(r) \/ Decr(r) \/ DecrFails(r)
                 \/ (Disconnect(r) /\ pc[r] \in {"expire", "decr"})
             \/ Midnight \/ (\E k \in Keys : KeyExpires(k)) \/ UNCHANGED vars
    BY <2>3, BudgetQuiet
  <2>4. \A r \in Requests : Disconnect(r) => pc[r] \in {"incr", "expire", "decr"}
    BY DEF Disconnect
  <2> QED
    BY <2>1, <2>2, <2>3, <2>4 DEF Next
<1> QED
  BY <1>1, BudgetInit, Invariance, PTL DEF Spec, BudgetKept, Budget!Spec
=============================================================================
