------------------------ MODULE RequestLimiter_proofs ------------------------
(***************************************************************************)
(* Proofs about RequestLimiter, for any number of requests and permits and *)
(* any interval, daily limit, number of attempts and longest delay.        *)
(*                                                                         *)
(* None of the properties is inductive.  A permit is counted once only if  *)
(* an acquire_task that holds one has not yet been let into limit()        *)
(* (Waiting); that permits stay in range follows from their conservation;  *)
(* a start is spaced because no 429 asks for more than blocked records     *)
(* (Silence), and the budget is kept because the counter is either the     *)
(* number of starts of the day or of an earlier one (Budget).              *)
(***************************************************************************)
EXTENDS RequestLimiter, FiniteSetTheorems, TLAPS

Waiting ==
  \A r \in Requests :
    /\ acquire[r] # "none" => pc[r] \in {"acquiring", "abandoned"}
    /\ pc[r] = "backoff" => attempt[r] < MaxAttempts

Silence == \A r \in Requests : asked[r] <= blocked

Budget == sent = IF counted THEN count ELSE 0

LimiterInv == TypeOK /\ Waiting /\ PermitsConserved /\ Silence /\ Budget

----------------------------------------------------------------------------
(* Permits.                                                                *)

LEMMA UsersCounted ==
  /\ IsFiniteSet(Users)
  /\ Cardinality(Users) \in Nat
  /\ Cardinality(Users') \in Nat
<1>1. Users \in SUBSET Requests /\ Users' \in SUBSET Requests
  BY DEF Users
<1>2. IsFiniteSet(Users) /\ IsFiniteSet(Users')
  BY <1>1, FS_Subset, LimiterAssumption
<1> QED BY <1>2, FS_CardinalityType

\* A request gets a permit, gives its permit back, or neither.
LEMMA PermitMoves ==
  ASSUME LimiterInv,
         \/ Users' = Users /\ permits' = permits
         \/ \E r \in Requests \ Users :
              Users' = Users \union {r} /\ permits' = permits - 1
         \/ \E r \in Users : Users' = Users \ {r} /\ permits' = permits + 1
  PROVE  PermitsConserved' /\ (permits' >= 0 => permits' \in 0 .. MaxConcurrent)
<1>1. permits \in Int /\ permits + Cardinality(Users) = MaxConcurrent
  BY DEF LimiterInv, TypeOK, PermitsConserved
<1>2. permits' \in Int /\ permits' + Cardinality(Users') = MaxConcurrent
  <2>1. CASE Users' = Users /\ permits' = permits
    BY <1>1, <2>1
  <2>2. ASSUME NEW r \in Requests \ Users,
               Users' = Users \union {r}, permits' = permits - 1
        PROVE  permits' \in Int /\ permits' + Cardinality(Users') = MaxConcurrent
    <3>1. Cardinality(Users') = Cardinality(Users) + 1
      BY <2>2, UsersCounted, FS_AddElement
    <3> QED BY <1>1, <2>2, <3>1, UsersCounted
  <2>3. ASSUME NEW r \in Users, Users' = Users \ {r}, permits' = permits + 1
        PROVE  permits' \in Int /\ permits' + Cardinality(Users') = MaxConcurrent
    <3>1. Cardinality(Users') = Cardinality(Users) - 1
      BY <2>3, UsersCounted, FS_RemoveElement
    <3> QED BY <1>1, <2>3, <3>1, UsersCounted
  <2> QED BY <2>1, <2>2, <2>3
<1> QED BY <1>2, UsersCounted, LimiterAssumption DEF PermitsConserved

\* One request changes its place or its acquire_task: Users gains it, loses it,
\* or stays as it is.
LEMMA UsersMove ==
  ASSUME TypeOK, NEW r \in Requests,
         \A q \in Requests \ {r} : pc'[q] = pc[q] /\ acquire'[q] = acquire[q]
  PROVE  LET in  == pc[r] \in Holding \/ acquire[r] = "holds"
             in1 == pc'[r] \in Holding \/ acquire'[r] = "holds"
         IN  /\ in = in1 => Users' = Users
             /\ in /\ ~in1 => r \in Users /\ Users' = Users \ {r}
             /\ ~in /\ in1 => r \in Requests \ Users /\ Users' = Users \union {r}
BY DEF Users

\* TryStart keeps the permit of a request that starts or sleeps, and gives back
\* that of one it refuses.
LEMMA TryStartPermit ==
  ASSUME LimiterInv, NEW r \in Users, TryStart(r),
         \/ acquire' = acquire /\ acquire[r] = "none"
         \/ acquire' = [acquire EXCEPT ![r] = "none"]
  PROVE  PermitsConserved' /\ permits' \in 0 .. MaxConcurrent
<1>1. r \in Requests /\ TypeOK
  BY DEF Users, LimiterInv
<1>2. acquire'[r] # "holds" /\ permits \in 0 .. MaxConcurrent
  BY <1>1, LimiterAssumption DEF TypeOK
<1>3. \A q \in Requests \ {r} : pc'[q] = pc[q] /\ acquire'[q] = acquire[q]
  BY <1>1 DEF TryStart, Go, TypeOK
<1>4. pc[r] \in Holding \/ acquire[r] = "holds"
  BY DEF Users
<1>5. CASE pc'[r] \in {"sending", "sleeping"} /\ permits' = permits
  <2>1. Users' = Users
    BY <1>1, <1>3, <1>4, <1>5, UsersMove DEF Holding
  <2> QED BY <1>2, <1>5, <2>1, PermitMoves, LimiterAssumption
<1>6. CASE pc'[r] \in {"cancelled", "failed"} /\ permits' = permits + 1
  <2>1. Users' = Users \ {r}
    BY <1>1, <1>2, <1>3, <1>4, <1>6, UsersMove DEF Holding
  <2> QED BY <1>2, <1>6, <2>1, PermitMoves, LimiterAssumption
<1> QED BY <1>1, <1>5, <1>6 DEF TryStart, Go, Release, TypeOK

LEMMA PermitStep ==
  ASSUME LimiterInv, [Next]_vars
  PROVE  PermitsConserved' /\ permits' \in 0 .. MaxConcurrent
<1> USE DEF LimiterInv
<1>0. permits \in 0 .. MaxConcurrent /\ MaxConcurrent \in Nat
  BY LimiterAssumption DEF TypeOK
<1>1. ASSUME UNCHANGED permits, Users' = Users
      PROVE  PermitsConserved' /\ permits' \in 0 .. MaxConcurrent
  BY <1>0, <1>1, PermitMoves
<1>2. ASSUME NEW r \in Users, Users' = Users \ {r}, permits' = permits + 1
      PROVE  PermitsConserved' /\ permits' \in 0 .. MaxConcurrent
  BY <1>0, <1>2, PermitMoves
<1>3. ASSUME NEW r \in Requests, Open(r) \/ NextAttempt(r)
      PROVE  PermitsConserved' /\ permits' \in 0 .. MaxConcurrent
  <2>1. Users' = Users
    BY <1>3, UsersMove DEF Open, NextAttempt, Enter, Go, TypeOK, Waiting, Holding
  <2> QED BY <1>1, <1>3, <2>1 DEF Open, NextAttempt, domain
<1>4. ASSUME NEW r \in Requests, Acquired(r)
      PROVE  PermitsConserved' /\ permits' \in 0 .. MaxConcurrent
  <2>1. r \in Requests \ Users /\ Users' = Users \union {r}
    BY <1>4, UsersMove DEF Acquired, TypeOK, Waiting, Holding
  <2> QED BY <1>0, <1>4, <2>1, PermitMoves DEF Acquired
<1>5. ASSUME NEW r \in Requests, AcquireCancelled(r)
      PROVE  PermitsConserved' /\ permits' \in 0 .. MaxConcurrent
  <2>1. pc'[r] = "cancelled" /\ acquire'[r] = "none" /\ pc[r] \notin Holding
    BY <1>5 DEF AcquireCancelled, Go, TypeOK, Holding
  <2>2. \A q \in Requests \ {r} : pc'[q] = pc[q] /\ acquire'[q] = acquire[q]
    BY <1>5 DEF AcquireCancelled, Go, TypeOK
  <2>3. CASE acquire[r] = "holds"
    BY <1>2, <1>5, <2>1, <2>2, <2>3, UsersMove DEF AcquireCancelled, Release, Holding
  <2>4. CASE acquire[r] # "holds"
    BY <1>1, <1>5, <2>1, <2>2, <2>4, UsersMove DEF AcquireCancelled, Holding
  <2> QED BY <2>3, <2>4
<1>6. ASSUME NEW r \in Requests, Granted(r) \/ Wake(r)
      PROVE  PermitsConserved' /\ permits' \in 0 .. MaxConcurrent
  <2>1. r \in Users /\ TryStart(r)
    BY <1>6 DEF Granted, Wake, Users, Holding
  <2>2. \/ acquire' = acquire /\ acquire[r] = "none"
        \/ acquire' = [acquire EXCEPT ![r] = "none"]
    BY <1>6 DEF Granted, Wake, Waiting
  <2> QED BY <2>1, <2>2, TryStartPermit
<1>7. ASSUME NEW r \in Requests, Answer(r) \/ Retry(r) \/ TooMany(r)
      PROVE  PermitsConserved' /\ permits' \in 0 .. MaxConcurrent
  <2>1. pc[r] = "sending" /\ pc'[r] \notin Holding /\ acquire[r] = "none" /\ acquire' = acquire
    BY <1>7 DEF Answer, Retry, TooMany, Backoff, Go, TypeOK, Waiting, Holding
  <2>2. \A q \in Requests \ {r} : pc'[q] = pc[q]
    BY <1>7 DEF Answer, Retry, TooMany, Backoff, Go, TypeOK
  <2>3. r \in Users /\ Users' = Users \ {r}
    BY <2>1, <2>2, UsersMove DEF Holding
  <2> QED BY <1>2, <1>7, <2>3 DEF Answer, Retry, TooMany, Leave, Release
<1>8. ASSUME NEW r \in Requests, Interrupted(r) \/ Abandon(r)
      PROVE  PermitsConserved' /\ permits' \in 0 .. MaxConcurrent
  <2>1. pc'[r] \notin Holding /\ acquire' = acquire
    BY <1>8 DEF Interrupted, Abandon, Go, TypeOK, Holding
  <2>2. \A q \in Requests \ {r} : pc'[q] = pc[q]
    BY <1>8 DEF Interrupted, Abandon, Go, TypeOK
  <2>3. CASE pc[r] \in Holding /\ permits' = permits + 1
    <3>1. acquire[r] = "none"
      BY <2>3 DEF Waiting, Holding
    <3>2. r \in Users /\ Users' = Users \ {r}
      BY <2>1, <2>2, <2>3, <3>1, UsersMove DEF Holding
    <3> QED BY <1>2, <2>3, <3>2
  <2>4. CASE pc[r] \notin Holding /\ permits' = permits
    <3>1. Users' = Users
      BY <2>1, <2>2, <2>4, UsersMove
    <3> QED BY <1>1, <2>4, <3>1
  <2> QED BY <1>8, <2>3, <2>4 DEF Interrupted, Abandon, Leave, Release, Holding
<1>9. CASE (\E r \in Requests : ExchangeEnds(r)) \/ CancelRun \/ Tick \/ Midnight
           \/ UNCHANGED vars
  BY <1>1, <1>9 DEF ExchangeEnds, CancelRun, Tick, Midnight, domain, vars, Users
<1> QED BY <1>3, <1>4, <1>5, <1>6, <1>7, <1>8, <1>9 DEF Next, Wait, Finish

----------------------------------------------------------------------------
(* Types, and what the block and the counter stand for.                    *)

\* The types of everything but the permits.
PlaceTyped ==
  /\ pc \in [Requests -> {"idle", "acquiring", "backoff"} \union Holding \union Ended]
  /\ acquire \in [Requests -> {"none", "waiting", "holds"}]
  /\ wire \subseteq Requests
  /\ timer \in [Requests -> 0 .. (Interval + MaxDelay)]
  /\ attempt \in [Requests -> 1 .. MaxAttempts]
  /\ token \in BOOLEAN

DomainTyped ==
  /\ spacing \in 0 .. Interval
  /\ blocked \in 0 .. MaxDelay
  /\ count \in 0 .. DailyLimit
  /\ counted \in BOOLEAN
  /\ sent \in Nat
  /\ asked \in [Requests -> 0 .. MaxDelay]
  /\ Silence
  /\ Budget

LEMMA TryStartTyped ==
  ASSUME LimiterInv, NEW r \in Requests, TryStart(r)
  PROVE  /\ pc' \in [Requests -> {"idle", "acquiring", "backoff"} \union Holding \union Ended]
         /\ pc'[r] \in Holding \union Ended
         /\ \A q \in Requests \ {r} : pc'[q] = pc[q]
         /\ wire' \subseteq Requests
         /\ timer' \in [Requests -> 0 .. (Interval + MaxDelay)]
         /\ spacing' \in 0 .. Interval
         /\ blocked' = blocked
         /\ count' \in 0 .. DailyLimit /\ counted' \in BOOLEAN /\ sent' \in Nat
         /\ sent' = IF counted' THEN count' ELSE 0
<1> USE LimiterAssumption DEF LimiterInv, TypeOK, Budget, TryStart, Go, RolledCount
<1>1. StartDelay \in 0 .. (Interval + MaxDelay)
  BY DEF StartDelay, Later
<1>2. PICK place \in {"cancelled", "failed", "sending", "sleeping"} :
        pc' = [pc EXCEPT ![r] = place]
  OBVIOUS
<1>3. pc' \in [Requests -> {"idle", "acquiring", "backoff"} \union Holding \union Ended]
  BY <1>2 DEF Holding, Ended
<1>4. pc'[r] \in Holding \union Ended /\ \A q \in Requests \ {r} : pc'[q] = pc[q]
  BY <1>2 DEF Holding, Ended
<1>5. timer' \in [Requests -> 0 .. (Interval + MaxDelay)]
  BY <1>1
<1>6. wire' \subseteq Requests /\ spacing' \in 0 .. Interval /\ blocked' = blocked
  OBVIOUS
<1>7. sent = RolledCount /\ RolledCount \in 0 .. DailyLimit
  OBVIOUS
<1>8. /\ count' \in 0 .. DailyLimit /\ counted' \in BOOLEAN /\ sent' \in Nat
      /\ sent' = IF counted' THEN count' ELSE 0
  <2>1. CASE UNCHANGED <<count, counted, sent>>
    BY <2>1
  <2>2. CASE counted' = TRUE /\ count' = RolledCount /\ sent' = sent
    BY <1>7, <2>2
  <2>3. CASE /\ counted' = TRUE /\ count' = RolledCount + 1 /\ sent' = sent + 1
             /\ RolledCount < DailyLimit
    BY <1>7, <2>3
  <2> QED BY <2>1, <2>2, <2>3
<1> QED BY <1>3, <1>4, <1>5, <1>6, <1>8

LEMMA BackoffTyped ==
  ASSUME LimiterInv, NEW r \in Requests, NEW delay \in 0 .. MaxDelay, Backoff(r, delay)
  PROVE  /\ pc' \in [Requests -> {"idle", "acquiring", "backoff"} \union Holding \union Ended]
         /\ timer' \in [Requests -> 0 .. (Interval + MaxDelay)]
BY LimiterAssumption DEF Backoff, Go, LimiterInv, TypeOK

LEMMA CountDownBounded ==
  ASSUME NEW m \in Nat
  PROVE  /\ \A n \in 0 .. m : CountDown(n) \in 0 .. m
         /\ \A n, k \in 0 .. m : n <= k => CountDown(n) <= CountDown(k)
BY DEF CountDown

LEMMA PlaceStep ==
  ASSUME LimiterInv, [Next]_vars
  PROVE  PlaceTyped' /\ Waiting'
<1> USE DEF LimiterInv, TypeOK, PlaceTyped, Waiting
<1>1. ASSUME NEW r \in Requests, Open(r) PROVE PlaceTyped' /\ Waiting'
  BY <1>1 DEF Open, Enter, Go, Ended
<1>2. ASSUME NEW r \in Requests, NextAttempt(r) PROVE PlaceTyped' /\ Waiting'
  <2>1. attempt' \in [Requests -> 1 .. MaxAttempts]
    BY <1>2, LimiterAssumption DEF NextAttempt
  <2> QED BY <1>2, <2>1 DEF NextAttempt, Enter, Go, Ended
<1>3. ASSUME NEW r \in Requests, Acquired(r) \/ AcquireCancelled(r)
      PROVE  PlaceTyped' /\ Waiting'
  BY <1>3 DEF Acquired, AcquireCancelled, Go, Ended
<1>4. ASSUME NEW r \in Requests, Granted(r) \/ Wake(r) PROVE PlaceTyped' /\ Waiting'
  <2>1. TryStart(r) /\ UNCHANGED <<attempt, token>>
    BY <1>4 DEF Granted, Wake
  <2>2. \/ acquire' = acquire /\ acquire[r] = "none"
        \/ acquire' = [acquire EXCEPT ![r] = "none"]
    BY <1>4 DEF Granted, Wake, Waiting
  <2>3. PlaceTyped'
    BY <2>1, <2>2, TryStartTyped
  <2>4. Waiting'
    <3>1. acquire'[r] = "none" /\ pc'[r] # "backoff"
      BY <2>1, <2>2, TryStartTyped DEF Holding, Ended
    <3>2. \A q \in Requests \ {r} : acquire'[q] = acquire[q] /\ pc'[q] = pc[q]
      BY <2>1, <2>2, TryStartTyped
    <3> QED BY <2>1, <3>1, <3>2
  <2> QED BY <2>3, <2>4
<1>5. ASSUME NEW r \in Requests, Answer(r) \/ Interrupted(r)
      PROVE  PlaceTyped' /\ Waiting'
  BY <1>5 DEF Answer, Interrupted, Leave, Go, Ended
<1>6. ASSUME NEW r \in Requests, Retry(r) \/ TooMany(r) PROVE PlaceTyped' /\ Waiting'
  <2>1. PICK delay \in 0 .. MaxDelay : Backoff(r, delay)
    BY <1>6 DEF Retry, TooMany
  <2>2. PlaceTyped'
    BY <1>6, <2>1, BackoffTyped DEF Retry, TooMany, Leave
  <2>3. Waiting'
    BY <1>6, <2>1 DEF Retry, TooMany, Backoff, Go
  <2> QED BY <2>2, <2>3
<1>7. ASSUME NEW r \in Requests, Abandon(r) \/ ExchangeEnds(r)
      PROVE  PlaceTyped' /\ Waiting'
  BY <1>7 DEF Abandon, ExchangeEnds, Go, Ended
<1>8. CASE CancelRun \/ Midnight \/ UNCHANGED vars
  BY <1>8 DEF CancelRun, Midnight, vars
<1>9. CASE Tick
  BY <1>9, CountDownBounded, LimiterAssumption DEF Tick
<1> QED BY <1>1, <1>2, <1>3, <1>4, <1>5, <1>6, <1>7, <1>8, <1>9 DEF Next, Wait, Finish

LEMMA DomainStep ==
  ASSUME LimiterInv, [Next]_vars
  PROVE  DomainTyped'
<1> USE DEF LimiterInv, TypeOK, DomainTyped, Silence, Budget
<1>1. ASSUME UNCHANGED <<spacing, blocked, count, counted, sent, asked>>
      PROVE  DomainTyped'
  BY <1>1
<1>2. ASSUME NEW r \in Requests,
             \/ Open(r) \/ Acquired(r) \/ AcquireCancelled(r) \/ Abandon(r)
             \/ ExchangeEnds(r) \/ Answer(r) \/ Retry(r) \/ NextAttempt(r)
             \/ Interrupted(r)
      PROVE  DomainTyped'
  BY <1>1, <1>2 DEF Open, Acquired, AcquireCancelled, Abandon, ExchangeEnds, Answer,
                    Retry, NextAttempt, Interrupted, domain, history
<1>3. ASSUME NEW r \in Requests, Granted(r) \/ Wake(r) PROVE DomainTyped'
  <2>1. TryStart(r) /\ UNCHANGED asked
    BY <1>3 DEF Granted, Wake
  <2> QED BY <2>1, TryStartTyped
<1>4. ASSUME NEW r \in Requests, TooMany(r) PROVE DomainTyped'
  <2>1. PICK delay \in 0 .. MaxDelay :
          blocked' = Blocked(delay) /\ asked' = [asked EXCEPT ![r] = delay]
    BY <1>4 DEF TooMany
  <2>2. blocked' \in 0 .. MaxDelay /\ blocked <= blocked' /\ delay <= blocked'
    BY <2>1, LimiterAssumption DEF Blocked, Later
  <2>3. \A q \in Requests : asked'[q] <= blocked'
    BY <2>1, <2>2
  <2> QED BY <1>4, <2>1, <2>2, <2>3 DEF TooMany
<1>5. CASE CancelRun \/ UNCHANGED vars
  BY <1>1, <1>5 DEF CancelRun, domain, history, vars
<1>6. CASE Tick
  <2>1. spacing' \in 0 .. Interval /\ blocked' \in 0 .. MaxDelay
    BY <1>6, CountDownBounded, LimiterAssumption DEF Tick
  <2>2. \A r \in Requests : asked'[r] \in 0 .. MaxDelay /\ asked'[r] <= blocked'
    BY <1>6, CountDownBounded, LimiterAssumption DEF Tick
  <2> QED BY <1>6, <2>1, <2>2 DEF Tick
<1>7. CASE Midnight
  BY <1>7 DEF Midnight
<1> QED BY <1>2, <1>3, <1>4, <1>5, <1>6, <1>7 DEF Next, Wait, Finish

----------------------------------------------------------------------------
(* The theorems.                                                           *)

LEMMA LimiterInit == Init => LimiterInv
<1> SUFFICES ASSUME Init PROVE LimiterInv
  OBVIOUS
<1>1. TypeOK
  <2>1. PlaceTyped
    <3>1. wire \subseteq Requests /\ token \in BOOLEAN
      BY DEF Init
    <3>2. 0 \in 0 .. (Interval + MaxDelay) /\ 1 \in 1 .. MaxAttempts
      BY LimiterAssumption
    <3>3. /\ timer \in [Requests -> 0 .. (Interval + MaxDelay)]
          /\ attempt \in [Requests -> 1 .. MaxAttempts]
      BY <3>2 DEF Init
    <3>4. /\ pc \in [Requests -> {"idle", "acquiring", "backoff"} \union Holding \union Ended]
          /\ acquire \in [Requests -> {"none", "waiting", "holds"}]
      BY DEF Init
    <3> QED BY <3>1, <3>3, <3>4 DEF PlaceTyped
  <2>2. /\ permits \in 0 .. MaxConcurrent /\ spacing \in 0 .. Interval
        /\ blocked \in 0 .. MaxDelay /\ count \in 0 .. DailyLimit
        /\ counted \in BOOLEAN /\ sent \in Nat /\ asked \in [Requests -> 0 .. MaxDelay]
    BY LimiterAssumption DEF Init
  <2> QED BY <2>1, <2>2 DEF TypeOK, PlaceTyped
<1>2. Waiting /\ Silence /\ Budget
  BY LimiterAssumption DEF Init, Waiting, Silence, Budget
<1>3. Users = {}
  BY DEF Init, Users, Holding
<1>4. PermitsConserved
  BY <1>3, FS_EmptySet, LimiterAssumption DEF Init, PermitsConserved
<1> QED BY <1>1, <1>2, <1>4 DEF LimiterInv

LEMMA LimiterStep == LimiterInv /\ [Next]_vars => LimiterInv'
<1> SUFFICES ASSUME LimiterInv, [Next]_vars PROVE LimiterInv'
  OBVIOUS
<1>1. PermitsConserved' /\ permits' \in 0 .. MaxConcurrent
  BY PermitStep
<1>2. PlaceTyped' /\ Waiting' /\ DomainTyped'
  BY PlaceStep, DomainStep
<1> QED BY <1>1, <1>2 DEF LimiterInv, TypeOK, PlaceTyped, DomainTyped

\* Requests, tasks, timers and the state of the domain keep their types: the
\* permits stay between none and MaxConcurrent, attempts within their number.
THEOREM TypeCorrect == Spec => []TypeOK
<1>1. LimiterInv => TypeOK
  BY DEF LimiterInv
<1> QED BY <1>1, LimiterInit, LimiterStep, PTL DEF Spec

\* No way out of limit() (answer, retry, error, refusal, token, timeout) loses a
\* permit or releases one twice.
THEOREM PermitsAreConserved == Spec => []PermitsConserved
<1>1. LimiterInv => PermitsConserved
  BY DEF LimiterInv
<1> QED BY <1>1, LimiterInit, LimiterStep, PTL DEF Spec

\* At most DailyLimit requests start in one day.
THEOREM BudgetKept == Spec => []DailyBudget
<1>1. LimiterInv => DailyBudget
  BY LimiterAssumption DEF LimiterInv, TypeOK, Budget, DailyBudget
<1> QED BY <1>1, LimiterInit, LimiterStep, PTL DEF Spec

LEMMA StartStep ==
  ASSUME LimiterInv, [Next]_vars, NEW r \in Requests, Starts(r)
  PROVE  spacing = 0 /\ \A other \in Requests : asked[other] = 0
<1> USE DEF LimiterInv, TypeOK
<1>1. TryStart(r)
  BY DEF Next, Wait, Finish, Open, NextAttempt, Enter, Acquired, AcquireCancelled,
         Granted, Wake, TryStart, Answer, Retry, TooMany, Backoff, Interrupted, Abandon,
         ExchangeEnds, CancelRun, Tick, Midnight, Go, Starts, vars, Ended
<1>2. StartDelay = 0
  BY <1>1 DEF TryStart, Go, Starts
<1>3. spacing = 0 /\ blocked = 0
  BY <1>2 DEF StartDelay, Later
<1> QED BY <1>3 DEF Silence

\* Starts are apart by the interval, and none falls into the silence a 429 has
\* asked for.
THEOREM StartsAreSpaced == Spec => StartsSpaced
<1>1. LimiterInv /\ [Next]_vars =>
        [\A r \in Requests :
           Starts(r) => spacing = 0 /\ \A other \in Requests : asked[other] = 0]_vars
  BY StartStep
<1> QED BY <1>1, LimiterInit, LimiterStep, PTL DEF Spec, StartsSpaced
=============================================================================
