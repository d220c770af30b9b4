-------------------------- MODULE WebhookEngine_proofs --------------------------
(***************************************************************************)
(* Proofs about WebhookEngine and the circuit breaker in it, for any set   *)
(* of deliveries and any options.                                          *)
(***************************************************************************)
EXTENDS WebhookEngine, FiniteSetTheorems, SequenceTheorems, TLAPS

USE WebhookAssumption

(***************************************************************************)
(* The inductive invariants.                                               *)
(***************************************************************************)

\* The breaker: its failures are a sequence of ages, the oldest first, which is
\* why the filter of pruneOldFailures drops the first ones.
Ages == 0..Window + 1

BreakerInv ==
    /\ failures \in Seq(Ages)
    /\ \A i, j \in 1..Len(failures) : i < j => failures[i] >= failures[j]
    /\ ClosedBelowThreshold

\* What is stored was dispatched, and what was not has nothing going.
DispatchedFirst ==
    /\ \A d \in stored : Status(d) # "none"
    /\ \A d \in Deliveries : Status(d) = "none" =>
          /\ ~ Driven(d) /\ accepted[d] = 0 /\ dead[d] = 0 /\ d \notin retried

\* A delivery of which no two attempts ran beside each other: one timer or
\* attempt at a time, while it is pending, and with attempts left before it.
Alone(d) ==
    /\ delivery[d].attempts <= MaxAttempts
    /\ timers[d] + InFlight(d) <= 1
    /\ registered /\ Driven(d) => Status(d) = "pending"
    /\ registered /\ timers[d] + called[d] > 0 => delivery[d].attempts < MaxAttempts

\* What follows the attempts of a delivery that no retry timer began: none of
\* them is skipped before one was accepted, and each attempt that is counted was
\* one that was called, or whose timer was set, below the limit.
ChainsOf(d) ==
    /\ registered /\ Status(d) # "none" => d \in stored
    /\ Status(d) = "delivered" => accepted[d] > 0
    /\ accepted[d] + dead[d] + timers[d] + InFlight(d) <= begun[d]
    /\ registered /\ accepted[d] = 0 => dead[d] + timers[d] + InFlight(d) = begun[d]
    /\ delivery[d].attempts + timers[d] + called[d] < MaxAttempts + begun[d]

OutcomeInv ==
    /\ DispatchedFirst /\ PendingIsDriven /\ OneOutcomePerStart
    /\ \A d \in Deliveries \ doubled : Alone(d)
    /\ \A d \in Deliveries : ChainsOf(d)

(***************************************************************************)
(* The circuit breaker.                                                    *)
(***************************************************************************)

CircuitOK ==
    /\ circuit \in {"closed", "open", "half-open"}
    /\ halfOpenSuccesses \in 0..SuccessThreshold - 1
    /\ sinceOpened \in 0..Cooldown

LEMMA UpTo ==
    ASSUME NEW n \in Nat
    PROVE  IsFiniteSet(1..n) /\ Cardinality(1..n) = n
  <1>1. IsFiniteSet(1..n) /\ Cardinality(1..n) = IF 1 > n THEN 0 ELSE n - 1 + 1
    BY FS_Interval
  <1>2. CASE n = 0
    BY <1>1, <1>2
  <1>3. CASE n > 0
    BY <1>1, <1>3
  <1>4. QED
    BY <1>2, <1>3

\* In a list with the oldest first the stale ones are the first ones: a failure
\* can always be pushed and the list pruned.
LEMMA StaleIsPrefix ==
    ASSUME NEW n \in Nat, NEW noted \in [1..n -> Nat],
           \A i, j \in 1..n : i < j => noted[i] >= noted[j],
           n > 0 => noted[n] <= Window
    PROVE  \E k \in 0..n : (n > 0 => k < n) /\ \A i \in 1..n : noted[i] <= Window <=> i > k
  <1> DEFINE stale == {i \in 1..n : ~ (noted[i] <= Window)}
             k == Cardinality(stale)
  <1>1. stale \subseteq 1..n /\ IsFiniteSet(1..n)
    BY FS_Interval
  <1>2. IsFiniteSet(stale) /\ k \in Nat
    BY <1>1, FS_Subset, FS_CardinalityType
  <1>3. ASSUME NEW i \in stale PROVE i <= k
    <2>1. 1..i \subseteq stale
      <3> SUFFICES ASSUME NEW j \in 1..i PROVE j \in stale
        OBVIOUS
      <3>1. i \in 1..n /\ j \in 1..n /\ noted[i] \in Nat /\ noted[j] \in Nat /\ noted[i] > Window
        BY <1>1
      <3>2. noted[j] >= noted[i]
        BY <3>1
      <3>3. QED
        BY <3>1, <3>2
    <2>2. Cardinality(1..i) = i
      BY <1>1, FS_Interval
    <2>3. Cardinality(1..i) <= k
      BY <1>2, <2>1, FS_Subset
    <2>4. QED
      BY <2>2, <2>3
  <1>4. ASSUME NEW i \in 1..n, i \notin stale PROVE k < i
    <2>1. stale \subseteq 1..(i - 1)
      <3> SUFFICES ASSUME NEW j \in stale PROVE j < i /\ j \in Nat /\ j >= 1
        BY <1>1
      <3>1. j \in 1..n /\ noted[j] \in Nat /\ noted[i] \in Nat /\ noted[j] > Window /\ noted[i] <= Window
        BY <1>1, <1>4
      <3>2. ~ (i < j)
        BY <3>1
      <3>3. QED
        BY <3>1, <3>2
    <2> DEFINE h == i - 1
    <2>2. h \in Nat /\ i = h + 1
      OBVIOUS
    <2> HIDE DEF h
    <2>3. IsFiniteSet(1..h) /\ Cardinality(1..h) = h
      BY <2>2, UpTo
    <2>4. stale \subseteq 1..h
      BY <2>1 DEF h
    <2>5. k <= h
      BY <2>3, <2>4, FS_Subset
    <2>6. QED
      BY <1>2, <2>2, <2>5
  <1> HIDE DEF k
  <1>5. k <= n
    <2>1. Cardinality(1..n) = n
      BY FS_Interval
    <2>2. QED
      BY <1>1, <2>1, FS_Subset DEF k
  <1>6. \A i \in 1..n : noted[i] <= Window <=> i > k
    BY <1>2, <1>3, <1>4
  <1>7. n > 0 => k < n
    BY <1>2, <1>6
  <1>8. k \in 0..n
    BY <1>2, <1>5
  <1>9. QED
    BY <1>6, <1>7, <1>8

\* A list that is pushed and pruned is one again, and the oldest stay first.
LEMMA PrunedAges ==
    ASSUME BreakerInv, Breaker!PushAndPrune
    PROVE  /\ failures' \in Seq(Ages)
           /\ \A i, j \in 1..Len(failures') : i < j => failures'[i] >= failures'[j]
  <1> DEFINE noted == Append(failures, 0)
  <1>1. failures \in Seq(Ages) /\ Len(failures) \in Nat /\ 0 \in Ages
    BY LenProperties DEF BreakerInv, Ages
  <1>2. /\ noted \in Seq(Ages) /\ Len(noted) = Len(failures) + 1
        /\ \A i \in 1..Len(failures) : noted[i] = failures[i]
        /\ noted[Len(failures) + 1] = 0
    BY <1>1
  <1>3. PICK k \in 0..Len(failures) : failures' = SubSeq(noted, k + 1, Len(noted))
    BY DEF Breaker!PushAndPrune
  <1>4. \A i \in 1..Len(noted) : noted[i] \in Ages /\ noted[i] \in Nat
    <2>1. \A i \in 1..Len(noted) : noted[i] \in Ages
      BY <1>2, ElementOfSeq
    <2>2. QED
      BY <2>1 DEF Ages
  <1>5. \A i, j \in 1..Len(noted) : i < j => noted[i] >= noted[j]
    <2> SUFFICES ASSUME NEW i \in 1..Len(noted), NEW j \in 1..Len(noted), i < j
                 PROVE  noted[i] >= noted[j]
      OBVIOUS
    <2>1. CASE j = Len(failures) + 1
      BY <1>2, <1>4, <2>1
    <2>2. CASE j # Len(failures) + 1
      <3>1. i \in 1..Len(failures) /\ j \in 1..Len(failures)
        BY <1>1, <1>2, <2>2
      <3>2. QED
        BY <1>2, <3>1 DEF BreakerInv
    <2>3. QED
      BY <2>1, <2>2
  <1>6. /\ failures' \in Seq(Ages) /\ Len(failures') = Len(noted) - k
        /\ \A i \in 1..Len(failures') : failures'[i] = noted[k + i]
    <2> DEFINE n == Len(noted)
               m == k + 1
    <2>1. n \in Nat /\ m \in Int /\ m <= n /\ n \in Int /\ m >= 1
      BY <1>1, <1>2
    <2>2. \A i \in m..n : noted[i] \in Ages
      BY <1>4, <2>1
    <2> HIDE DEF noted, n, m
    <2>3. /\ SubSeq(noted, m, n) \in Seq(Ages)
          /\ Len(SubSeq(noted, m, n)) = n - m + 1
          /\ \A i \in 1..n - m + 1 : SubSeq(noted, m, n)[i] = noted[m + i - 1]
      BY <2>1, <2>2, SubSeqProperties
    <2>4. failures' = SubSeq(noted, m, n) /\ m = k + 1 /\ n = Len(noted)
      BY <1>3 DEF n, m
    <2>5. QED
      BY <2>1, <2>3, <2>4
  <1>7. ASSUME NEW i \in 1..Len(failures'), NEW j \in 1..Len(failures'), i < j
        PROVE  failures'[i] >= failures'[j]
    <2>1. k + i \in 1..Len(noted) /\ k + j \in 1..Len(noted) /\ k + i < k + j
      BY <1>1, <1>2, <1>6, <1>7
    <2> HIDE DEF noted
    <2>2. QED
      BY <1>5, <1>6, <2>1
  <1>8. QED
    BY <1>6, <1>7

\* As time passes every age grows, up to the one that no condition tells apart.
LEMMA OlderAges ==
    ASSUME BreakerInv, Breaker!Tick
    PROVE  /\ failures' \in Seq(Ages) /\ Len(failures') = Len(failures)
           /\ \A i, j \in 1..Len(failures') : i < j => failures'[i] >= failures'[j]
  <1> DEFINE n == Len(failures)
  <1>1. n \in Nat /\ DOMAIN failures = 1..n
    BY LenProperties DEF BreakerInv
  <1>2. \A i \in 1..n : failures[i] \in Ages
    BY ElementOfSeq DEF BreakerInv
  <1> HIDE DEF n
  <1>3. failures' = [i \in 1..n |-> Breaker!AtMost(failures[i] + 1, Window + 1)]
    BY <1>1 DEF Breaker!Tick
  <1>4. \A i \in 1..n : failures'[i] \in Ages /\ failures'[i] = IF failures[i] > Window THEN Window + 1
                                                                 ELSE failures[i] + 1
    BY <1>2, <1>3 DEF Ages, Breaker!AtMost
  <1>5. failures' \in [1..n -> Ages]
    BY <1>3, <1>4
  <1>6. failures' \in Seq(Ages)
    BY <1>1, <1>5, SeqDef
  <1>7. Len(failures') = n
    <2>1. DOMAIN failures' = 1..Len(failures') /\ Len(failures') \in Nat /\ DOMAIN failures' = 1..n
      BY <1>5, <1>6, LenProperties
    <2>2. Cardinality(1..n) = n /\ Cardinality(1..Len(failures')) = Len(failures')
      BY <1>1, <2>1, UpTo
    <2>3. QED
      BY <2>1, <2>2
  <1>8. ASSUME NEW i \in 1..n, NEW j \in 1..n, i < j PROVE failures'[i] >= failures'[j]
    <2>1. failures[i] >= failures[j] /\ failures[i] \in Nat /\ failures[j] \in Nat
      BY <1>2, <1>8 DEF BreakerInv, n, Ages
    <2>2. QED
      BY <1>4, <2>1
  <1>9. QED
    BY <1>6, <1>7, <1>8 DEF n

\* A step of the engine is one of the breaker, or leaves it alone.
BreakerStep ==
    \/ \E r \in Requests : Breaker!Begin(r)
    \/ Breaker!OnSuccess \/ Breaker!OnFailure \/ Breaker!Tick
    \/ UNCHANGED breakerVars

LEMMA EngineDrivesBreaker == [Next]_vars => BreakerStep
  <1> SUFFICES ASSUME [Next]_vars PROVE BreakerStep
    OBVIOUS
  <1>1. ASSUME NEW d \in Deliveries, Start(d) PROVE BreakerStep
    <2>1. CASE Post(d)
      BY <2>1 DEF Post, BreakerStep, Requests
    <2>2. CASE Skip(d) \/ NoRegistration(d) \/ Refused(d)
      BY <2>2 DEF Skip, NoRegistration, Refused, BreakerStep
    <2>3. QED
      BY <1>1, <2>1, <2>2 DEF Start
  <1>2. ASSUME NEW r \in Requests, Answer(r) PROVE BreakerStep
    BY <1>2 DEF Answer, Delivered, HttpError, NoAnswer, Breaker!Succeed, Breaker!Fail, BreakerStep
  <1>3. CASE Tick
    BY <1>3 DEF Tick, BreakerStep
  <1>4. CASE Unregister \/ ProcessPending \/ UNCHANGED vars
    BY <1>4 DEF Unregister, ProcessPending, vars, BreakerStep
  <1>5. ASSUME NEW d \in Deliveries, Dispatch(d) \/ RetryDelivery(d) \/ Elapse(d) \/ FireTimer(d)
        PROVE  BreakerStep
    BY <1>5 DEF Dispatch, RetryDelivery, Elapse, FireTimer, BreakerStep
  <1>6. QED
    BY <1>1, <1>2, <1>3, <1>4, <1>5 DEF Next

LEMMA BreakerNext ==
    ASSUME CircuitOK, BreakerInv, BreakerStep
    PROVE  CircuitOK' /\ BreakerInv'
  <1>0. /\ failures \in Seq(Ages) /\ Len(failures) \in Nat
        /\ circuit = "closed" => Len(failures) < FailureThreshold
        /\ circuit # "half-open" => halfOpenSuccesses = 0
    BY LenProperties DEF BreakerInv, ClosedBelowThreshold, Breaker!ClosedBelowThreshold
  <1>1. ASSUME failures' = <<>> PROVE failures' \in Seq(Ages) /\ Len(failures') = 0
    BY <1>1
  <1>2. ASSUME failures' = failures \/ failures' = <<>>,
               circuit' = "closed" => Len(failures') < FailureThreshold,
               circuit' # "half-open" => halfOpenSuccesses' = 0
        PROVE  BreakerInv'
    <2>1. failures' \in Seq(Ages) /\ \A i, j \in 1..Len(failures') : i < j => failures'[i] >= failures'[j]
      BY <1>1, <1>2 DEF BreakerInv
    <2>2. QED
      BY <1>2, <2>1 DEF BreakerInv, ClosedBelowThreshold, Breaker!ClosedBelowThreshold
  <1>3. ASSUME NEW r \in Requests, Breaker!Begin(r) PROVE CircuitOK' /\ BreakerInv'
    <2>1. CircuitOK'
      BY <1>3 DEF Breaker!Begin, CircuitOK
    <2>2. BreakerInv'
      BY <1>0, <1>2, <1>3 DEF Breaker!Begin
    <2>3. QED
      BY <2>1, <2>2
  <1>4. CASE Breaker!OnSuccess
    <2>1. CircuitOK'
      BY <1>4 DEF Breaker!OnSuccess, Breaker!Close, CircuitOK
    <2>2. /\ failures' = failures \/ failures' = <<>>
          /\ circuit' = "closed" => failures' = <<>>
          /\ circuit' # "half-open" => halfOpenSuccesses' = 0
      BY <1>0, <1>4 DEF Breaker!OnSuccess, Breaker!Close
    <2>3. BreakerInv'
      BY <1>1, <1>2, <2>2
    <2>4. QED
      BY <2>1, <2>3
  <1>5. CASE Breaker!OnFailure
    <2>1. /\ failures' \in Seq(Ages)
          /\ \A i, j \in 1..Len(failures') : i < j => failures'[i] >= failures'[j]
      BY <1>5, PrunedAges DEF Breaker!OnFailure
    <2>2. Len(failures') \in Nat
      BY <2>1, LenProperties
    <2>3. CASE Breaker!Opens
      <3>1. circuit' = "open" /\ halfOpenSuccesses' = 0 /\ sinceOpened' = 0
        BY <1>5, <2>3 DEF Breaker!OnFailure
      <3>2. QED
        BY <2>1, <3>1 DEF CircuitOK, BreakerInv, ClosedBelowThreshold, Breaker!ClosedBelowThreshold
    <2>4. CASE ~ Breaker!Opens
      <3>1. UNCHANGED <<circuit, halfOpenSuccesses, sinceOpened>>
        BY <1>5, <2>4 DEF Breaker!OnFailure
      <3>2. circuit = "closed" => Len(failures') < FailureThreshold
        BY <2>2, <2>4 DEF Breaker!Opens
      <3>3. QED
        BY <1>0, <2>1, <3>1, <3>2
           DEF CircuitOK, BreakerInv, ClosedBelowThreshold, Breaker!ClosedBelowThreshold
    <2>5. QED
      BY <2>3, <2>4
  <1>6. CASE Breaker!Tick
    <2>1. CircuitOK'
      BY <1>6 DEF Breaker!Tick, Breaker!AtMost, CircuitOK
    <2>2. circuit' = circuit /\ halfOpenSuccesses' = halfOpenSuccesses
      BY <1>6 DEF Breaker!Tick
    <2>3. QED
      BY <1>0, <1>6, <2>1, <2>2, OlderAges
         DEF BreakerInv, ClosedBelowThreshold, Breaker!ClosedBelowThreshold
  <1>7. CASE UNCHANGED breakerVars
    BY <1>0, <1>2, <1>7 DEF breakerVars, CircuitOK
  <1>8. QED
    BY <1>3, <1>4, <1>5, <1>6, <1>7 DEF BreakerStep

LEMMA BreakerInit == Init => CircuitOK /\ BreakerInv
  <1> SUFFICES ASSUME Init PROVE CircuitOK /\ BreakerInv
    OBVIOUS
  <1>1. circuit = "closed" /\ failures = <<>> /\ halfOpenSuccesses = 0 /\ sinceOpened = 0
    BY DEF Init, Breaker!Init
  <1>2. failures \in Seq(Ages) /\ Len(failures) = 0
    BY <1>1
  <1>3. QED
    BY <1>1, <1>2 DEF CircuitOK, BreakerInv, ClosedBelowThreshold, Breaker!ClosedBelowThreshold

\* circuit-breaker.ts: the breaker of a registration is never closed over as many
\* failures as open it, in whatever order the engine's attempts begin and
\* report, for any thresholds, window and cooldown.
THEOREM BreakerOpensInTime == Spec => []ClosedBelowThreshold
  <1>1. CircuitOK /\ BreakerInv /\ [Next]_vars => (CircuitOK /\ BreakerInv)'
    BY EngineDrivesBreaker, BreakerNext
  <1>2. CircuitOK /\ BreakerInv => ClosedBelowThreshold
    BY DEF BreakerInv
  <1>3. QED
    BY <1>1, <1>2, BreakerInit, PTL DEF Spec

(***************************************************************************)
(* Type correctness.                                                       *)
(***************************************************************************)

DeliveryRecords == [status : {"none", "pending", "delivered", "failed"},
                    attempts : Nat, waiting : BOOLEAN]

\* TypeOK without the breaker, in the parts that the actions disturb separately.
StoreOK ==
    /\ registered \in BOOLEAN /\ stored \subseteq Deliveries
    /\ delivery \in [Deliveries -> DeliveryRecords]
    /\ \A d \in Deliveries : Status(d) = "delivered" => ~delivery[d].waiting

CountsOK ==
    /\ timers \in [Deliveries -> Nat] /\ called \in [Deliveries -> 0..MaxInFlight]
    /\ posting \subseteq Requests

HistoryOK ==
    /\ dead \in [Deliveries -> Nat] /\ accepted \in [Deliveries -> Nat]
    /\ begun \in [Deliveries -> Nat]
    /\ doubled \subseteq Deliveries /\ retried \subseteq Deliveries

LEMMA TypeParts ==
    BreakerInv => (TypeOK <=> StoreOK /\ CountsOK /\ HistoryOK /\ CircuitOK)
  <1>1. BreakerInv => \A i \in DOMAIN failures : failures[i] \in Ages
    BY ElementOfSeq, LenProperties DEF BreakerInv
  <1>2. QED
    BY <1>1 DEF TypeOK, StoreOK, CountsOK, HistoryOK, CircuitOK, DeliveryRecords, Ages,
                Breaker!TypeOK

\* The requests in flight of a delivery, and what a step does to their number.
Number(d) == Cardinality({r \in posting : r[1] = d})

LEMMA InFlightType ==
    ASSUME CountsOK, NEW d \in Deliveries
    PROVE  /\ IsFiniteSet({r \in posting : r[1] = d}) /\ Number(d) \in Nat
           /\ InFlight(d) = called[d] + Number(d) /\ called[d] \in Nat
           /\ InFlight(d) \in Nat /\ timers[d] \in Nat
  <1>1. {r \in posting : r[1] = d} \subseteq {d} \X (1..MaxInFlight)
    BY DEF CountsOK, Requests
  <1>2. IsFiniteSet({d} \X (1..MaxInFlight))
    BY FS_Singleton, FS_Product, UpTo
  <1>3. IsFiniteSet({r \in posting : r[1] = d}) /\ Number(d) \in Nat
    BY <1>1, <1>2, FS_Subset, FS_CardinalityType DEF Number
  <1>4. InFlight(d) = called[d] + Number(d) /\ called[d] \in Nat /\ timers[d] \in Nat
    BY DEF InFlight, Number, CountsOK
  <1>5. QED
    BY <1>3, <1>4

LEMMA NumberSame ==
    ASSUME posting' = posting
    PROVE  \A d \in Deliveries : Number(d)' = Number(d)
  BY DEF Number

LEMMA NumberGrows ==
    ASSUME CountsOK, NEW r \in Requests, r \notin posting, posting' = posting \cup {r},
           NEW d \in Deliveries
    PROVE  Number(d)' = Number(d) + (IF r[1] = d THEN 1 ELSE 0)
  <1> DEFINE before == {q \in posting : q[1] = d}
             after == {q \in posting' : q[1] = d}
  <1>1. IsFiniteSet(before) /\ Number(d) = Cardinality(before) /\ Number(d)' = Cardinality(after)
    BY InFlightType DEF Number
  <1>2. r \notin before /\ Cardinality(before) \in Nat
    BY InFlightType DEF Number
  <1>3. CASE r[1] = d
    <2>1. after = before \cup {r}
      BY <1>3
    <2> HIDE DEF before, after
    <2>2. QED
      BY <1>1, <1>2, <1>3, <2>1, FS_AddElement
  <1>4. CASE r[1] # d
    <2>1. after = before
      BY <1>4
    <2> HIDE DEF before, after
    <2>2. QED
      BY <1>1, <1>2, <1>4, <2>1
  <1>5. QED
    BY <1>3, <1>4

LEMMA NumberShrinks ==
    ASSUME CountsOK, NEW r \in posting, posting' = posting \ {r}, NEW d \in Deliveries
    PROVE  Number(d)' = Number(d) - (IF r[1] = d THEN 1 ELSE 0) /\ (r[1] = d => Number(d) > 0)
  <1> DEFINE before == {q \in posting : q[1] = d}
             after == {q \in posting' : q[1] = d}
  <1>1. IsFiniteSet(before) /\ Number(d) = Cardinality(before) /\ Number(d)' = Cardinality(after)
    BY InFlightType DEF Number
  <1>2. Cardinality(before) \in Nat
    BY InFlightType DEF Number
  <1>3. CASE r[1] = d
    <2>1. after = before \ {r} /\ r \in before
      BY <1>3
    <2> HIDE DEF before, after
    <2>2. IsFiniteSet(after) /\ Cardinality(after) = Cardinality(before) - 1
      BY <1>1, <2>1, FS_RemoveElement
    <2>3. Cardinality(after) \in Nat
      BY <2>2, FS_CardinalityType
    <2>4. QED
      BY <1>1, <1>2, <1>3, <2>2, <2>3
  <1>4. CASE r[1] # d
    <2>1. after = before
      BY <1>4
    <2> HIDE DEF before, after
    <2>2. QED
      BY <1>1, <1>2, <1>4, <2>1
  <1>5. QED
    BY <1>3, <1>4

\* An attempt is begun: by a caller, a timer or the maintenance.
LEMMA CallEffect ==
    ASSUME CountsOK, NEW d \in Deliveries, Call(d)
    PROVE  /\ called' \in [Deliveries -> 0..MaxInFlight] /\ called'[d] = called[d] + 1
           /\ \A e \in Deliveries \ {d} : called'[e] = called[e]
  <1>1. called[d] + 1 \in 0..MaxInFlight
    <2>1. /\ InFlight(d) < MaxInFlight /\ InFlight(d) = called[d] + Number(d)
          /\ called[d] \in Nat /\ Number(d) \in Nat
      BY InFlightType DEF Call
    <2>2. QED
      BY <2>1
  <1>2. QED
    BY <1>1 DEF Call, CountsOK

LEMMA StartsEffect ==
    ASSUME CountsOK, NEW d \in Deliveries, Starts(d)
    PROVE  /\ called' \in [Deliveries -> 0..MaxInFlight] /\ called[d] > 0 /\ called'[d] = called[d] - 1
           /\ \A e \in Deliveries \ {d} : called'[e] = called[e]
  BY DEF Starts, CountsOK

\* What a failed attempt leaves behind.
LEMMA FailureEffect ==
    ASSUME StoreOK, CountsOK, HistoryOK, NEW d \in Deliveries, NEW n \in Nat, HandleFailure(d, n)
    PROVE  /\ stored' = stored \cup {d}
           /\ delivery' \in [Deliveries -> DeliveryRecords]
           /\ timers' \in [Deliveries -> Nat] /\ dead' \in [Deliveries -> Nat]
           /\ delivery'[d].attempts = n
           /\ IF n >= MaxAttempts
              THEN delivery'[d].status = "failed" /\ dead'[d] = dead[d] + 1 /\ timers'[d] = timers[d]
              ELSE delivery'[d].status = "pending" /\ dead'[d] = dead[d] /\ timers'[d] = timers[d] + 1
           /\ \A e \in Deliveries \ {d} : /\ delivery'[e] = delivery[e] /\ dead'[e] = dead[e]
                                          /\ timers'[e] = timers[e]
  <1> DEFINE last == n >= MaxAttempts
             record == [status |-> IF last THEN "failed" ELSE "pending",
                        attempts |-> n, waiting |-> ~last]
  <1>1. record \in DeliveryRecords
    BY DEF DeliveryRecords
  <1>2. /\ record.attempts = n /\ record.status = IF last THEN "failed" ELSE "pending"
    OBVIOUS
  <1>3. /\ delivery' = [delivery EXCEPT ![d] = record] /\ stored' = stored \cup {d}
        /\ dead' = [dead EXCEPT ![d] = IF last THEN dead[d] + 1 ELSE dead[d]]
        /\ timers' = [timers EXCEPT ![d] = IF last THEN timers[d] ELSE timers[d] + 1]
    BY DEF HandleFailure
  <1> HIDE DEF record
  <1>4. /\ delivery' \in [Deliveries -> DeliveryRecords] /\ delivery'[d] = record
        /\ \A e \in Deliveries \ {d} : delivery'[e] = delivery[e]
    BY <1>1, <1>3 DEF StoreOK
  <1>5. /\ timers' \in [Deliveries -> Nat] /\ dead' \in [Deliveries -> Nat]
        /\ IF n >= MaxAttempts THEN dead'[d] = dead[d] + 1 /\ timers'[d] = timers[d]
                               ELSE dead'[d] = dead[d] /\ timers'[d] = timers[d] + 1
        /\ \A e \in Deliveries \ {d} : dead'[e] = dead[e] /\ timers'[e] = timers[e]
    BY <1>3 DEF CountsOK, HistoryOK
  <1>6. QED
    BY <1>2, <1>3, <1>4, <1>5

\* A dispatch, or a retry by hand, starts a delivery afresh.
LEMMA FreshEffect ==
    ASSUME StoreOK, NEW d \in Deliveries, delivery' = [delivery EXCEPT ![d] = Fresh]
    PROVE  /\ delivery' \in [Deliveries -> DeliveryRecords]
           /\ delivery'[d].status = "pending" /\ delivery'[d].attempts = 0
           /\ \A e \in Deliveries \ {d} : delivery'[e] = delivery[e]
  <1>1. Fresh \in DeliveryRecords /\ Fresh.status = "pending" /\ Fresh.attempts = 0
    BY DEF Fresh, DeliveryRecords
  <1>2. delivery'[d] = Fresh /\ \A e \in Deliveries \ {d} : delivery'[e] = delivery[e]
    BY DEF StoreOK
  <1>3. delivery' \in [Deliveries -> DeliveryRecords]
    BY <1>1 DEF StoreOK
  <1>4. QED
    BY <1>1, <1>2, <1>3

\* An answer is one to a request in flight, of some delivery.
LEMMA RequestOf ==
    ASSUME CountsOK, NEW r \in posting
    PROVE  r \in Requests /\ r[1] \in Deliveries
  BY DEF CountsOK, Requests

\* A change of its status leaves the rest of a delivery, and the others, alone;
LEMMA StatusEffect ==
    ASSUME StoreOK, NEW d \in Deliveries,
           NEW s \in {"pending", "delivered", "failed"},
           delivery' = [delivery EXCEPT ![d].status = s]
    PROVE  /\ delivery' \in [Deliveries -> DeliveryRecords]
           /\ delivery'[d].status = s /\ delivery'[d].attempts = delivery[d].attempts /\ delivery'[d].waiting = delivery[d].waiting
           /\ \A e \in Deliveries \ {d} : delivery'[e] = delivery[e]
  <1> DEFINE old == delivery[d]
             new == [old EXCEPT !.status = s]
  <1>1. old \in DeliveryRecords /\ DOMAIN delivery = Deliveries
    BY DEF StoreOK
  <1>2. new \in DeliveryRecords
    BY <1>1 DEF DeliveryRecords
  <1>3. delivery' = [delivery EXCEPT ![d] = new]
    BY <1>1
  <1>4. new.status = s /\ new.attempts = old.attempts /\ new.waiting = old.waiting
    BY <1>1 DEF DeliveryRecords
  <1> HIDE DEF new
  <1>5. QED
    BY <1>2, <1>3, <1>4 DEF StoreOK

\* so does an answer of 2xx, which also clears nextRetryAt,
LEMMA DeliveredEffect ==
    ASSUME StoreOK, NEW d \in Deliveries,
           delivery' = [delivery EXCEPT ![d].status = "delivered", ![d].waiting = FALSE]
    PROVE  /\ delivery' \in [Deliveries -> DeliveryRecords]
           /\ delivery'[d].status = "delivered" /\ delivery'[d].attempts = delivery[d].attempts /\ delivery'[d].waiting = FALSE
           /\ \A e \in Deliveries \ {d} : delivery'[e] = delivery[e]
  <1> DEFINE old == delivery[d]
             new == [old EXCEPT !.status = "delivered", !.waiting = FALSE]
  <1>1. old \in DeliveryRecords /\ DOMAIN delivery = Deliveries
    BY DEF StoreOK
  <1>2. new \in DeliveryRecords
    BY <1>1 DEF DeliveryRecords
  <1>3. delivery' = [delivery EXCEPT ![d] = new]
    BY <1>1
  <1>4. new.status = "delivered" /\ new.attempts = old.attempts /\ new.waiting = FALSE
    BY <1>1 DEF DeliveryRecords
  <1> HIDE DEF new
  <1>5. QED
    BY <1>2, <1>3, <1>4 DEF StoreOK

\* the passing of nextRetryAt,
LEMMA ElapseEffect ==
    ASSUME StoreOK, NEW d \in Deliveries,
           delivery' = [delivery EXCEPT ![d].waiting = FALSE]
    PROVE  /\ delivery' \in [Deliveries -> DeliveryRecords]
           /\ delivery'[d].status = delivery[d].status /\ delivery'[d].attempts = delivery[d].attempts /\ delivery'[d].waiting = FALSE
           /\ \A e \in Deliveries \ {d} : delivery'[e] = delivery[e]
  <1> DEFINE old == delivery[d]
             new == [old EXCEPT !.waiting = FALSE]
  <1>1. old \in DeliveryRecords /\ DOMAIN delivery = Deliveries
    BY DEF StoreOK
  <1>2. new \in DeliveryRecords
    BY <1>1 DEF DeliveryRecords
  <1>3. delivery' = [delivery EXCEPT ![d] = new]
    BY <1>1
  <1>4. new.status = old.status /\ new.attempts = old.attempts /\ new.waiting = FALSE
    BY <1>1 DEF DeliveryRecords
  <1> HIDE DEF new
  <1>5. QED
    BY <1>2, <1>3, <1>4 DEF StoreOK

\* and the count of an attempt.
LEMMA AttemptEffect ==
    ASSUME StoreOK, NEW d \in Deliveries,
           delivery' = [delivery EXCEPT ![d].attempts = @ + 1]
    PROVE  /\ delivery' \in [Deliveries -> DeliveryRecords]
           /\ delivery'[d].status = delivery[d].status /\ delivery'[d].attempts = delivery[d].attempts + 1 /\ delivery'[d].waiting = delivery[d].waiting
           /\ \A e \in Deliveries \ {d} : delivery'[e] = delivery[e]
  <1> DEFINE old == delivery[d]
             new == [old EXCEPT !.attempts = @ + 1]
  <1>1. old \in DeliveryRecords /\ DOMAIN delivery = Deliveries
    BY DEF StoreOK
  <1>2. new \in DeliveryRecords
    BY <1>1 DEF DeliveryRecords
  <1>3. delivery' = [delivery EXCEPT ![d] = new]
    BY <1>1
  <1>4. new.status = old.status /\ new.attempts = old.attempts + 1 /\ new.waiting = old.waiting
    BY <1>1 DEF DeliveryRecords
  <1> HIDE DEF new
  <1>5. QED
    BY <1>2, <1>3, <1>4 DEF StoreOK

LEMMA StoreNext ==
    ASSUME StoreOK, CountsOK, HistoryOK, [Next]_vars
    PROVE  StoreOK'
  <1>1. ASSUME NEW d \in Deliveries, delivery' = [delivery EXCEPT ![d] = Fresh],
               registered' = registered, stored' \subseteq Deliveries
        PROVE  StoreOK'
    <2>1. ~ (delivery'[d].status = "delivered") /\ \A e \in Deliveries \ {d} : delivery'[e] = delivery[e]
      BY <1>1, FreshEffect
    <2>2. QED
      BY <1>1, <2>1, FreshEffect DEF StoreOK, Status
  <1>2. ASSUME NEW d \in Deliveries, NEW n \in Nat, HandleFailure(d, n), registered' = registered
        PROVE  StoreOK'
    <2>1. /\ stored' \subseteq Deliveries /\ delivery' \in [Deliveries -> DeliveryRecords]
          /\ delivery'[d].status # "delivered"
          /\ \A e \in Deliveries \ {d} : delivery'[e] = delivery[e]
      BY <1>2, FailureEffect DEF StoreOK
    <2>2. QED
      BY <1>2, <2>1 DEF StoreOK, Status
  <1>3. ASSUME NEW d \in Deliveries, Dispatch(d) \/ RetryDelivery(d) PROVE StoreOK'
    BY <1>1, <1>3 DEF Dispatch, RetryDelivery, StoreOK
  <1>4. ASSUME NEW d \in Deliveries, Refused(d) PROVE StoreOK'
    <2>1. delivery[d].attempts + 1 \in Nat
      BY DEF StoreOK, DeliveryRecords
    <2>2. QED
      BY <1>2, <1>4, <2>1 DEF Refused
  <1>5. ASSUME NEW r \in Requests, HttpError(r) \/ NoAnswer(r) PROVE StoreOK'
    <2>1. r[1] \in Deliveries /\ delivery[r[1]].attempts \in Nat
      BY DEF Requests, StoreOK, DeliveryRecords
    <2>2. QED
      BY <1>2, <1>5, <2>1 DEF HttpError, NoAnswer
  <1>6. ASSUME NEW d \in Deliveries, NoRegistration(d) PROVE StoreOK'
    BY <1>6, StatusEffect DEF NoRegistration, StoreOK, Status, DeliveryRecords
  <1>7. ASSUME NEW d \in Deliveries, Post(d) PROVE StoreOK'
    BY <1>7, AttemptEffect DEF Post, MayPost, StoreOK, Status, DeliveryRecords
  <1>8. ASSUME NEW d \in Deliveries, Elapse(d) PROVE StoreOK'
    BY <1>8, ElapseEffect DEF Elapse, StoreOK, Status, DeliveryRecords
  <1>9. ASSUME NEW r \in Requests, Delivered(r) PROVE StoreOK'
    <2> DEFINE d == r[1]
    <2>1. d \in Deliveries
      BY DEF Requests
    <2> HIDE DEF d
    <2>2. /\ delivery' = [delivery EXCEPT ![d].status = "delivered", ![d].waiting = FALSE]
          /\ stored' = stored \cup {d} /\ registered' = registered
      BY <1>9 DEF Delivered, d
    <2>3. QED
      BY <2>1, <2>2, DeliveredEffect DEF StoreOK, Status, DeliveryRecords
  <1>10. CASE Unregister
    BY <1>10 DEF Unregister, StoreOK, Status
  <1>11. ASSUME UNCHANGED <<registered, stored, delivery>> PROVE StoreOK'
    BY <1>11 DEF StoreOK, Status
  <1>12. CASE ProcessPending \/ Tick \/ UNCHANGED vars
    BY <1>11, <1>12 DEF ProcessPending, Tick, vars
  <1>13. ASSUME NEW d \in Deliveries, Skip(d) \/ FireTimer(d) PROVE StoreOK'
    BY <1>11, <1>13 DEF Skip, FireTimer
  <1>14. QED
    BY <1>3, <1>4, <1>5, <1>6, <1>7, <1>8, <1>9, <1>10, <1>12, <1>13 DEF Next, Start, Answer

LEMMA CountsNext ==
    ASSUME StoreOK, CountsOK, HistoryOK, [Next]_vars
    PROVE  CountsOK'
  <1>1. ASSUME NEW d \in Deliveries, Dispatch(d) \/ RetryDelivery(d) PROVE CountsOK'
    <2>1. called' \in [Deliveries -> 0..MaxInFlight]
      BY <1>1, CallEffect DEF Dispatch, RetryDelivery
    <2>2. QED
      BY <1>1, <2>1 DEF Dispatch, RetryDelivery, CountsOK
  <1>2. ASSUME NEW d \in Deliveries, FireTimer(d) PROVE CountsOK'
    <2>1. called' \in [Deliveries -> 0..MaxInFlight]
      BY <1>2, CallEffect DEF FireTimer
    <2>2. timers' \in [Deliveries -> Nat]
      BY <1>2 DEF FireTimer, CountsOK
    <2>3. QED
      BY <1>2, <2>1, <2>2 DEF FireTimer, CountsOK
  <1>3. ASSUME NEW d \in Deliveries, Skip(d) \/ NoRegistration(d) PROVE CountsOK'
    <2>1. called' \in [Deliveries -> 0..MaxInFlight]
      BY <1>3, StartsEffect DEF Skip, NoRegistration
    <2>2. QED
      BY <1>3, <2>1 DEF Skip, NoRegistration, CountsOK
  <1>4. ASSUME NEW d \in Deliveries, Post(d) PROVE CountsOK'
    <2>1. called' \in [Deliveries -> 0..MaxInFlight]
      BY <1>4, StartsEffect DEF Post
    <2>2. posting' \subseteq Requests
      BY <1>4 DEF Post, CountsOK, Requests
    <2>3. QED
      BY <1>4, <2>1, <2>2 DEF Post, CountsOK
  <1>5. ASSUME NEW d \in Deliveries, Refused(d) PROVE CountsOK'
    <2>1. called' \in [Deliveries -> 0..MaxInFlight]
      BY <1>5, StartsEffect DEF Refused
    <2>2. delivery[d].attempts + 1 \in Nat
      BY DEF StoreOK, DeliveryRecords
    <2>3. timers' \in [Deliveries -> Nat]
      BY <1>5, <2>2, FailureEffect DEF Refused
    <2>4. QED
      BY <1>5, <2>1, <2>3 DEF Refused, CountsOK
  <1>6. ASSUME NEW r \in Requests, HttpError(r) \/ NoAnswer(r) PROVE CountsOK'
    <2>1. r[1] \in Deliveries /\ delivery[r[1]].attempts \in Nat
      BY DEF Requests, StoreOK, DeliveryRecords
    <2>2. timers' \in [Deliveries -> Nat]
      BY <1>6, <2>1, FailureEffect DEF HttpError, NoAnswer
    <2>3. QED
      BY <1>6, <2>2 DEF HttpError, NoAnswer, CountsOK
  <1>7. CASE ProcessPending
    <2>1. \A d \in Due : called[d] + 1 \in 0..MaxInFlight
      <3> SUFFICES ASSUME NEW d \in Due PROVE called[d] + 1 \in 0..MaxInFlight
        OBVIOUS
      <3>1. d \in Deliveries /\ InFlight(d) < MaxInFlight
        BY <1>7 DEF ProcessPending, Due, StoreOK
      <3>2. called[d] \in Nat /\ Number(d) \in Nat /\ InFlight(d) = called[d] + Number(d)
        BY <3>1, InFlightType
      <3>3. QED
        BY <3>1, <3>2
    <2> DEFINE more(d) == called[d] + (IF d \in Due THEN 1 ELSE 0)
    <2>2. \A d \in Deliveries : more(d) \in 0..MaxInFlight
      BY <2>1 DEF CountsOK
    <2>3. called' = [d \in Deliveries |-> more(d)]
      BY <1>7 DEF ProcessPending
    <2> HIDE DEF more
    <2>4. QED
      BY <1>7, <2>2, <2>3 DEF ProcessPending, CountsOK
  <1>8. ASSUME UNCHANGED <<timers, called>>, posting' \subseteq posting PROVE CountsOK'
    BY <1>8 DEF CountsOK
  <1>9. CASE Unregister \/ Tick \/ UNCHANGED vars
    BY <1>8, <1>9 DEF Unregister, Tick, vars
  <1>10. ASSUME NEW d \in Deliveries, Elapse(d) PROVE CountsOK'
    BY <1>8, <1>10 DEF Elapse
  <1>11. ASSUME NEW r \in Requests, Delivered(r) PROVE CountsOK'
    BY <1>8, <1>11 DEF Delivered
  <1>12. QED
    BY <1>1, <1>2, <1>3, <1>4, <1>5, <1>6, <1>7, <1>9, <1>10, <1>11 DEF Next, Start, Answer

LEMMA HistoryNext ==
    ASSUME StoreOK, CountsOK, HistoryOK, [Next]_vars
    PROVE  HistoryOK'
  <1>1. ASSUME NEW d \in Deliveries, Dispatch(d) \/ RetryDelivery(d) PROVE HistoryOK'
    BY <1>1 DEF Dispatch, RetryDelivery, HistoryOK
  <1>2. CASE ProcessPending
    <2> DEFINE more(d) == begun[d] + (IF d \in Due THEN 1 ELSE 0)
    <2>1. \A d \in Deliveries : more(d) \in Nat
      BY DEF HistoryOK
    <2>2. begun' = [d \in Deliveries |-> more(d)]
      BY <1>2 DEF ProcessPending
    <2> HIDE DEF more
    <2>3. QED
      BY <1>2, <2>1, <2>2 DEF ProcessPending, Due, HistoryOK, StoreOK
  <1>3. ASSUME NEW d \in Deliveries, Refused(d) PROVE HistoryOK'
    <2>1. delivery[d].attempts + 1 \in Nat
      BY DEF StoreOK, DeliveryRecords
    <2>2. dead' \in [Deliveries -> Nat]
      BY <1>3, <2>1, FailureEffect DEF Refused
    <2>3. QED
      BY <1>3, <2>2 DEF Refused, history, HistoryOK
  <1>4. ASSUME NEW r \in Requests, HttpError(r) \/ NoAnswer(r) PROVE HistoryOK'
    <2>1. r[1] \in Deliveries /\ delivery[r[1]].attempts \in Nat
      BY DEF Requests, StoreOK, DeliveryRecords
    <2>2. dead' \in [Deliveries -> Nat]
      BY <1>4, <2>1, FailureEffect DEF HttpError, NoAnswer
    <2>3. QED
      BY <1>4, <2>2 DEF HttpError, NoAnswer, HistoryOK
  <1>5. ASSUME NEW r \in Requests, Delivered(r) PROVE HistoryOK'
    BY <1>5 DEF Delivered, HistoryOK, Requests
  <1>6. ASSUME UNCHANGED <<dead, history>> PROVE HistoryOK'
    BY <1>6 DEF HistoryOK, history
  <1>7. CASE Unregister \/ Tick \/ UNCHANGED vars
    BY <1>6, <1>7 DEF Unregister, Tick, vars
  <1>8. ASSUME NEW d \in Deliveries,
               Skip(d) \/ NoRegistration(d) \/ Post(d) \/ Elapse(d) \/ FireTimer(d)
        PROVE  HistoryOK'
    BY <1>6, <1>8 DEF Skip, NoRegistration, Post, Elapse, FireTimer
  <1>9. QED
    BY <1>1, <1>2, <1>3, <1>4, <1>5, <1>7, <1>8 DEF Next, Start, Answer

\* The parts of TypeOK and the breaker's invariant, kept together.
EngineInv == StoreOK /\ CountsOK /\ HistoryOK /\ CircuitOK /\ BreakerInv

LEMMA EngineInit == Init => EngineInv
  <1> SUFFICES ASSUME Init PROVE EngineInv
    OBVIOUS
  <1>1. StoreOK
    BY DEF Init, StoreOK, Status, DeliveryRecords
  <1>2. CountsOK
    BY DEF Init, CountsOK
  <1>3. HistoryOK
    BY DEF Init, HistoryOK
  <1>4. QED
    BY <1>1, <1>2, <1>3, BreakerInit DEF EngineInv

LEMMA EngineNext == EngineInv /\ [Next]_vars => EngineInv'
  BY StoreNext, CountsNext, HistoryNext, EngineDrivesBreaker, BreakerNext DEF EngineInv

\* webhook-engine.ts and circuit-breaker.ts: every variable keeps its type, no
\* more attempts of a delivery are going than the bound allows, and what is
\* delivered waits for no retry.
THEOREM TypeCorrect == Spec => []TypeOK
  <1>1. EngineInv => TypeOK
    BY TypeParts DEF EngineInv
  <1>2. QED
    BY <1>1, EngineInit, EngineNext, PTL DEF Spec

(***************************************************************************)
(* No delivery is forgotten, and each has one outcome.                     *)
(***************************************************************************)

\* OutcomeInv without the chains, for one delivery; and with them.
OutcomeOf(d) ==
    /\ d \in stored => Status(d) # "none"
    /\ Status(d) = "none" => ~ Driven(d) /\ accepted[d] = 0 /\ dead[d] = 0 /\ d \notin retried
    /\ d \in stored /\ Status(d) = "pending" => Driven(d)
    /\ d \notin doubled =>
         /\ Alone(d)
         /\ registered /\ Status(d) # "none"
              => accepted[d] + dead[d] + (IF Status(d) = "pending" THEN 1 ELSE 0)
                   = IF d \in retried THEN 2 ELSE 1

DeliveryInv(d) == OutcomeOf(d) /\ ChainsOf(d)

\* The counts that the invariant is about, as numbers.
LEMMA Going ==
    ASSUME EngineInv, NEW d \in Deliveries
    PROVE  /\ timers[d] \in Nat /\ called[d] \in Nat /\ Number(d) \in Nat
           /\ delivery[d].attempts \in Nat /\ accepted[d] \in Nat /\ dead[d] \in Nat
           /\ begun[d] \in Nat
           /\ Status(d) \in {"none", "pending", "delivered", "failed"}
           /\ InFlight(d) = called[d] + Number(d)
           /\ Driven(d) <=> timers[d] + called[d] + Number(d) > 0
  <1>1. /\ timers[d] \in Nat /\ called[d] \in Nat /\ Number(d) \in Nat
        /\ InFlight(d) = called[d] + Number(d)
    BY InFlightType DEF EngineInv
  <1>2. /\ delivery[d] \in DeliveryRecords /\ accepted[d] \in Nat /\ dead[d] \in Nat
        /\ begun[d] \in Nat
    BY DEF EngineInv, StoreOK, HistoryOK
  <1>3. QED
    BY <1>1, <1>2 DEF Driven, Status, DeliveryRecords

LEMMA OutcomeParts ==
    ASSUME EngineInv, \A d \in Deliveries : DeliveryInv(d)
    PROVE  OutcomeInv
  <1>1. DispatchedFirst /\ PendingIsDriven /\ \A d \in Deliveries \ doubled : Alone(d)
    BY DEF EngineInv, StoreOK, DeliveryInv, OutcomeOf, DispatchedFirst, PendingIsDriven
  <1>2. OneOutcomePerStart
    <2> SUFFICES ASSUME NEW d \in Deliveries
                 PROVE  LET ended == accepted[d] + dead[d]
                            going == timers[d] + InFlight(d) IN
                        /\ ended + going <= begun[d]
                        /\ registered /\ accepted[d] = 0 => ended + going = begun[d]
                        /\ delivery[d].attempts < MaxAttempts + begun[d]
                        /\ d \notin doubled =>
                             /\ delivery[d].attempts <= MaxAttempts
                             /\ registered /\ Status(d) # "none"
                                  => ended + (IF Status(d) = "pending" THEN 1 ELSE 0)
                                       = IF d \in retried THEN 2 ELSE 1
      BY DEF OneOutcomePerStart
    <2>1. OutcomeOf(d) /\ ChainsOf(d)
      BY DEF DeliveryInv
    <2>2. QED
      BY <2>1, Going DEF OutcomeOf, ChainsOf, Alone
  <1>3. QED
    BY <1>1, <1>2 DEF OutcomeInv, DeliveryInv

\* What a step leaves of a delivery that it is not about.
Untouched(d) ==
    /\ delivery'[d] = delivery[d] /\ timers'[d] = timers[d] /\ called'[d] = called[d]
    /\ Number(d)' = Number(d) /\ dead'[d] = dead[d] /\ accepted'[d] = accepted[d]
    /\ begun'[d] = begun[d]
    /\ d \in stored' => d \in stored
    /\ registered' => registered /\ (d \in stored => d \in stored')
    /\ d \in doubled' <=> d \in doubled
    /\ d \in retried' <=> d \in retried

LEMMA UntouchedKeeps ==
    ASSUME EngineInv, EngineInv', NEW d \in Deliveries, DeliveryInv(d), Untouched(d)
    PROVE  DeliveryInv(d)'
  <1>1. InFlight(d)' = InFlight(d) /\ Status(d)' = Status(d)
    <2>1. InFlight(d)' = called'[d] + Number(d)' /\ InFlight(d) = called[d] + Number(d)
      BY DEF InFlight, Number
    <2>2. QED
      BY <2>1 DEF Untouched, Status
  <1>2. Driven(d)' <=> Driven(d)
    BY <1>1 DEF Driven, Untouched
  <1>3. Alone(d) => Alone(d)'
    BY <1>1, <1>2 DEF Alone, Untouched
  <1>4. OutcomeOf(d)'
    BY <1>1, <1>2, <1>3 DEF DeliveryInv, OutcomeOf, Untouched
  <1>5. ChainsOf(d)'
    BY <1>1 DEF DeliveryInv, ChainsOf, Untouched
  <1>6. QED
    BY <1>4, <1>5 DEF DeliveryInv

LEMMA GoingNext ==
    ASSUME EngineInv', NEW d \in Deliveries, Number(d)' \in Nat
    PROVE  /\ timers'[d] \in Nat /\ called'[d] \in Nat /\ delivery'[d].attempts \in Nat
           /\ accepted'[d] \in Nat /\ dead'[d] \in Nat /\ begun'[d] \in Nat
           /\ InFlight(d)' = called'[d] + Number(d)'
           /\ Driven(d)' <=> timers'[d] + called'[d] + Number(d)' > 0
  <1>1. /\ timers'[d] \in Nat /\ called'[d] \in Nat /\ InFlight(d)' = called'[d] + Number(d)'
    BY DEF EngineInv, CountsOK, InFlight, Number
  <1>2. /\ delivery'[d] \in DeliveryRecords /\ accepted'[d] \in Nat /\ dead'[d] \in Nat
        /\ begun'[d] \in Nat
    BY DEF EngineInv, StoreOK, HistoryOK
  <1>3. QED
    BY <1>1, <1>2 DEF Driven, DeliveryRecords

\* A step about one delivery keeps the invariant when it keeps it of that one.
LEMMA OneMoves ==
    ASSUME EngineInv, EngineInv', \A e \in Deliveries : DeliveryInv(e), NEW d \in Deliveries,
           \A e \in Deliveries \ {d} : Untouched(e), OutcomeOf(d)', ChainsOf(d)'
    PROVE  \A e \in Deliveries : DeliveryInv(e)'
  <1>1. ASSUME NEW e \in Deliveries \ {d} PROVE DeliveryInv(e)'
    <2>1. DeliveryInv(e) /\ Untouched(e)
      OBVIOUS
    <2>2. QED
      BY <2>1, UntouchedKeeps
  <1>2. QED
    BY <1>1 DEF DeliveryInv

LEMMA DispatchKeeps ==
    ASSUME EngineInv, EngineInv', \A e \in Deliveries : DeliveryInv(e), NEW d \in Deliveries, Dispatch(d)
    PROVE  \A e \in Deliveries : DeliveryInv(e)'
  <1>1. /\ Status(d) = "none" /\ Call(d) /\ delivery' = [delivery EXCEPT ![d] = Fresh]
        /\ stored' = stored \cup {d} /\ registered' = registered /\ posting' = posting
        /\ timers' = timers /\ dead' = dead /\ accepted' = accepted /\ doubled' = doubled
        /\ retried' = retried /\ begun' = [begun EXCEPT ![d] = @ + 1] /\ registered
    BY DEF Dispatch
  <1>2. /\ called'[d] = called[d] + 1 /\ \A e \in Deliveries \ {d} : called'[e] = called[e]
        /\ delivery'[d].status = "pending" /\ delivery'[d].attempts = 0
        /\ \A e \in Deliveries \ {d} : delivery'[e] = delivery[e]
    BY <1>1, CallEffect, FreshEffect DEF EngineInv
  <1>3. begun'[d] = begun[d] + 1 /\ \A e \in Deliveries \ {d} : begun'[e] = begun[e]
    BY <1>1 DEF EngineInv, HistoryOK
  <1>4. \A e \in Deliveries : Number(e)' = Number(e)
    BY <1>1, NumberSame
  <1>5. \A e \in Deliveries \ {d} : Untouched(e)
    BY <1>1, <1>2, <1>3, <1>4 DEF Untouched
  <1>6. Number(d)' \in Nat
    BY <1>4, Going
  <1>7. OutcomeOf(d)'
    BY <1>1, <1>2, <1>3, <1>4, <1>6, Going, GoingNext DEF DeliveryInv, OutcomeOf, Alone, Status
  <1>8. ChainsOf(d)'
    BY <1>1, <1>2, <1>3, <1>4, <1>6, Going, GoingNext DEF DeliveryInv, ChainsOf, Status
  <1>9. QED
    BY <1>1, <1>5, <1>7, <1>8, OneMoves

LEMMA RetryKeeps ==
    ASSUME EngineInv, EngineInv', \A e \in Deliveries : DeliveryInv(e), NEW d \in Deliveries, RetryDelivery(d)
    PROVE  \A e \in Deliveries : DeliveryInv(e)'
  <1>1. /\ d \in stored \ retried /\ Call(d) /\ delivery' = [delivery EXCEPT ![d] = Fresh]
        /\ stored' = stored /\ registered' = registered /\ posting' = posting
        /\ timers' = timers /\ dead' = dead /\ accepted' = accepted
        /\ doubled' = (IF Driven(d) THEN doubled \cup {d} ELSE doubled)
        /\ retried' = retried \cup {d} /\ begun' = [begun EXCEPT ![d] = @ + 1]
    BY DEF RetryDelivery
  <1>2. /\ called'[d] = called[d] + 1 /\ \A e \in Deliveries \ {d} : called'[e] = called[e]
        /\ delivery'[d].status = "pending" /\ delivery'[d].attempts = 0
        /\ \A e \in Deliveries \ {d} : delivery'[e] = delivery[e]
    BY <1>1, CallEffect, FreshEffect DEF EngineInv
  <1>3. begun'[d] = begun[d] + 1 /\ \A e \in Deliveries \ {d} : begun'[e] = begun[e]
    BY <1>1 DEF EngineInv, HistoryOK
  <1>4. \A e \in Deliveries : Number(e)' = Number(e)
    BY <1>1, NumberSame
  <1>5. \A e \in Deliveries \ {d} : Untouched(e)
    BY <1>1, <1>2, <1>3, <1>4 DEF Untouched
  <1>6. Number(d)' \in Nat
    BY <1>4, Going
  <1>7. OutcomeOf(d)'
    <2>1. CASE Driven(d)
      BY <1>1, <1>2, <1>3, <1>4, <1>6, <2>1, Going, GoingNext DEF DeliveryInv, OutcomeOf, Alone, Status
    <2>2. CASE ~ Driven(d)
      <3>1. Status(d) \in {"delivered", "failed"} /\ timers[d] = 0 /\ called[d] = 0 /\ Number(d) = 0
        BY <1>1, <2>2, Going DEF DeliveryInv, OutcomeOf
      <3>2. QED
        BY <1>1, <1>2, <1>3, <1>4, <1>6, <2>2, <3>1, Going, GoingNext DEF DeliveryInv, OutcomeOf, Alone, Status
    <2>3. QED
      BY <2>1, <2>2
  <1>8. ChainsOf(d)'
    BY <1>1, <1>2, <1>3, <1>4, <1>6, Going, GoingNext DEF DeliveryInv, ChainsOf, Status
  <1>9. QED
    BY <1>1, <1>5, <1>7, <1>8, OneMoves

LEMMA StartKeeps ==
    ASSUME EngineInv, EngineInv', \A e \in Deliveries : DeliveryInv(e), NEW d \in Deliveries,
           Skip(d) \/ NoRegistration(d)
    PROVE  \A e \in Deliveries : DeliveryInv(e)'
  <1>1. /\ Starts(d) /\ stored' = stored /\ registered' = registered /\ posting' = posting
        /\ timers' = timers /\ dead' = dead /\ accepted' = accepted /\ doubled' = doubled
        /\ retried' = retried /\ begun' = begun
    BY DEF Skip, NoRegistration, history
  <1>2. /\ called[d] > 0 /\ called'[d] = called[d] - 1
        /\ \A e \in Deliveries \ {d} : called'[e] = called[e]
    BY <1>1, StartsEffect DEF EngineInv
  <1>3. \A e \in Deliveries : Number(e)' = Number(e)
    BY <1>1, NumberSame
  <1>4. Number(d)' \in Nat
    BY <1>3, Going
  <1>5. CASE Skip(d)
    <2>1. delivery' = delivery /\ (d \notin stored \/ Status(d) = "delivered")
      BY <1>5 DEF Skip
    <2>2. \A e \in Deliveries \ {d} : Untouched(e)
      BY <1>1, <1>2, <1>3, <2>1 DEF Untouched
    <2>3. OutcomeOf(d)'
      BY <1>1, <1>2, <1>3, <1>4, <2>1, Going, GoingNext DEF DeliveryInv, OutcomeOf, Alone, Status
    <2>4. ChainsOf(d)'
      BY <1>1, <1>2, <1>3, <1>4, <2>1, Going, GoingNext
         DEF DeliveryInv, ChainsOf, OutcomeOf, Status
    <2>5. QED
      BY <1>1, <2>2, <2>3, <2>4, OneMoves
  <1>6. CASE NoRegistration(d)
    <2>1. delivery' = [delivery EXCEPT ![d].status = "failed"] /\ ~ registered /\ d \in stored
      BY <1>6 DEF NoRegistration
    <2>2. /\ delivery'[d].status = "failed" /\ delivery'[d].attempts = delivery[d].attempts
          /\ \A e \in Deliveries \ {d} : delivery'[e] = delivery[e]
      BY <2>1, StatusEffect DEF EngineInv
    <2>3. \A e \in Deliveries \ {d} : Untouched(e)
      BY <1>1, <1>2, <1>3, <2>2 DEF Untouched
    <2>4. OutcomeOf(d)'
      BY <1>1, <1>2, <1>3, <1>4, <2>1, <2>2, Going, GoingNext DEF DeliveryInv, OutcomeOf, Alone, Status
    <2>5. ChainsOf(d)'
      BY <1>1, <1>2, <1>3, <1>4, <2>1, <2>2, Going, GoingNext DEF DeliveryInv, ChainsOf, Status
    <2>6. QED
      BY <1>1, <2>3, <2>4, <2>5, OneMoves
  <1>7. QED
    BY <1>5, <1>6

LEMMA PostKeeps ==
    ASSUME EngineInv, EngineInv', \A e \in Deliveries : DeliveryInv(e), NEW d \in Deliveries, Post(d)
    PROVE  \A e \in Deliveries : DeliveryInv(e)'
  <1>1. /\ Starts(d) /\ stored' = stored /\ registered' = registered /\ registered /\ d \in stored
        /\ timers' = timers /\ dead' = dead /\ accepted' = accepted /\ doubled' = doubled
        /\ retried' = retried /\ begun' = begun /\ delivery' = [delivery EXCEPT ![d].attempts = @ + 1]
    BY DEF Post, MayPost, history
  <1>2. /\ called[d] > 0 /\ called'[d] = called[d] - 1
        /\ \A e \in Deliveries \ {d} : called'[e] = called[e]
    BY <1>1, StartsEffect DEF EngineInv
  <1>3. PICK r \in Requests : r[1] = d /\ r \notin posting /\ posting' = posting \cup {r}
    BY DEF Post, Breaker!Begin, Requests
  <1>4. \A e \in Deliveries : Number(e)' = Number(e) + (IF r[1] = e THEN 1 ELSE 0)
    BY <1>3, NumberGrows DEF EngineInv
  <1>5. Number(d)' = Number(d) + 1 /\ Number(d)' \in Nat
    BY <1>3, <1>4, Going
  <1>6. \A e \in Deliveries \ {d} : Number(e)' = Number(e)
    BY <1>3, <1>4, Going
  <1>7. /\ delivery'[d].status = delivery[d].status /\ delivery'[d].attempts = delivery[d].attempts + 1
        /\ \A e \in Deliveries \ {d} : delivery'[e] = delivery[e]
    BY <1>1, AttemptEffect DEF EngineInv
  <1>8. \A e \in Deliveries \ {d} : Untouched(e)
    BY <1>1, <1>2, <1>6, <1>7 DEF Untouched
  <1>9. OutcomeOf(d)'
    BY <1>1, <1>2, <1>5, <1>7, Going, GoingNext DEF DeliveryInv, OutcomeOf, Alone, Status
  <1>10. ChainsOf(d)'
    BY <1>1, <1>2, <1>5, <1>7, Going, GoingNext DEF DeliveryInv, ChainsOf, Status
  <1>11. QED
    BY <1>1, <1>8, <1>9, <1>10, OneMoves

LEMMA RefusedKeeps ==
    ASSUME EngineInv, EngineInv', \A e \in Deliveries : DeliveryInv(e), NEW d \in Deliveries, Refused(d)
    PROVE  \A e \in Deliveries : DeliveryInv(e)'
  <1> DEFINE n == delivery[d].attempts + 1
  <1>1. /\ Starts(d) /\ registered' = registered /\ registered /\ d \in stored /\ posting' = posting
        /\ accepted' = accepted /\ doubled' = doubled /\ retried' = retried /\ begun' = begun
        /\ HandleFailure(d, n)
    BY DEF Refused, MayPost, history
  <1>2. /\ called[d] > 0 /\ called'[d] = called[d] - 1
        /\ \A e \in Deliveries \ {d} : called'[e] = called[e]
    BY <1>1, StartsEffect DEF EngineInv
  <1>3. \A e \in Deliveries : Number(e)' = Number(e)
    BY <1>1, NumberSame
  <1>4. Number(d)' \in Nat /\ n \in Nat
    BY <1>3, Going
  <1>5. /\ stored' = stored \cup {d} /\ delivery'[d].attempts = n
        /\ IF n >= MaxAttempts
           THEN delivery'[d].status = "failed" /\ dead'[d] = dead[d] + 1 /\ timers'[d] = timers[d]
           ELSE delivery'[d].status = "pending" /\ dead'[d] = dead[d] /\ timers'[d] = timers[d] + 1
        /\ \A e \in Deliveries \ {d} : /\ delivery'[e] = delivery[e] /\ dead'[e] = dead[e]
                                       /\ timers'[e] = timers[e]
    <2> HIDE DEF n
    <2>1. QED
      BY <1>1, <1>4, FailureEffect DEF EngineInv
  <1>6. \A e \in Deliveries \ {d} : Untouched(e)
    BY <1>1, <1>2, <1>3, <1>5 DEF Untouched
  <1>7. /\ OutcomeOf(d) /\ ChainsOf(d) /\ called[d] \in Nat /\ timers[d] \in Nat
        /\ delivery[d].attempts \in Nat /\ n = delivery[d].attempts + 1
        /\ dead[d] \in Nat /\ accepted[d] \in Nat /\ begun[d] \in Nat /\ Number(d) \in Nat
        /\ InFlight(d) = called[d] + Number(d) /\ Number(d)' = Number(d)
        /\ (Driven(d) <=> timers[d] + called[d] + Number(d) > 0)
    BY <1>3, Going DEF DeliveryInv
  <1>8. /\ InFlight(d)' = called'[d] + Number(d)'
        /\ (Driven(d)' <=> timers'[d] + called'[d] + Number(d)' > 0)
    BY <1>4, GoingNext
  <1> HIDE DEF n
  <1>9. OutcomeOf(d)'
    <2>1. CASE n >= MaxAttempts
      BY <1>1, <1>2, <1>4, <1>5, <1>7, <1>8, <2>1 DEF OutcomeOf, Alone, Status
    <2>2. CASE ~ (n >= MaxAttempts)
      BY <1>1, <1>2, <1>4, <1>5, <1>7, <1>8, <2>2 DEF OutcomeOf, Alone, Status
    <2>3. QED
      BY <2>1, <2>2
  <1>10. ChainsOf(d)'
    <2>1. CASE n >= MaxAttempts
      BY <1>1, <1>2, <1>4, <1>5, <1>7, <1>8, <2>1 DEF ChainsOf, Status
    <2>2. CASE ~ (n >= MaxAttempts)
      BY <1>1, <1>2, <1>4, <1>5, <1>7, <1>8, <2>2 DEF ChainsOf, Status
    <2>3. QED
      BY <2>1, <2>2
  <1>11. QED
    BY <1>1, <1>6, <1>9, <1>10, OneMoves

LEMMA AnswerKeeps ==
    ASSUME EngineInv, EngineInv', \A e \in Deliveries : DeliveryInv(e), NEW r \in Requests, Answer(r)
    PROVE  \A e \in Deliveries : DeliveryInv(e)'
  <1> DEFINE d == r[1]
  <1>1. /\ d \in Deliveries /\ r \in posting /\ posting' = posting \ {r} /\ registered' = registered
        /\ called' = called /\ doubled' = doubled /\ retried' = retried /\ begun' = begun
    BY DEF Answer, Delivered, HttpError, NoAnswer, Requests
  <1>2. \A e \in Deliveries :
           Number(e)' = Number(e) - (IF r[1] = e THEN 1 ELSE 0) /\ (r[1] = e => Number(e) > 0)
    BY <1>1, NumberShrinks DEF EngineInv
  <1>3. CASE Delivered(r)
    <2>1. /\ delivery' = [delivery EXCEPT ![d].status = "delivered", ![d].waiting = FALSE]
          /\ stored' = stored \cup {d} /\ accepted' = [accepted EXCEPT ![d] = @ + 1]
          /\ timers' = timers /\ dead' = dead
      BY <1>3 DEF Delivered
    <2> HIDE DEF d
    <2>2. Number(d)' = Number(d) - 1 /\ Number(d) > 0 /\ Number(d)' \in Nat
      BY <1>1, <1>2, Going DEF d
    <2>3. \A e \in Deliveries \ {d} : Number(e)' = Number(e)
      BY <1>2, Going DEF d
    <2>4. /\ delivery'[d].status = "delivered" /\ delivery'[d].attempts = delivery[d].attempts
          /\ \A e \in Deliveries \ {d} : delivery'[e] = delivery[e]
      BY <1>1, <2>1, DeliveredEffect DEF EngineInv
    <2>5. accepted'[d] = accepted[d] + 1 /\ \A e \in Deliveries \ {d} : accepted'[e] = accepted[e]
      BY <1>1, <2>1 DEF EngineInv, HistoryOK
    <2>6. \A e \in Deliveries \ {d} : Untouched(e)
      BY <1>1, <2>1, <2>3, <2>4, <2>5 DEF Untouched
    <2>7. OutcomeOf(d)'
      BY <1>1, <2>1, <2>2, <2>4, <2>5, Going, GoingNext DEF DeliveryInv, OutcomeOf, Alone, Status
    <2>8. ChainsOf(d)'
      BY <1>1, <2>1, <2>2, <2>4, <2>5, Going, GoingNext DEF DeliveryInv, ChainsOf, Status
    <2>9. QED
      BY <1>1, <2>6, <2>7, <2>8, OneMoves
  <1>4. CASE HttpError(r) \/ NoAnswer(r)
    <2> DEFINE n == delivery[d].attempts
    <2>1. HandleFailure(d, n) /\ accepted' = accepted
      BY <1>4 DEF HttpError, NoAnswer
    <2> HIDE DEF d
    <2>2. Number(d)' = Number(d) - 1 /\ Number(d) > 0 /\ Number(d)' \in Nat /\ n \in Nat
      BY <1>1, <1>2, Going DEF d
    <2>3. \A e \in Deliveries \ {d} : Number(e)' = Number(e)
      BY <1>2, Going DEF d
    <2>4. /\ stored' = stored \cup {d} /\ delivery'[d].attempts = n
          /\ IF n >= MaxAttempts
             THEN delivery'[d].status = "failed" /\ dead'[d] = dead[d] + 1 /\ timers'[d] = timers[d]
             ELSE delivery'[d].status = "pending" /\ dead'[d] = dead[d] /\ timers'[d] = timers[d] + 1
          /\ \A e \in Deliveries \ {d} : /\ delivery'[e] = delivery[e] /\ dead'[e] = dead[e]
                                         /\ timers'[e] = timers[e]
      <3> HIDE DEF n
      <3>1. QED
        BY <1>1, <2>1, <2>2, FailureEffect DEF EngineInv
    <2>5. \A e \in Deliveries \ {d} : Untouched(e)
      BY <1>1, <2>1, <2>3, <2>4 DEF Untouched
    <2>6. OutcomeOf(d)'
      <3>1. CASE n >= MaxAttempts
        BY <1>1, <2>1, <2>2, <2>4, <3>1, Going, GoingNext DEF DeliveryInv, OutcomeOf, Alone, Status
      <3>2. CASE ~ (n >= MaxAttempts)
        BY <1>1, <2>1, <2>2, <2>4, <3>2, Going, GoingNext DEF DeliveryInv, OutcomeOf, Alone, Status
      <3>3. QED
        BY <3>1, <3>2
    <2>7. ChainsOf(d)'
      <3>1. CASE n >= MaxAttempts
        BY <1>1, <2>1, <2>2, <2>4, <3>1, Going, GoingNext DEF DeliveryInv, ChainsOf, Status
      <3>2. CASE ~ (n >= MaxAttempts)
        BY <1>1, <2>1, <2>2, <2>4, <3>2, Going, GoingNext DEF DeliveryInv, ChainsOf, Status
      <3>3. QED
        BY <3>1, <3>2
    <2>8. QED
      BY <1>1, <2>5, <2>6, <2>7, OneMoves
  <1>5. QED
    BY <1>3, <1>4 DEF Answer

LEMMA FireTimerKeeps ==
    ASSUME EngineInv, EngineInv', \A e \in Deliveries : DeliveryInv(e), NEW d \in Deliveries, FireTimer(d)
    PROVE  \A e \in Deliveries : DeliveryInv(e)'
  <1>1. /\ timers[d] > 0 /\ timers' = [timers EXCEPT ![d] = @ - 1] /\ Call(d)
        /\ stored' = stored /\ registered' = registered /\ posting' = posting
        /\ delivery' = delivery /\ dead' = dead /\ accepted' = accepted /\ doubled' = doubled
        /\ retried' = retried /\ begun' = begun
    BY DEF FireTimer, history
  <1>2. /\ called'[d] = called[d] + 1 /\ \A e \in Deliveries \ {d} : called'[e] = called[e]
        /\ timers'[d] = timers[d] - 1 /\ \A e \in Deliveries \ {d} : timers'[e] = timers[e]
    BY <1>1, CallEffect DEF EngineInv, CountsOK
  <1>3. \A e \in Deliveries : Number(e)' = Number(e)
    BY <1>1, NumberSame
  <1>4. \A e \in Deliveries \ {d} : Untouched(e)
    BY <1>1, <1>2, <1>3 DEF Untouched
  <1>5. Number(d)' \in Nat
    BY <1>3, Going
  <1>6. OutcomeOf(d)'
    BY <1>1, <1>2, <1>3, <1>5, Going, GoingNext DEF DeliveryInv, OutcomeOf, Alone, Status
  <1>7. ChainsOf(d)'
    BY <1>1, <1>2, <1>3, <1>5, Going, GoingNext DEF DeliveryInv, ChainsOf, Status
  <1>8. QED
    BY <1>1, <1>4, <1>6, <1>7, OneMoves

LEMMA ElapseKeeps ==
    ASSUME EngineInv, EngineInv', \A e \in Deliveries : DeliveryInv(e), NEW d \in Deliveries, Elapse(d)
    PROVE  \A e \in Deliveries : DeliveryInv(e)'
  <1>1. /\ delivery' = [delivery EXCEPT ![d].waiting = FALSE] /\ timers' = timers /\ called' = called
        /\ stored' = stored /\ registered' = registered /\ posting' = posting
        /\ dead' = dead /\ accepted' = accepted /\ doubled' = doubled /\ retried' = retried /\ begun' = begun
    BY DEF Elapse, history
  <1>2. /\ delivery'[d].status = delivery[d].status /\ delivery'[d].attempts = delivery[d].attempts
        /\ \A e \in Deliveries \ {d} : delivery'[e] = delivery[e]
    BY <1>1, ElapseEffect DEF EngineInv
  <1>3. \A e \in Deliveries : Number(e)' = Number(e)
    BY <1>1, NumberSame
  <1>4. \A e \in Deliveries \ {d} : Untouched(e)
    BY <1>1, <1>2, <1>3 DEF Untouched
  <1>5. Number(d)' \in Nat
    BY <1>3, Going
  <1>6. OutcomeOf(d)'
    BY <1>1, <1>2, <1>3, <1>5, Going, GoingNext DEF DeliveryInv, OutcomeOf, Alone, Status
  <1>7. ChainsOf(d)'
    BY <1>1, <1>2, <1>3, <1>5, Going, GoingNext DEF DeliveryInv, ChainsOf, Status
  <1>8. QED
    BY <1>1, <1>4, <1>6, <1>7, OneMoves

\* The maintenance attempts only what has a timer or an attempt of its own
\* already: what it attempts is doubled.
LEMMA ProcessPendingKeeps ==
    ASSUME EngineInv, EngineInv', \A e \in Deliveries : DeliveryInv(e), ProcessPending
    PROVE  \A e \in Deliveries : DeliveryInv(e)'
  <1>1. /\ called' = [d \in Deliveries |-> called[d] + (IF d \in Due THEN 1 ELSE 0)]
        /\ doubled' = doubled \cup {d \in Due : Driven(d)}
        /\ delivery' = delivery /\ timers' = timers
        /\ stored' = stored /\ registered' = registered /\ posting' = posting
        /\ dead' = dead /\ accepted' = accepted /\ retried' = retried
        /\ begun' = [d \in Deliveries |-> begun[d] + (IF d \in Due THEN 1 ELSE 0)]
    BY DEF ProcessPending
  <1>2. \A e \in Deliveries : Number(e)' = Number(e)
    BY <1>1, NumberSame
  <1> SUFFICES ASSUME NEW e \in Deliveries PROVE DeliveryInv(e)'
    OBVIOUS
  <1>3. Number(e)' = Number(e) /\ Number(e)' \in Nat /\ OutcomeOf(e) /\ ChainsOf(e)
    BY <1>2, Going DEF DeliveryInv
  <1>4. CASE e \in Due
    <2>1. e \in stored /\ Status(e) = "pending" /\ Driven(e)
      BY <1>3, <1>4 DEF Due, OutcomeOf
    <2>2. called'[e] = called[e] + 1 /\ begun'[e] = begun[e] + 1 /\ e \in doubled'
      BY <1>1, <1>4, <2>1
    <2>3. OutcomeOf(e)'
      BY <1>1, <1>3, <2>1, <2>2, Going, GoingNext DEF OutcomeOf, Status
    <2>4. ChainsOf(e)'
      BY <1>1, <1>3, <2>1, <2>2, Going, GoingNext DEF ChainsOf, Status
    <2>5. QED
      BY <2>3, <2>4 DEF DeliveryInv
  <1>5. CASE e \notin Due
    <2>1. called'[e] = called[e] /\ begun'[e] = begun[e]
      BY <1>1, <1>5, Going
    <2>2. Untouched(e)
      BY <1>1, <1>3, <1>5, <2>1 DEF Untouched
    <2>3. QED
      BY <1>1, <1>3, <2>2, UntouchedKeeps
  <1>6. QED
    BY <1>4, <1>5

LEMMA QuietKeeps ==
    ASSUME EngineInv, EngineInv', \A e \in Deliveries : DeliveryInv(e),
           Unregister \/ Tick \/ UNCHANGED vars
    PROVE  \A e \in Deliveries : DeliveryInv(e)'
  <1>1. /\ registered' => registered
        /\ delivery' = delivery /\ timers' = timers /\ called' = called /\ posting' = posting
        /\ dead' = dead /\ accepted' = accepted /\ retried' = retried /\ doubled' = doubled
        /\ begun' = begun /\ stored' \subseteq stored /\ (registered' => stored' = stored)
    BY DEF Unregister, Tick, vars, history
  <1>2. \A e \in Deliveries : Number(e)' = Number(e)
    BY <1>1, NumberSame
  <1> SUFFICES ASSUME NEW e \in Deliveries PROVE DeliveryInv(e)'
    OBVIOUS
  <1>3. Untouched(e)
    BY <1>1, <1>2 DEF Untouched
  <1>4. QED
    BY <1>1, <1>3, UntouchedKeeps

LEMMA OutcomeNext ==
    ASSUME EngineInv, EngineInv', \A e \in Deliveries : DeliveryInv(e), [Next]_vars
    PROVE  \A e \in Deliveries : DeliveryInv(e)'
  <1>1. ASSUME NEW d \in Deliveries, Start(d) PROVE \A e \in Deliveries : DeliveryInv(e)'
    BY <1>1, StartKeeps, PostKeeps, RefusedKeeps DEF Start
  <1>2. ASSUME NEW d \in Deliveries, Dispatch(d) \/ RetryDelivery(d) \/ Elapse(d) \/ FireTimer(d)
        PROVE  \A e \in Deliveries : DeliveryInv(e)'
    BY <1>2, DispatchKeeps, RetryKeeps, ElapseKeeps, FireTimerKeeps
  <1>3. ASSUME NEW r \in Requests, Answer(r) PROVE \A e \in Deliveries : DeliveryInv(e)'
    BY <1>3, AnswerKeeps
  <1>4. QED
    BY <1>1, <1>2, <1>3, ProcessPendingKeeps, QuietKeeps DEF Next

LEMMA OutcomeInit == Init => \A d \in Deliveries : DeliveryInv(d)
  <1> SUFFICES ASSUME Init, NEW d \in Deliveries PROVE DeliveryInv(d)
    OBVIOUS
  <1>1. /\ EngineInv /\ Status(d) = "none" /\ delivery[d].attempts = 0 /\ timers[d] = 0 /\ called[d] = 0
        /\ d \notin stored /\ accepted[d] = 0 /\ begun[d] = 0 /\ dead[d] = 0 /\ d \notin retried /\ d \notin doubled
    BY EngineInit DEF Init, Status
  <1>2. Number(d) = 0
    <2>1. {r \in posting : r[1] = d} = {}
      BY DEF Init
    <2>2. QED
      BY <2>1, FS_EmptySet DEF Number
  <1>3. OutcomeOf(d)
    BY <1>1, <1>2, Going DEF OutcomeOf, Alone
  <1>4. ChainsOf(d)
    BY <1>1, <1>2, Going DEF ChainsOf
  <1>5. QED
    BY <1>3, <1>4 DEF DeliveryInv

LEMMA OutcomeHolds == Spec => [](EngineInv /\ OutcomeInv)
  <1> DEFINE Inv == EngineInv /\ \A d \in Deliveries : DeliveryInv(d)
  <1>1. Init => Inv
    BY EngineInit, OutcomeInit
  <1>2. Inv /\ [Next]_vars => Inv'
    <2> SUFFICES ASSUME Inv, [Next]_vars PROVE Inv'
      OBVIOUS
    <2>1. EngineInv'
      BY EngineNext
    <2>2. QED
      BY <2>1, OutcomeNext
  <1>3. Inv => EngineInv /\ OutcomeInv
    BY OutcomeParts
  <1> HIDE DEF Inv
  <1>4. QED
    BY <1>1, <1>2, <1>3, PTL DEF Spec

\* webhook-engine.ts: a delivery in the store that is pending has a timer set or
\* an attempt going, whoever dispatches, retries, unregisters or runs the
\* maintenance meanwhile: none is left for processPending to find.
THEOREM NothingPendingIsForgotten == Spec => []PendingIsDriven
  <1>1. OutcomeInv => PendingIsDriven
    BY DEF OutcomeInv
  <1>2. QED
    BY <1>1, OutcomeHolds, PTL

\* webhook-engine.ts: what a dispatch, a retry by hand or the maintenance began
\* ends once, accepted or dead-lettered, and goes on until then, whatever
\* attempts run beside it; it is dropped only once an attempt was accepted or
\* the registration removed.  A delivery of which no two attempts ran beside each
\* other has one outcome for each time it was dispatched or retried by hand, and
\* at most maxAttempts attempts.  For any number of deliveries and any options.
THEOREM EachStartHasOneOutcome == Spec => []OneOutcomePerStart
  <1>1. OutcomeInv => OneOutcomePerStart
    BY DEF OutcomeInv
  <1>2. QED
    BY <1>1, OutcomeHolds, PTL

=============================================================================
