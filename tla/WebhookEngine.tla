----------------------------- MODULE WebhookEngine -----------------------------
(***************************************************************************)
(* The webhook engine over its in-memory store, with one registration and  *)
(* the circuit breaker of its URL.  The store hands out the delivery       *)
(* objects themselves, so attempts that run beside each other share one,   *)
(* and answers at once: the code from one request, timer or caller to the  *)
(* next is a step.  A request stands for the short retries inside one      *)
(* attempt (withRetry): it ends in a status or in no answer.               *)
(***************************************************************************)
EXTENDS Naturals, Sequences, FiniteSets

CONSTANTS
    Deliveries,         \* the deliveries dispatch may create
    MaxAttempts,        \* opts.maxAttempts
    MaxInFlight,        \* bound: attempts of one delivery at a time
    FailureThreshold, SuccessThreshold, Cooldown, Window   \* opts.circuitBreaker

ASSUME WebhookAssumption ==
    /\ MaxAttempts \in Nat \ {0} /\ MaxInFlight \in Nat \ {0}
    /\ FailureThreshold \in Nat \ {0} /\ SuccessThreshold \in Nat \ {0}
    /\ Cooldown \in Nat \ {0} /\ Window \in Nat

Requests == Deliveries \X (1..MaxInFlight)

VARIABLES
    registered,   \* is the registration in the store?
    stored,       \* the deliveries in the store
    delivery,     \* the delivery objects: status, attempts, nextRetryAt ahead?
    timers,       \* the retry timers set for each
    called,       \* the attempts just begun, for each
    posting,      \* the requests in flight
    dead,         \* how often each is in the dead letters
    \* the circuit breaker
    circuit, failures, halfOpenSuccesses, sinceOpened,
    \* history
    accepted,     \* the requests of each answered 2xx
    begun,        \* the attempts of each that no retry timer began
    doubled,      \* those attempted again with a timer or an attempt going
    retried       \* those retried by hand (bound: once each)

breakerVars == <<circuit, failures, halfOpenSuccesses, sinceOpened>>
history == <<accepted, begun, doubled, retried>>
vars == <<registered, stored, delivery, timers, called, posting, dead, breakerVars, history>>

Breaker == INSTANCE CircuitBreaker
             WITH Calls <- Requests, state <- circuit, running <- posting

Status(d) == delivery[d].status

InFlight(d) == called[d] + Cardinality({r \in posting : r[1] = d})

\* Something will still move the delivery on.
Driven(d) == timers[d] + InFlight(d) > 0

Init ==
    /\ registered = TRUE /\ stored = {} /\ posting = {}
    /\ delivery = [d \in Deliveries |->
                     [status |-> "none", attempts |-> 0, waiting |-> FALSE]]
    /\ timers = [d \in Deliveries |-> 0] /\ called = [d \in Deliveries |-> 0]
    /\ dead = [d \in Deliveries |-> 0] /\ accepted = [d \in Deliveries |-> 0]
    /\ begun = [d \in Deliveries |-> 0]
    /\ doubled = {} /\ retried = {}
    /\ Breaker!Init

Fresh == [status |-> "pending", attempts |-> 0, waiting |-> FALSE]

Call(d) == InFlight(d) < MaxInFlight /\ called' = [called EXCEPT ![d] = @ + 1]

------------------------------------------------------------------------------
(* What callers do.                                                        *)

\* The nonce it looks up holds the payload id it has just made: never a hit.
Dispatch(d) ==
    /\ registered /\ Status(d) = "none"
    /\ stored' = stored \cup {d}
    /\ delivery' = [delivery EXCEPT ![d] = Fresh]
    /\ Call(d)
    /\ begun' = [begun EXCEPT ![d] = @ + 1]
    /\ UNCHANGED <<registered, timers, posting, dead, breakerVars, accepted, doubled, retried>>

RetryDelivery(d) ==
    /\ d \in stored \ retried
    /\ delivery' = [delivery EXCEPT ![d] = Fresh]
    /\ Call(d)
    /\ retried' = retried \cup {d}
    /\ begun' = [begun EXCEPT ![d] = @ + 1]
    /\ doubled' = IF Driven(d) THEN doubled \cup {d} ELSE doubled
    /\ UNCHANGED <<registered, stored, timers, posting, dead, breakerVars, accepted>>

Unregister ==
    /\ registered
    /\ registered' = FALSE /\ stored' = {}
    /\ UNCHANGED <<delivery, timers, called, posting, dead, breakerVars, history>>

\* The pending deliveries whose time has come: each is attempted, whatever
\* timer or attempt of its own it has.
Due == {d \in stored : Status(d) = "pending" /\ ~delivery[d].waiting}

ProcessPending ==
    /\ Due # {} /\ \A d \in Due : InFlight(d) < MaxInFlight
    /\ called' = [d \in Deliveries |-> called[d] + (IF d \in Due THEN 1 ELSE 0)]
    /\ begun' = [d \in Deliveries |-> begun[d] + (IF d \in Due THEN 1 ELSE 0)]
    /\ doubled' = doubled \cup {d \in Due : Driven(d)}
    /\ UNCHANGED <<registered, stored, delivery, timers, posting, dead, breakerVars,
                   accepted, retried>>

------------------------------------------------------------------------------
(* An attempt.                                                             *)

\* BUG (mutant): the retry is left to processPending.
HandleFailure_NoTimer(d, attempts) ==
    LET last == attempts >= MaxAttempts IN
    /\ delivery' = [delivery EXCEPT ![d] =
                      [status |-> IF last THEN "failed" ELSE "pending",
                       attempts |-> attempts, waiting |-> ~last]]
    /\ dead' = [dead EXCEPT ![d] = IF last THEN @ + 1 ELSE @]
    /\ timers' = timers
    /\ stored' = stored \cup {d}

\* BUG (mutant): the limit is compared for equality, which an attempt that
\* was counted beside another steps over.
HandleFailure_AtLimitOnly(d, attempts) ==
    LET last == attempts = MaxAttempts IN
    /\ delivery' = [delivery EXCEPT ![d] =
                      [status |-> IF last THEN "failed" ELSE "pending",
                       attempts |-> attempts, waiting |-> ~last]]
    /\ dead' = [dead EXCEPT ![d] = IF last THEN @ + 1 ELSE @]
    /\ timers' = [timers EXCEPT ![d] = IF last THEN @ ELSE @ + 1]
    /\ stored' = stored \cup {d}

\* It is failed and dead-lettered, or pending with a timer; and saved, though
\* Unregister may have dropped it meanwhile, or another attempt delivered it.
HandleFailure(d, attempts) ==
    LET last == attempts >= MaxAttempts IN
    /\ delivery' = [delivery EXCEPT ![d] =
                      [status |-> IF last THEN "failed" ELSE "pending",
                       attempts |-> attempts, waiting |-> ~last]]
    /\ dead' = [dead EXCEPT ![d] = IF last THEN @ + 1 ELSE @]
    /\ timers' = [timers EXCEPT ![d] = IF last THEN @ ELSE @ + 1]
    /\ stored' = stored \cup {d}

Starts(d) == called[d] > 0 /\ called' = [called EXCEPT ![d] = @ - 1]

\* The delivery is gone, or another attempt has delivered it.
Skip(d) ==
    /\ Starts(d) /\ (d \notin stored \/ Status(d) = "delivered")
    /\ UNCHANGED <<registered, stored, delivery, timers, posting, dead, breakerVars, history>>

\* A delivery saved after Unregister finds no registration.
NoRegistration(d) ==
    /\ Starts(d) /\ d \in stored /\ Status(d) # "delivered" /\ ~registered
    /\ delivery' = [delivery EXCEPT ![d].status = "failed"]
    /\ UNCHANGED <<registered, stored, timers, posting, dead, breakerVars, history>>

MayPost(d) == d \in stored /\ Status(d) # "delivered" /\ registered

\* The attempt is counted and the request goes out,
Post(d) ==
    /\ Starts(d) /\ MayPost(d)
    /\ delivery' = [delivery EXCEPT ![d].attempts = @ + 1]
    /\ \E i \in 1..MaxInFlight : Breaker!Begin(<<d, i>>) /\ posting' = posting \cup {<<d, i>>}
    /\ UNCHANGED <<registered, stored, timers, dead, history>>

\* or the circuit is open: the attempt counts as a failed one.
Refused(d) ==
    /\ Starts(d) /\ MayPost(d) /\ ~Breaker!Admits
    /\ HandleFailure(d, delivery[d].attempts + 1)
    /\ UNCHANGED <<registered, posting, breakerVars, history>>

\* BUG (mutant): a retry that another attempt scheduled is left to wait.
Delivered_KeepsRetryAt(r) ==
    LET d == r[1] IN
    /\ r \in posting /\ posting' = posting \ {r} /\ Breaker!Succeed(r)
    /\ delivery' = [delivery EXCEPT ![d].status = "delivered"]
    /\ stored' = stored \cup {d}
    /\ accepted' = [accepted EXCEPT ![d] = @ + 1]
    /\ UNCHANGED <<registered, timers, called, dead, begun, doubled, retried>>

\* 2xx
Delivered(r) ==
    LET d == r[1] IN
    /\ r \in posting /\ posting' = posting \ {r} /\ Breaker!Succeed(r)
    /\ delivery' = [delivery EXCEPT ![d].status = "delivered", ![d].waiting = FALSE]
    /\ stored' = stored \cup {d}
    /\ accepted' = [accepted EXCEPT ![d] = @ + 1]
    /\ UNCHANGED <<registered, timers, called, dead, begun, doubled, retried>>

\* Another status: a failed attempt, but to the breaker, which deliverOnce
\* returns it to, a success.
HttpError(r) ==
    /\ r \in posting /\ posting' = posting \ {r} /\ Breaker!Succeed(r)
    /\ HandleFailure(r[1], delivery[r[1]].attempts)
    /\ UNCHANGED <<registered, called, accepted, begun, doubled, retried>>

\* A network error, or requestTimeoutMs without an answer.
NoAnswer(r) ==
    /\ r \in posting /\ posting' = posting \ {r} /\ Breaker!Fail(r)
    /\ HandleFailure(r[1], delivery[r[1]].attempts)
    /\ UNCHANGED <<registered, called, accepted, begun, doubled, retried>>

------------------------------------------------------------------------------
(* Time.                                                                   *)

\* nextRetryAt is past.
Elapse(d) ==
    /\ delivery[d].waiting
    /\ delivery' = [delivery EXCEPT ![d].waiting = FALSE]
    /\ UNCHANGED <<registered, stored, timers, called, posting, dead, breakerVars, history>>

\* The timer set with nextRetryAt, or an older one, goes off.
FireTimer(d) ==
    /\ timers[d] > 0 /\ (~delivery[d].waiting \/ timers[d] > 1)
    /\ timers' = [timers EXCEPT ![d] = @ - 1]
    /\ Call(d)
    /\ UNCHANGED <<registered, stored, delivery, posting, dead, breakerVars, history>>

Tick ==
    /\ Breaker!Tick
    /\ UNCHANGED <<registered, stored, delivery, timers, called, posting, dead, history>>

Answer(r) == Delivered(r) \/ HttpError(r) \/ NoAnswer(r)

Start(d) == Skip(d) \/ NoRegistration(d) \/ Post(d) \/ Refused(d)

Next ==
    \/ Unregister \/ ProcessPending \/ Tick
    \/ \E d \in Deliveries : \/ Dispatch(d) \/ RetryDelivery(d) \/ Start(d)
                             \/ Elapse(d) \/ FireTimer(d)
    \/ \E r \in Requests : Answer(r)

Spec == Init /\ [][Next]_vars

\* An attempt that has begun runs, a request ends (requestTimeoutMs), and timers
\* go off.  Nobody need retry, unregister or run the maintenance.
FairSpec ==
    /\ Spec
    /\ \A d \in Deliveries : WF_vars(Start(d)) /\ WF_vars(Elapse(d)) /\ WF_vars(FireTimer(d))
    /\ \A r \in Requests : WF_vars(Answer(r))

------------------------------------------------------------------------------
(* Properties.                                                             *)

\* Every variable has its type, and what is delivered waits for no retry.
TypeOK ==
    /\ registered \in BOOLEAN /\ stored \subseteq Deliveries
    /\ delivery \in [Deliveries -> [status : {"none", "pending", "delivered", "failed"},
                                    attempts : Nat, waiting : BOOLEAN]]
    /\ \A d \in Deliveries : Status(d) = "delivered" => ~delivery[d].waiting
    /\ timers \in [Deliveries -> Nat] /\ called \in [Deliveries -> 0..MaxInFlight]
    /\ posting \subseteq Requests /\ dead \in [Deliveries -> Nat]
    /\ accepted \in [Deliveries -> Nat] /\ begun \in [Deliveries -> Nat]
    /\ doubled \subseteq Deliveries /\ retried \subseteq Deliveries /\ Breaker!TypeOK

\* No pending delivery is forgotten: one in the store has an attempt going or a
\* timer set, so the engine does not depend on anyone calling processPending.
PendingIsDriven == \A d \in stored : Status(d) = "pending" => Driven(d)

\* Attempts that run beside each other neither multiply nor get lost.  Each one
\* that a dispatch, a retry by hand or the maintenance began is followed by one
\* timer or attempt at a time, up to one acceptance or one dead letter at most; if
\* none was accepted yet, each is still going or was dead-lettered.  The attempts
\* pass maxAttempts by less than the number of them.  As long as no two ran beside
\* each other, a delivery has exactly one outcome for each time it was dispatched
\* or retried by hand, which stays, and no more than maxAttempts attempts.
OneOutcomePerStart ==
    \A d \in Deliveries :
      LET ended == accepted[d] + dead[d]
          going == timers[d] + InFlight(d) IN
      /\ ended + going <= begun[d]
      /\ registered /\ accepted[d] = 0 => ended + going = begun[d]
      /\ delivery[d].attempts < MaxAttempts + begun[d]
      /\ d \notin doubled =>
           /\ delivery[d].attempts <= MaxAttempts
           /\ registered /\ Status(d) # "none"
                => ended + (IF Status(d) = "pending" THEN 1 ELSE 0)
                     = IF d \in retried THEN 2 ELSE 1

\* A pending delivery is delivered or given up in the end (or dropped with its
\* registration), whatever the endpoint answers; one that an attempt saves again
\* after Unregister too.
Settles == \A d \in Deliveries : [](d \in stored /\ Status(d) = "pending"
                                      => <>(d \notin stored \/ Status(d) # "pending"))

\* The breaker's invariant holds for the calls the engine makes, though attempts
\* that began in one of its states report in another.
ClosedBelowThreshold == Breaker!ClosedBelowThreshold

==============================================================================
