---------------------------- MODULE CircuitBreaker ----------------------------
(***************************************************************************)
(* One circuit breaker and the calls that go through it.  A step is the    *)
(* code between two awaits: a call's way in, and its answer.  Times are    *)
(* kept as ages, in ticks, and an age that no condition tells apart from   *)
(* a greater one does not grow, so that time need not end.  The module of  *)
(* a caller joins its steps with these; WebhookEngine is one.              *)
(***************************************************************************)
EXTENDS Naturals, Sequences

CONSTANTS
    Calls,              \* the calls that may be in flight at once
    FailureThreshold,   \* options.failureThreshold
    SuccessThreshold,   \* options.successThreshold
    Cooldown,           \* options.cooldownMs, in ticks
    Window              \* options.rollingWindowMs, in ticks

VARIABLES
    state,               \* closed, open or half-open
    failures,            \* the ages of the failures, the oldest first
    halfOpenSuccesses,   \* successes since the circuit is half-open
    sinceOpened,         \* the age of openedAt
    running              \* the calls in flight

Init ==
    /\ state = "closed" /\ failures = <<>> /\ halfOpenSuccesses = 0 /\ sinceOpened = 0
    /\ running = {}

------------------------------------------------------------------------------
\* shouldTransitionToHalfOpen: a call that is not admitted is refused at once.
Admits == state # "open" \/ sinceOpened >= Cooldown

Begin(c) ==
    /\ c \notin running /\ Admits
    /\ running' = running \cup {c}
    /\ state' = IF state = "open" THEN "half-open" ELSE state
    /\ halfOpenSuccesses' = IF state = "open" THEN 0 ELSE halfOpenSuccesses
    /\ UNCHANGED <<failures, sinceOpened>>

\* BUG (mutant): closing keeps the failures noted before.
Close_KeepsFailures ==
    /\ state' = "closed" /\ halfOpenSuccesses' = 0 /\ sinceOpened' = 0
    /\ UNCHANGED failures

\* transitionTo('closed')
Close == /\ state' = "closed" /\ failures' = <<>>
         /\ halfOpenSuccesses' = 0 /\ sinceOpened' = 0

\* A success that comes while the circuit is open, from a call begun before
\* that, changes nothing; one that comes in half-open counts, whoever's it is.
OnSuccess ==
    \/ /\ state = "half-open" /\ halfOpenSuccesses + 1 >= SuccessThreshold
       /\ Close
    \/ /\ state = "half-open" /\ halfOpenSuccesses + 1 < SuccessThreshold
       /\ halfOpenSuccesses' = halfOpenSuccesses + 1
       /\ UNCHANGED <<state, failures, sinceOpened>>
    \/ /\ state = "closed" /\ failures' = <<>>
       /\ UNCHANGED <<state, halfOpenSuccesses, sinceOpened>>
    \/ /\ state = "open"
       /\ UNCHANGED <<state, failures, halfOpenSuccesses, sinceOpened>>

\* Does the failure that has just been noted open the circuit?
Opens ==
    \/ state = "half-open"
    \/ state = "closed" /\ Len(failures') >= FailureThreshold

InWindow(age) == age <= Window

\* The new failure is pushed, and those out of the window, the k oldest, are
\* filtered out.
PushAndPrune ==
    LET noted == Append(failures, 0) IN
    \E k \in 0..Len(failures) :
       /\ \A i \in 1..Len(noted) : InWindow(noted[i]) <=> i > k
       /\ failures' = SubSeq(noted, k + 1, Len(noted))

OnFailure ==
    /\ PushAndPrune
    /\ IF Opens THEN /\ state' = "open" /\ sinceOpened' = 0
                     /\ halfOpenSuccesses' = 0
                ELSE UNCHANGED <<state, sinceOpened, halfOpenSuccesses>>

Finish(c) == c \in running /\ running' = running \ {c}

Succeed(c) == Finish(c) /\ OnSuccess
Fail(c) == Finish(c) /\ OnFailure

AtMost(n, limit) == IF n > limit THEN limit ELSE n

\* Time passes.
Tick ==
    /\ failures' = [i \in DOMAIN failures |-> AtMost(failures[i] + 1, Window + 1)]
    /\ sinceOpened' = IF state = "closed" THEN 0 ELSE AtMost(sinceOpened + 1, Cooldown)
    /\ UNCHANGED <<state, halfOpenSuccesses, running>>

------------------------------------------------------------------------------
(* Properties.                                                             *)

\* Every variable has its type.
TypeOK ==
    /\ state \in {"closed", "open", "half-open"}
    /\ \A i \in DOMAIN failures : failures[i] \in 0..Window + 1
    /\ halfOpenSuccesses \in 0..SuccessThreshold - 1
    /\ sinceOpened \in 0..Cooldown
    /\ running \subseteq Calls

\* The circuit is never closed over as many failures as open it, in whatever
\* order old and new calls answer: what was noted while it was open is gone when
\* it closes, and half-open counts no successes of an earlier period.
ClosedBelowThreshold ==
    /\ state = "closed" => Len(failures) < FailureThreshold
    /\ state # "half-open" => halfOpenSuccesses = 0

==============================================================================
