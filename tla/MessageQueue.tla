---------------------------- MODULE MessageQueue ----------------------------
(***************************************************************************)
(* InMemoryQueue, the QueueWorker that consumes one queue of it, and the   *)
(* dead-letter queue in the database, with the replay of its entries.      *)
(*                                                                         *)
(* JavaScript runs one callback at a time, so a step is what runs between  *)
(* two awaits.  Priorities, delays and the order of the list are left out: *)
(* a dispatch takes every available message, each in a call of its own, so *)
(* any order of the calls can happen.  A handler either takes effect and   *)
(* returns, or throws at every try withRetry gives it.                     *)
(***************************************************************************)
EXTENDS Naturals, Sequences, FiniteSets, FiniteSetsExt

CONSTANTS
    Payloads,      \* what is published
    MaxAttempts,   \* maxAttempts of a message
    Concurrency,   \* the worker's concurrency
    Replayers,     \* whoever calls replay, directly or from replayAll
    MaxMessages,   \* bound: messages published, the replayed ones included
    MaxFaults      \* bound: visibility timeouts, failed sends, stops and crashes

ASSUME QueueAssumption ==
    /\ IsFiniteSet(Payloads)
    /\ MaxAttempts \in Nat \ {0} /\ Concurrency \in Nat \ {0} /\ MaxMessages \in Nat
    /\ MaxFaults \in Nat

VARIABLES
    copies,        \* how many messages with a payload were published
    queue,         \* the messages in the list
    inflight,      \* the messages with an in-flight entry
    attempts,      \* message.attempts, up to MaxAttempts
    calls,         \* of each message, how many calls of the consumer are where
    running,       \* the worker's flag
    dead,          \* the DeadLetterMessage table, in the order of the inserts
    entry,         \* the entry a replayer is at, 0 for none
    published,     \* has the replayer published it?
    effects,       \* how often a payload's handling took effect
    timedOut,      \* history: payloads with a message whose visibility timed out
    uncertain,     \* history: payloads whose send may or may not have been stored
    reread,        \* history: payloads with an entry read while it was replayed,
                   \* or whose replay a crash cut short
    lost,          \* history: payloads a crash took out of the memory
    faults         \* history: how many so far

memory == <<copies, queue, inflight, attempts, calls, running>>
replay == <<entry, published>>
history == <<timedOut, uncertain, reread, lost>>
vars == <<memory, dead, replay, effects, history, faults>>

Messages == Payloads \X (1..MaxMessages)
Stages == {"waiting", "handling", "handled", "sending"}
NoCalls == [s \in Stages |-> 0]

Init ==
    /\ copies = [p \in Payloads |-> 0]
    /\ queue = {} /\ inflight = {}
    /\ attempts = [m \in Messages |-> 0]
    /\ calls = [m \in Messages |-> NoCalls]
    /\ running = TRUE
    /\ dead = <<>>
    /\ entry = [a \in Replayers |-> 0]
    /\ published = [a \in Replayers |-> FALSE]
    /\ effects = [p \in Payloads |-> 0]
    /\ timedOut = {} /\ uncertain = {} /\ reread = {} /\ lost = {}
    /\ faults = 0

Fault == faults < MaxFaults /\ faults' = faults + 1

------------------------------------------------------------------------------
(* InMemoryQueue.                                                          *)

Drawn == {m \in Messages : m[2] <= copies[m[1]]}

\* publish gives the message a new id.
Publish(p) ==
    /\ Cardinality(Drawn) < MaxMessages
    /\ copies' = [copies EXCEPT ![p] = @ + 1]
    /\ queue' = queue \cup {<<p, copies[p] + 1>>}

\* The application publishes each payload once.
PublishFirst(p) ==
    /\ copies[p] = 0
    /\ Publish(p)
    /\ UNCHANGED <<inflight, attempts, calls, running, dead, replay, effects, history, faults>>

\* A call of the consumer moves from one stage to the next; "none" is outside.
Move(m, from, to) ==
    calls' = [calls EXCEPT ![m] = [s \in Stages |->
                 @[s] + (IF s = to THEN 1 ELSE 0) - (IF s = from THEN 1 ELSE 0)]]

At(m, s) == calls[m][s] > 0

Ack(m) == /\ inflight' = inflight \ {m}
          /\ UNCHANGED <<queue, attempts>>

\* BUG (mutant): the attempt is not counted.
Nack_Uncounted(m) ==
    /\ IF m \in inflight
       THEN inflight' = inflight \ {m} /\ queue' = queue \cup {m}
       ELSE UNCHANGED <<inflight, queue>>
    /\ UNCHANGED attempts

\* nack with requeue: nothing happens without an in-flight entry.
Nack(m) ==
    IF m \in inflight
    THEN /\ inflight' = inflight \ {m}
         /\ queue' = queue \cup {m}
         /\ attempts' = [attempts EXCEPT ![m] = Min({@ + 1, MaxAttempts})]
    ELSE UNCHANGED <<inflight, queue, attempts>>

\* dispatchOnce and the consumer's first step: a worker that is stopped nacks.
Dispatch(m) ==
    /\ m \in queue
    /\ IF running
       THEN /\ queue' = queue \ {m} /\ inflight' = inflight \cup {m}
            /\ Move(m, "none", "waiting")
            /\ UNCHANGED attempts
       ELSE /\ attempts' = [attempts EXCEPT ![m] = Min({@ + 1, MaxAttempts})]
            /\ UNCHANGED <<queue, inflight, calls>>
    /\ UNCHANGED <<copies, running, dead, replay, effects, history, faults>>

\* checkVisibilityTimeouts: the message goes back, though its call goes on.
VisibilityTimeout(m) ==
    /\ m \in inflight /\ Fault
    /\ timedOut' = timedOut \cup {m[1]}
    /\ inflight' = inflight \ {m} /\ queue' = queue \cup {m}
    /\ UNCHANGED <<copies, attempts, calls, running, dead, replay, effects,
                   uncertain, reread, lost>>

------------------------------------------------------------------------------
(* QueueWorker.                                                            *)

\* activeCount: the calls that have a slot, each call of a message numbered.
InSlot == UNION {{<<m, s>>} \X (1..calls[m][s]) : m \in Messages, s \in Stages \ {"waiting"}}
Active == Cardinality(InSlot)

\* BUG (mutant): one call too many.
SlotFree_OneMore == Active <= Concurrency

SlotFree == Active < Concurrency

AcquireSlot(m) ==
    /\ At(m, "waiting") /\ SlotFree
    /\ Move(m, "waiting", "handling")
    /\ UNCHANGED <<copies, queue, inflight, attempts, running, dead, replay, effects,
                   history, faults>>

\* The handler takes effect.
Handle(m) ==
    /\ At(m, "handling")
    /\ effects' = [effects EXCEPT ![m[1]] = @ + 1]
    /\ Move(m, "handling", "handled")
    /\ UNCHANGED <<copies, queue, inflight, attempts, running, dead, replay, history, faults>>

\* It has returned: the message is acked, and the slot released.
Succeed(m) ==
    /\ At(m, "handled")
    /\ Move(m, "handled", "none")
    /\ Ack(m)
    /\ UNCHANGED <<copies, running, dead, replay, effects, history, faults>>

\* nextAttempts >= maxAttempts; isPoison asks for more attempts than that.
Exhausted(m) == attempts[m] + 1 >= MaxAttempts

\* BUG (mutant): the message is acked before it is sent.
Fail_AcksFirst(m) ==
    /\ At(m, "handling")
    /\ IF Exhausted(m) THEN Move(m, "handling", "sending") /\ Ack(m)
                       ELSE Move(m, "handling", "none") /\ Nack(m)
    /\ UNCHANGED <<copies, running, dead, replay, effects, history, faults>>

\* It has thrown at every try: handleFailure, up to its first await.
Fail(m) ==
    /\ At(m, "handling")
    /\ IF Exhausted(m) THEN /\ Move(m, "handling", "sending")
                            /\ UNCHANGED <<queue, inflight, attempts>>
                       ELSE Move(m, "handling", "none") /\ Nack(m)
    /\ UNCHANGED <<copies, running, dead, replay, effects, history, faults>>

Insert(m) == dead' = Append(dead, [payload |-> m[1], status |-> "pending"])

\* dlq.send returns: the message is acked.
Sent(m) ==
    /\ At(m, "sending")
    /\ Insert(m)
    /\ Move(m, "sending", "none")
    /\ Ack(m)
    /\ UNCHANGED <<copies, running, replay, effects, history, faults>>

\* dlq.send throws, whether or not the row was inserted: the queue nacks.
SendFails(m) ==
    /\ At(m, "sending") /\ Fault
    /\ \/ Insert(m) /\ uncertain' = uncertain \cup {m[1]}
       \/ UNCHANGED <<dead, uncertain>>
    /\ Move(m, "sending", "none")
    /\ Nack(m)
    /\ UNCHANGED <<copies, running, replay, effects, timedOut, reread, lost>>

StopWorker ==
    /\ running /\ Fault
    /\ running' = FALSE
    /\ UNCHANGED <<copies, queue, inflight, attempts, calls, dead, replay, effects, history>>

StartWorker ==
    /\ ~running /\ running' = TRUE
    /\ UNCHANGED <<copies, queue, inflight, attempts, calls, dead, replay, effects, history,
                   faults>>

------------------------------------------------------------------------------
(* PrismaDeadLetterQueue: replay and expire.                               *)

\* BUG (mutant): the entry's status is not looked at.
Replayable_Any(k) == TRUE

Replayable(k) == dead[k].status = "pending"

AtEntry(k) == {a \in Replayers : entry[a] = k}

FindEntry(a, k) ==
    /\ entry[a] = 0 /\ Replayable(k)
    /\ entry' = [entry EXCEPT ![a] = k]
    /\ reread' = IF AtEntry(k) = {} THEN reread ELSE reread \cup {dead[k].payload}
    /\ UNCHANGED <<memory, dead, published, effects, timedOut, uncertain, lost, faults>>

PublishEntry(a) ==
    /\ entry[a] # 0 /\ ~published[a]
    /\ Publish(dead[entry[a]].payload)
    /\ published' = [published EXCEPT ![a] = TRUE]
    /\ UNCHANGED <<inflight, attempts, calls, running, dead, entry, effects, history, faults>>

SetStatus(k, status) == dead' = [dead EXCEPT ![k].status = status]

\* The status is set, whatever it is by now.
MarkReplayed(a) ==
    /\ published[a]
    /\ SetStatus(entry[a], "replayed")
    /\ entry' = [entry EXCEPT ![a] = 0]
    /\ published' = [published EXCEPT ![a] = FALSE]
    /\ UNCHANGED <<memory, effects, history, faults>>

\* expire, for one entry whose expiresAt has passed.
ExpireEntry(k) ==
    /\ dead[k].status = "pending"
    /\ SetStatus(k, "expired")
    /\ UNCHANGED <<memory, replay, effects, history, faults>>

------------------------------------------------------------------------------
\* The process dies with its queue and its replays, and is started again.
Crash ==
    /\ Fault
    /\ lost' = lost \cup {m[1] : m \in queue \cup inflight}
    /\ reread' = reread \cup {dead[entry[a]].payload : a \in {b \in Replayers : published[b]}}
    /\ queue' = {} /\ inflight' = {}
    /\ calls' = [m \in Messages |-> NoCalls]
    /\ running' = TRUE
    /\ entry' = [a \in Replayers |-> 0]
    /\ published' = [a \in Replayers |-> FALSE]
    /\ UNCHANGED <<copies, attempts, dead, effects, timedOut, uncertain>>

Deliver(m) == \/ Dispatch(m) \/ AcquireSlot(m)
              \/ Handle(m) \/ Succeed(m) \/ Fail(m) \/ Sent(m)

Next == \/ \E p \in Payloads : PublishFirst(p)
        \/ \E m \in Messages : Deliver(m) \/ VisibilityTimeout(m) \/ SendFails(m)
        \/ StopWorker \/ StartWorker \/ Crash
        \/ \E k \in DOMAIN dead : \/ ExpireEntry(k)
                                  \/ \E a \in Replayers : FindEntry(a, k)
        \/ \E a \in Replayers : PublishEntry(a) \/ MarkReplayed(a)

Spec == Init /\ [][Next]_vars

\* The dispatch loop polls, the calls it makes go on, and a handler ends.
FairSpec == Spec /\ \A m \in Messages : WF_vars(Deliver(m))

------------------------------------------------------------------------------
(* Properties.                                                             *)

\* Every variable has its type; a message is in one place at a time, and no
\* more calls than the concurrency allows are past their wait.
TypeOK ==
    /\ copies \in [Payloads -> 0..MaxMessages]
    /\ queue \subseteq Messages /\ inflight \subseteq Messages
    /\ queue \cap inflight = {}
    /\ attempts \in [Messages -> 0..MaxAttempts]
    /\ calls \in [Messages -> [Stages -> Nat]]
    /\ Active <= Concurrency
    /\ running \in BOOLEAN
    /\ \A k \in DOMAIN dead : dead[k] \in [payload : Payloads,
                                          status : {"pending", "replayed", "expired"}]
    /\ entry \in [Replayers -> 0..Len(dead)]
    /\ published \in [Replayers -> BOOLEAN]
    /\ effects \in [Payloads -> Nat]
    /\ \A s \in {timedOut, uncertain, reread, lost} : s \subseteq Payloads
    /\ faults \in Nat

InMemory(p) == \E m \in queue \cup inflight : m[1] = p
InTable(p, status) == \E k \in DOMAIN dead : dead[k].payload = p /\ dead[k].status = status

\* What was published has been handled, or is in the memory, or is in the table
\* as not replayed: a failed send, a timeout, a late ack or a replay loses
\* nothing, only the death of the process does.
NeverLost ==
    \A p \in Payloads : copies[p] > 0 =>
        \/ effects[p] > 0 \/ InMemory(p)
        \/ InTable(p, "pending") \/ InTable(p, "expired")
        \/ p \in lost

\* A payload is handled twice, or handled and waiting in the table, only after
\* a visibility timeout, a send of unknown outcome, or an entry whose replay
\* another one overlapped or a crash cut short.
DuplicatesHaveACause ==
    \A p \in Payloads \ (timedOut \cup uncertain \cup reread) :
        /\ effects[p] <= 1
        /\ effects[p] = 1 /\ InTable(p, "pending") =>
              \E a \in Replayers : published[a] /\ dead[entry[a]].payload = p

\* Every payload in the memory, a replayed one too, is handled or reaches the
\* table in the end, unless the worker is stopped or the process dies: no ack,
\* nack or timeout of one call leaves another one's message behind.
EverySettles ==
    \A p \in Payloads : InMemory(p) ~>
        \/ effects[p] > 0 \/ InTable(p, "pending") \/ InTable(p, "expired")
        \/ ~running \/ p \in lost

==============================================================================
