----------------------------- MODULE OutboxRelay -----------------------------
(***************************************************************************)
(* The outbox relay: OutboxPublisher.processBatch, which reads a batch of  *)
(* pending messages and then publishes and marks them one by one, and the  *)
(* other writers of the same rows: the cleanup worker and the operator's   *)
(* recovery.  Nothing claims a message, so two batches may overlap: the    *)
(* worker's loop and POST /api/workers/outbox call the same processBatch,  *)
(* and every instance of the service runs its own loop.                    *)
(*                                                                         *)
(* Each statement and each publish is one step.  Messages are numbered in  *)
(* the order of createdAt; a transaction that commits late adds a message  *)
(* in front of others.                                                     *)
(***************************************************************************)
EXTENDS Naturals, FiniteSets

CONSTANTS
    Messages,      \* the outbox messages, numbered by createdAt
    Publishers,    \* whoever runs processBatch
    Loops,         \* the publishers that poll for ever: the workers' loops
    BatchSize,     \* config outbox.batchSize of each publisher's process
    MaxRetries,    \* config outbox.maxRetries
    MaxFaults,     \* bound: transient failures and crashes in a behaviour
    MaxResets      \* bound: runs of the operator's recovery

ASSUME RelayAssumption ==
    /\ Messages \subseteq Nat /\ IsFiniteSet(Messages)
    /\ IsFiniteSet(Publishers) /\ Loops \subseteq Publishers
    /\ BatchSize \in [Publishers -> Nat \ {0}] /\ MaxRetries \in Nat \ {0}
    /\ MaxFaults \in Nat /\ MaxResets \in Nat

VARIABLES
    row,        \* each message's row: status and retryCount
    batch,      \* the messages a publisher has left of the batch it read
    pc,         \* what each publisher does next
    existing,   \* the retryCount that markFailed read
    stuck,      \* the messages recovery found and has yet to reset
    poison,     \* the messages whose publish always throws
    delivered,  \* history: how often the event bus accepted each message
    failures,   \* history: how often each message's publish or mark threw
    shared,     \* history: the messages two batches held at once
    resets,     \* history: how often recovery has run
    faults      \* history: the transient failures so far

relay == <<batch, pc, existing>>
history == <<delivered, failures>>
vars == <<row, batch, pc, existing, stuck, poison, delivered, failures, shared, resets, faults>>

Init ==
    /\ row = [m \in Messages |-> [status |-> "absent", retries |-> 0]]
    /\ batch = [p \in Publishers |-> {}]
    /\ pc = [p \in Publishers |-> "poll"]
    /\ existing = [p \in Publishers |-> 0]
    /\ stuck = {}
    /\ poison \in SUBSET Messages
    /\ delivered = [m \in Messages |-> 0]
    /\ failures = [m \in Messages |-> 0]
    /\ shared = {}
    /\ resets = 0
    /\ faults = 0

------------------------------------------------------------------------------

\* A command commits: its message appears, pending.
Arrive(m) ==
    /\ row[m].status = "absent"
    /\ row' = [row EXCEPT ![m].status = "pending"]
    /\ UNCHANGED <<relay, stuck, poison, history, shared, resets, faults>>

\* BUG (mutant): a message that has failed once is not polled again.
Pending_FirstTryOnly == {m \in Messages : row[m] = [status |-> "pending", retries |-> 0]}

Pending == {m \in Messages : row[m].status = "pending"}

\* getPending: the oldest pending messages.
Oldest(limit) == {m \in Pending : Cardinality({n \in Pending : n < m}) < limit}

Goto(p, label) == pc' = [pc EXCEPT ![p] = label]

\* BUG (mutant): the batch is marked published as it is read.
Poll_Claims(p) ==
    /\ pc[p] = "poll" /\ Oldest(BatchSize[p]) # {}
    /\ batch' = [batch EXCEPT ![p] = Oldest(BatchSize[p])]
    /\ row' = [m \in Messages |-> IF m \in Oldest(BatchSize[p]) THEN [row[m] EXCEPT !.status = "published"]
                                  ELSE row[m]]
    /\ Goto(p, "publish")
    /\ UNCHANGED <<existing, stuck, poison, history, shared, resets, faults>>

\* processBatch reads a batch; it is not told what other publishers hold.
Poll(p) ==
    /\ pc[p] = "poll" /\ Oldest(BatchSize[p]) # {}
    /\ batch' = [batch EXCEPT ![p] = Oldest(BatchSize[p])]
    /\ shared' = shared \cup {m \in Oldest(BatchSize[p]) : \E q \in Publishers \ {p} : m \in batch[q]}
    /\ Goto(p, "publish")
    /\ UNCHANGED <<row, existing, stuck, poison, history, resets, faults>>

\* The message p's loop is at: the oldest left.
At(p, m) == m \in batch[p] /\ \A n \in batch[p] : m <= n

\* The loop goes on to the next message, or processBatch returns.
DoneWith(p, m) ==
    /\ batch' = [batch EXCEPT ![p] = @ \ {m}]
    /\ Goto(p, IF batch[p] = {m} THEN "poll" ELSE "publish")

Fault == /\ faults < MaxFaults
         /\ faults' = faults + 1

\* The catch: the message counts one more failure, markFailed is called.
Catch(p, m) ==
    /\ Goto(p, "readFailed")
    /\ failures' = [failures EXCEPT ![m] = @ + 1]

Publish(p, m) ==
    /\ pc[p] = "publish" /\ At(p, m) /\ m \notin poison
    /\ delivered' = [delivered EXCEPT ![m] = @ + 1]
    /\ Goto(p, "mark")
    /\ UNCHANGED <<row, batch, existing, stuck, poison, failures, shared, resets, faults>>

\* parseMessage or the event bus throws: for a poison message it always does,
\* for another one it is a passing failure.
PublishThrows(p, m) ==
    /\ pc[p] = "publish" /\ At(p, m)
    /\ IF m \in poison THEN UNCHANGED faults ELSE Fault
    /\ Catch(p, m)
    /\ UNCHANGED <<row, batch, existing, stuck, poison, delivered, shared, resets>>

SetStatus(m, status) == row' = [row EXCEPT ![m].status = status]

\* BUG (mutant): markPublished only sets publishedAt.
MarkPublished_NoStatus(p, m) ==
    /\ pc[p] = "mark" /\ At(p, m)
    /\ DoneWith(p, m)
    /\ UNCHANGED <<row, existing, stuck, poison, history, shared, resets, faults>>

\* markPublished, whatever the row says by now.
MarkPublished(p, m) ==
    /\ pc[p] = "mark" /\ At(p, m)
    /\ SetStatus(m, "published")
    /\ DoneWith(p, m)
    /\ UNCHANGED <<existing, stuck, poison, history, shared, resets, faults>>

\* markPublished throws: the statement failed, or its reply was lost.  The
\* same catch treats it as a failure to publish.
MarkThrows(p, m) ==
    /\ pc[p] = "mark" /\ At(p, m)
    /\ SetStatus(m, "published") \/ UNCHANGED row
    /\ Fault
    /\ Catch(p, m)
    /\ UNCHANGED <<batch, existing, stuck, poison, delivered, shared, resets>>

\* markFailed reads the row ...
FindExisting(p, m) ==
    /\ pc[p] = "readFailed" /\ At(p, m)
    /\ existing' = [existing EXCEPT ![p] = row[m].retries]
    /\ Goto(p, "writeFailed")
    /\ UNCHANGED <<row, batch, stuck, poison, history, shared, resets, faults>>

\* BUG (mutant): the comparison is off by one: one failure too few.
StatusAfter_TooEarly(retries) == IF retries + 1 >= MaxRetries THEN "failed" ELSE "pending"

\* BUG (mutant): the comparison is off by one: one failure too many.
StatusAfter_TooLate(retries) == IF retries > MaxRetries THEN "failed" ELSE "pending"

StatusAfter(retries) == IF retries >= MaxRetries THEN "failed" ELSE "pending"

\* ... and writes retryCount and status from what it read.
MarkFailed(p, m) ==
    /\ pc[p] = "writeFailed" /\ At(p, m)
    /\ row' = [row EXCEPT ![m] = [status |-> StatusAfter(existing[p] + 1),
                                  retries |-> existing[p] + 1]]
    /\ DoneWith(p, m)
    /\ UNCHANGED <<existing, stuck, poison, history, shared, resets, faults>>

\* p's process dies, or markFailed itself throws: the rest of the batch is
\* dropped, and a loop polls again.
Abandon(p) ==
    /\ pc[p] # "poll"
    /\ Fault
    /\ batch' = [batch EXCEPT ![p] = {}]
    /\ Goto(p, "poll")
    /\ UNCHANGED <<row, existing, stuck, poison, history, shared, resets>>

\* BUG (mutant): the retention window is ignored.
Purge_Anytime(m) ==
    /\ row[m].status \in {"published", "failed"}
    /\ SetStatus(m, "purged")
    /\ UNCHANGED <<relay, stuck, poison, history, shared, resets, faults>>

\* The cleanup worker deletes settled rows.  They are 7 or 30 days old, a batch
\* or a recovery lasts seconds: nobody is at the row any more.
Purge(m) ==
    /\ row[m].status \in {"published", "failed"}
    /\ \A p \in Publishers : m \notin batch[p]
    /\ m \notin stuck
    /\ SetStatus(m, "purged")
    /\ UNCHANGED <<relay, stuck, poison, history, shared, resets, faults>>

\* Recovery finds the stale rows that have been retried; which ones are stale
\* is up to the clock.
FindStuck ==
    /\ resets < MaxResets /\ stuck = {}
    /\ \E found \in SUBSET {m \in Pending : row[m].retries > 0} :
          found # {} /\ stuck' = found
    /\ resets' = resets + 1
    /\ UNCHANGED <<row, relay, poison, history, shared, faults>>

\* ... and resets their retryCount by eventId, whatever they are by now.
ResetStuck ==
    /\ stuck # {}
    /\ row' = [m \in Messages |-> IF m \in stuck THEN [row[m] EXCEPT !.retries = 0] ELSE row[m]]
    /\ stuck' = {}
    /\ UNCHANGED <<relay, poison, history, shared, resets, faults>>

\* A batch in flight goes on.
Continue(p) == \E m \in Messages : \/ Publish(p, m) \/ PublishThrows(p, m)
                                   \/ MarkPublished(p, m) \/ MarkThrows(p, m)
                                   \/ FindExisting(p, m) \/ MarkFailed(p, m)

Next == \/ \E m \in Messages : Arrive(m) \/ Purge(m)
        \/ \E p \in Publishers : Poll(p) \/ Continue(p) \/ Abandon(p)
        \/ FindStuck \/ ResetStuck

Spec == Init /\ [][Next]_vars

\* What JavaScript has started goes on, and a worker's loop keeps polling;
\* nobody has to call the route, and no failure has to happen.
FairSpec == /\ Spec
            /\ \A p \in Publishers : WF_vars(Continue(p))
            /\ \A p \in Loops : WF_vars(Poll(p))

------------------------------------------------------------------------------
(* Properties.                                                             *)

Labels == {"poll", "publish", "mark", "readFailed", "writeFailed"}
RowStates == [status : {"absent", "pending", "published", "failed", "purged"}, retries : Nat]

\* Every variable has its type; a publisher holds messages exactly while a
\* batch is in flight, and the rows it is about to update are there.
TypeOK ==
    /\ row \in [Messages -> RowStates]
    /\ batch \in [Publishers -> SUBSET Messages]
    /\ pc \in [Publishers -> Labels]
    /\ existing \in [Publishers -> Nat]
    /\ stuck \subseteq Messages /\ shared \subseteq Messages /\ poison \subseteq Messages
    /\ delivered \in [Messages -> Nat] /\ failures \in [Messages -> Nat]
    /\ resets \in Nat /\ faults \in Nat
    /\ \A p \in Publishers :
          /\ batch[p] = {} <=> pc[p] = "poll"
          /\ \A m \in batch[p] : row[m].status \notin {"absent", "purged"}

\* "A message is only marked published after the EventBus publish call resolves"
\* (workers.ts:35), with any number of publishers, faults and resets.
PublishedWasDelivered == \A m \in Messages : row[m].status = "published" => delivered[m] > 0

\* A message is given up only after MaxRetries failures of its own, however
\* the read-modify-write of its retryCount interleaves.
GaveUpAfterRetries == \A m \in Messages : row[m].status = "failed" => failures[m] >= MaxRetries

\* At-least-once delivery exceeds once only for a cause: a message that one
\* batch at a time held is delivered once, plus at most once for each failure
\* or crash.  Only overlapping batches duplicate without a fault.
DuplicatesHaveACause ==
    \A m \in Messages : delivered[m] > 1 + faults => m \in shared

\* A message that one batch at a time held stays within its retry budget: no
\* interleaving with recovery buys it more failures than MaxRetries per reset.
RetryBudget ==
    \A m \in Messages \ shared : failures[m] <= MaxRetries * (1 + resets) + faults

\* Every message is published or given up in the end, for good: not held up
\* behind a poison message at the head of the queue, not stranded by a crash,
\* not set back to pending without end by publishers that overwrite each other.
EverySettles == \A m \in Messages : <>[](row[m].status # "pending")

==============================================================================
