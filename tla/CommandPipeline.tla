--------------------------- MODULE CommandPipeline ---------------------------
(***************************************************************************)
(* The write side: the command bus middlewares (idempotency, transaction), *)
(* the organization membership handlers, which load and save TWO event     *)
(* sourced aggregates in one PostgreSQL transaction, UpdateProfile, which  *)
(* stands for the handlers that save one, and the event store, snapshot    *)
(* store and outbox tables they write.                                     *)
(*                                                                         *)
(* Concurrent requests are processes.  Each SQL statement is one step, at  *)
(* READ COMMITTED (Prisma's default on PostgreSQL): it sees the committed  *)
(* rows and the transaction's own.  A statement that fails aborts its      *)
(* transaction; what JavaScript does between two statements is atomic.     *)
(***************************************************************************)
EXTENDS Naturals, Sequences, FiniteSets

CONSTANTS
    Orgs, Users,     \* aggregate ids; each names one event stream
    Requests,        \* the requests in flight, one command each
    Keys, NoKey,     \* idempotency keys; NoKey: the command carries none
    NoPeer,          \* the peer of an event that is not about membership
    NoRequest,       \* the origin of the events that were there at the start
    SnapshotEvery,   \* config eventStore.snapshotEvery
    RecordsExpire    \* may an idempotency record outlive its ttl in this run?

Streams == Orgs \cup Users
Kinds == {"add", "remove", "join", "update"}
Commands == [kind : Kinds, org : Orgs, user : Users]
Ops == {"create", "join", "leave", "touch"}
Events == [stream : Streams, version : Nat, op : Ops,
           peer : Streams \cup {NoPeer}, req : Requests \cup {NoRequest}]
Snapshots == [stream : Streams, version : Nat, peers : SUBSET Streams]
Aggregates == [version : Nat, peers : SUBSET Streams]

ASSUME PipelineAssumption ==
    /\ Orgs \cap Users = {}
    /\ NoKey \notin Keys
    /\ NoPeer \notin Streams
    /\ NoRequest \notin Requests
    /\ SnapshotEvery \in Nat \ {0}
    /\ RecordsExpire \in BOOLEAN

VARIABLES
    events,    \* committed EventRecord rows
    outbox,    \* ids of the committed OutboxMessage rows
    snaps,     \* committed Snapshot rows
    recorded,  \* keys with a live IdempotencyRecord
    tx,        \* each request's transaction: status and uncommitted rows
    cmd, key,  \* each request's command and idempotency key
    pc, turn,  \* where it stands in the pipeline, and in its handler's script
    agg,       \* the aggregates it holds in memory
    reply      \* the Result so far; what the caller got once pc is "done"

db == <<events, outbox, snaps>>
vars == <<events, outbox, snaps, recorded, tx, cmd, key, pc, turn, agg, reply>>

------------------------------------------------------------------------------
(* The handlers, as the order in which they load and save their streams.   *)

Load(s) == [do |-> "load", stream |-> s]
Save(s) == [do |-> "save", stream |-> s]

\* AddMember looks up a role and JoinOrganization an organization in a repository
\* that di/composition-root.ts:554,556 does not pass. As wired they throw before
\* their first save, which is SqlError here; the scripts are the whole handlers.
Script(c) ==
    [add    |-> <<Load(c.org), Load(c.user), Save(c.org), Save(c.user)>>,
     remove |-> <<Load(c.org), Save(c.org), Load(c.user), Save(c.user)>>,
     join   |-> <<Load(c.user), Load(c.org), Save(c.user), Save(c.org)>>,
     update |-> <<Load(c.user), Save(c.user)>>][c.kind]

Target(r) == Script(cmd[r])[turn[r]].stream
AtLastStep(r) == turn[r] = Len(Script(cmd[r]))

\* The event each kind of command raises on the streams it saves.
Op(c) == [add |-> "join", join |-> "join", remove |-> "leave", update |-> "touch"][c.kind]

Peer(c, s) == IF c.kind = "update" THEN NoPeer
              ELSE IF s = c.org THEN c.user ELSE c.org

\* BUG (mutant): removeMember and leaveOrganization do not check membership.
Allowed_AnyLeave(c, s, peers) == Op(c) = "join" => Peer(c, s) \notin peers

\* addMember and joinOrganization throw ALREADY_MEMBER, removeMember and
\* leaveOrganization throw NOT_A_MEMBER.
Allowed(c, s, peers) == /\ Op(c) = "join" => Peer(c, s) \notin peers
                        /\ Op(c) = "leave" => Peer(c, s) \in peers

\* The peers a stream lists once the command's event is applied to it.
PeersAfter(c, s, peers) ==
    (peers \ {Peer(c, s)}) \cup (IF Op(c) = "join" THEN {Peer(c, s)} ELSE {})

------------------------------------------------------------------------------
(* What a statement of r's transaction sees, and an aggregate's state.     *)

Rows(r, s) == {e \in events \cup tx[r].events : e.stream = s}

\* loadVersion: the highest version among the rows, 0 when there is none.
LatestIs(rows, v) == /\ v \in {e.version : e \in rows} \cup {0}
                     /\ \A e \in rows : e.version <= v

\* The peers a stream's state lists: replaying rows, in version order, over
\* the peers of a snapshot.
Replay(peers, rows) ==
    {p \in Streams :
        LET mine == {e \in rows : e.peer = p} IN
        IF mine = {} THEN p \in peers
        ELSE \E e \in mine : /\ e.op = "join"
                             /\ \A f \in mine : f.version <= e.version}

Empty == [version |-> 0, peers |-> {}]

\* Where getByIdWithSnapshot starts from: the newest snapshot, if any.
Bases(r, s) ==
    LET mine == {n \in snaps \cup tx[r].snaps : n.stream = s} IN
    IF mine = {} THEN {Empty}
    ELSE {n \in mine : \A m \in mine : m.version <= n.version}

EventId(e) == <<e.req, e.stream>>
NoTx == [status |-> "none", events |-> {}, outbox |-> {}, snaps |-> {}]
RolledBack == [NoTx EXCEPT !.status = "aborted"]

Init ==
    /\ events = [stream : Streams, version : {1}, op : {"create"},
                 peer : {NoPeer}, req : {NoRequest}]
    /\ outbox = {EventId(e) : e \in events}
    /\ snaps = {}
    /\ recorded = {}
    /\ tx = [r \in Requests |-> NoTx]
    /\ cmd \in [Requests -> Commands]
    /\ key \in [Requests -> Keys \cup {NoKey}]
    /\ pc = [r \in Requests |-> "lookup"]
    /\ turn = [r \in Requests |-> 1]
    /\ agg = [r \in Requests |-> [s \in Streams |-> Empty]]
    /\ reply = [r \in Requests |-> "none"]

------------------------------------------------------------------------------
(* The middlewares before the handler.                                     *)

Goto(r, label) == pc' = [pc EXCEPT ![r] = label]
Answer(r, result) == reply' = [reply EXCEPT ![r] = result]

\* The key has a live record: its result is returned, the handler never runs.
ReplayRecorded(r) ==
    /\ pc[r] = "lookup" /\ key[r] \in recorded
    /\ Goto(r, "done") /\ Answer(r, "replayed")
    /\ UNCHANGED <<db, recorded, tx, cmd, key, turn, agg>>

Proceed(r) ==
    /\ pc[r] = "lookup" /\ key[r] \notin recorded
    /\ Goto(r, "begin")
    /\ UNCHANGED <<db, recorded, tx, cmd, key, turn, agg, reply>>

Begin(r) ==
    /\ pc[r] = "begin"
    /\ tx' = [tx EXCEPT ![r].status = "open"]
    /\ Goto(r, Script(cmd[r])[turn[r]].do)
    /\ UNCHANGED <<db, recorded, cmd, key, turn, agg, reply>>

------------------------------------------------------------------------------
(* The handler's statements.                                               *)

\* The next step of the script, or the handler's return of Result.ok.
Advance(r) ==
    IF AtLastStep(r)
    THEN Goto(r, "commit") /\ Answer(r, "ok") /\ UNCHANGED turn
    ELSE /\ turn' = [turn EXCEPT ![r] = @ + 1]
         /\ Goto(r, Script(cmd[r])[turn[r] + 1].do)
         /\ UNCHANGED reply

\* The handler's return of Result.fail: the transaction stays as it is.
Fail(r) == Goto(r, "commit") /\ Answer(r, "fail") /\ UNCHANGED turn

\* getByIdWithSnapshot: the newest snapshot, then the rows after it.
LoadAggregate(r) ==
    /\ pc[r] = "load"
    /\ \E base \in Bases(r, Target(r)) :
         LET rows == {e \in Rows(r, Target(r)) : e.version > base.version} IN
         \E v \in {e.version : e \in rows} \cup {base.version} :
            /\ \A e \in rows : e.version <= v
            /\ agg' = [agg EXCEPT ![r][Target(r)] =
                  [version |-> v, peers |-> Replay(base.peers, rows)]]
    /\ Advance(r)
    /\ UNCHANGED <<db, recorded, tx, cmd, key>>

\* The first aggregate's method throws: nothing was written, Result.fail.
RejectCommand(r) ==
    /\ pc[r] = "save" /\ ~AtLastStep(r)
    /\ ~Allowed(cmd[r], Target(r), agg[r][Target(r)].peers)
    /\ Fail(r)
    /\ UNCHANGED <<db, recorded, tx, cmd, key, agg>>

\* The mirror aggregate's method throws: the catch swallows it, Result.ok.
SkipMirror(r) ==
    /\ pc[r] = "save" /\ AtLastStep(r)
    /\ ~Allowed(cmd[r], Target(r), agg[r][Target(r)].peers)
    /\ Advance(r)
    /\ UNCHANGED <<db, recorded, tx, cmd, key, agg>>

\* BUG (mutant): the outer catch swallows the mirror's save error as well.
StaleVersion_Swallowed(r) ==
    /\ pc[r] = "save"
    /\ Allowed(cmd[r], Target(r), agg[r][Target(r)].peers)
    /\ ~LatestIs(Rows(r, Target(r)), agg[r][Target(r)].version)
    /\ IF AtLastStep(r) THEN Advance(r) ELSE Fail(r)
    /\ UNCHANGED <<db, recorded, tx, cmd, key, agg>>

\* BUG (mutant): the handler retries the save with the aggregate it has.
StaleVersion_RetriesSave(r) ==
    /\ pc[r] = "save"
    /\ Allowed(cmd[r], Target(r), agg[r][Target(r)].peers)
    /\ ~LatestIs(Rows(r, Target(r)), agg[r][Target(r)].version)
    /\ UNCHANGED vars

\* appendMany's loadVersion differs from the version the aggregate was loaded
\* at: ConcurrencyError before any write, so the transaction is not aborted.
StaleVersion(r) ==
    /\ pc[r] = "save"
    /\ Allowed(cmd[r], Target(r), agg[r][Target(r)].peers)
    /\ ~LatestIs(Rows(r, Target(r)), agg[r][Target(r)].version)
    /\ Fail(r)
    /\ UNCHANGED <<db, recorded, tx, cmd, key, agg>>

\* raiseEvent applies the event in memory; loadVersion agrees.
CheckVersion(r) ==
    LET s == Target(r) IN
    /\ pc[r] = "save"
    /\ Allowed(cmd[r], s, agg[r][s].peers)
    /\ LatestIs(Rows(r, s), agg[r][s].version)
    /\ agg' = [agg EXCEPT ![r][s] =
          [version |-> @.version + 1, peers |-> PeersAfter(cmd[r], s, @.peers)]]
    /\ Goto(r, "insert")
    /\ UNCHANGED <<db, recorded, tx, cmd, key, turn, reply>>

NewEvent(r) == [stream |-> Target(r), version |-> agg[r][Target(r)].version,
                op |-> Op(cmd[r]), peer |-> Peer(cmd[r], Target(r)), req |-> r]

SameSlot(e, f) == e.stream = f.stream /\ e.version = f.version

\* BUG (mutant): @@unique([streamId, streamVersion]) is missing from the schema.
Taken_NoUniqueIndex(r) == {}

\* The rows visible to r that hold the slot r inserts into.
Taken(r) == {e \in events \cup tx[r].events : SameSlot(e, NewEvent(r))}

\* The transactions whose uncommitted row holds it: PostgreSQL makes r wait.
Holders(r) == {q \in Requests \ {r} : \E e \in tx[q].events : SameSlot(e, NewEvent(r))}

InsertEvent(r) ==
    /\ pc[r] = "insert" /\ Taken(r) = {} /\ Holders(r) = {}
    /\ tx' = [tx EXCEPT ![r].events = @ \cup {NewEvent(r)}]
    /\ Goto(r, "outbox")
    /\ UNCHANGED <<db, recorded, cmd, key, turn, agg, reply>>

Abort(r) == tx' = [tx EXCEPT ![r] = RolledBack]

\* BUG (mutant): P2002 taken for an append that already happened; the handler
\* goes on to its return of Result.ok.
InsertConflict_Swallowed(r) ==
    /\ pc[r] = "insert" /\ Taken(r) # {} /\ Holders(r) = {}
    /\ Abort(r) /\ Goto(r, "commit") /\ Answer(r, "ok") /\ UNCHANGED turn
    /\ UNCHANGED <<db, recorded, cmd, key, agg>>

\* P2002: the transaction is aborted, the ConcurrencyError becomes Result.fail.
InsertConflict(r) ==
    /\ pc[r] = "insert" /\ Taken(r) # {} /\ Holders(r) = {}
    /\ Abort(r) /\ Fail(r)
    /\ UNCHANGED <<db, recorded, cmd, key, agg>>

\* BUG (mutant): the snapshot is taken before the new event is applied.
SnapshotOf_Before(r) ==
    [stream |-> Target(r), version |-> agg[r][Target(r)].version,
     peers |-> agg[r][Target(r)].peers \ {Peer(cmd[r], Target(r))}]

SnapshotOf(r) == [stream |-> Target(r), version |-> agg[r][Target(r)].version,
                  peers |-> agg[r][Target(r)].peers]

\* BUG (mutant): the outbox is written through the global client, outside the
\* transaction.
WriteOutbox_OutsideTx(r) ==
    /\ pc[r] = "outbox"
    /\ outbox' = outbox \cup {<<r, Target(r)>>}
    /\ Advance(r)
    /\ UNCHANGED <<events, snaps, tx, recorded, cmd, key, agg>>

\* outbox.appendMany, then the snapshot when the version is a multiple of
\* SnapshotEvery: the rest of the repository's save.
WriteOutbox(r) ==
    /\ pc[r] = "outbox"
    /\ tx' = [tx EXCEPT ![r].outbox = @ \cup {<<r, Target(r)>>},
                        ![r].snaps = IF agg[r][Target(r)].version % SnapshotEvery = 0
                                     THEN @ \cup {SnapshotOf(r)} ELSE @]
    /\ Advance(r)
    /\ UNCHANGED <<db, recorded, cmd, key, agg>>

------------------------------------------------------------------------------
(* Failures of a statement, and the end of the transaction.                *)

\* A statement, the COMMIT included, fails or the transaction times out: it is
\* rolled back and the caller gets an error. So does a handler that throws for
\* want of a repository (Script).
SqlError(r) ==
    /\ tx[r].status = "open"
    /\ Abort(r) /\ Fail(r)
    /\ UNCHANGED <<db, recorded, cmd, key, agg>>

WaitsFor(q, p) == pc[q] = "insert" /\ p \in Holders(q)

\* r is on a cycle of transactions that wait for one another's rows.
Deadlocked(r) ==
    \E cycle \in SUBSET Requests :
        /\ r \in cycle
        /\ \A q \in cycle : /\ \E p \in cycle : WaitsFor(q, p)
                            /\ \E p \in cycle : WaitsFor(p, q)

\* PostgreSQL's deadlock detector picks a victim: its INSERT fails.
DeadlockAbort(r) ==
    /\ Deadlocked(r)
    /\ Abort(r) /\ Fail(r)
    /\ UNCHANGED <<db, recorded, cmd, key, agg>>

\* BUG (mutant): the middleware does not look whether there is a key.
AfterCommit_NoKeyCheck(r) == IF reply[r] = "ok" THEN "record" ELSE "done"

\* BUG (mutant): the result is recorded under the key whatever it is.
AfterCommit_RecordAll(r) == IF key[r] \in Keys THEN "record" ELSE "done"

AfterCommit(r) == IF reply[r] = "ok" /\ key[r] \in Keys THEN "record" ELSE "done"

\* $transaction commits when its callback returns, and the callback returns
\* failed Results as well as good ones; COMMIT of an aborted transaction is
\* a rollback.
Commit(r) ==
    /\ pc[r] = "commit"
    /\ events' = events \cup tx[r].events
    /\ outbox' = outbox \cup tx[r].outbox
    /\ snaps' = snaps \cup tx[r].snaps
    /\ tx' = [tx EXCEPT ![r] = NoTx]
    /\ Goto(r, AfterCommit(r))
    /\ UNCHANGED <<recorded, cmd, key, turn, agg, reply>>

\* Back in the idempotency middleware, outside the transaction.
Record(r) ==
    /\ pc[r] = "record"
    /\ recorded' = recorded \cup {key[r]}
    /\ Goto(r, "done")
    /\ UNCHANGED <<db, tx, cmd, key, turn, agg, reply>>

\* store.set throws: the caller gets an error for a command that committed.
RecordError(r) ==
    /\ pc[r] = "record"
    /\ Goto(r, "done") /\ Answer(r, "fail")
    /\ UNCHANGED <<db, recorded, tx, cmd, key, turn, agg>>

\* The record's ttl passes: get or purgeExpired deletes it.
Expire(k) ==
    /\ RecordsExpire /\ k \in recorded
    /\ recorded' = recorded \ {k}
    /\ UNCHANGED <<db, tx, cmd, key, pc, turn, agg, reply>>

\* The process that serves r dies: PostgreSQL rolls back, nobody answers.
Crash(r) ==
    /\ pc[r] # "done"
    /\ tx' = [tx EXCEPT ![r] = NoTx]
    /\ Goto(r, "done") /\ Answer(r, "none")
    /\ UNCHANGED <<db, recorded, cmd, key, turn, agg>>

\* What r's own code does next; what happens to it; the end of the workload.
Step(r) ==
    \/ ReplayRecorded(r) \/ Proceed(r) \/ Begin(r) \/ LoadAggregate(r)
    \/ RejectCommand(r) \/ SkipMirror(r) \/ StaleVersion(r) \/ CheckVersion(r)
    \/ InsertEvent(r) \/ InsertConflict(r) \/ WriteOutbox(r)
    \/ Commit(r) \/ Record(r) \/ RecordError(r)

Finished == /\ \A r \in Requests : pc[r] = "done"
            /\ UNCHANGED vars

Next == \/ \E r \in Requests : Step(r) \/ SqlError(r) \/ DeadlockAbort(r) \/ Crash(r)
        \/ \E k \in Keys : Expire(k)
        \/ Finished

Spec == Init /\ [][Next]_vars

\* A request that can run runs, and PostgreSQL finds every deadlock.
FairSpec == Spec /\ \A r \in Requests : WF_vars(Step(r) \/ DeadlockAbort(r))

------------------------------------------------------------------------------
(* Properties.                                                             *)

Labels == {"lookup", "begin", "load", "save", "insert", "outbox", "commit",
           "record", "done"}
InTx == {"load", "save", "insert", "outbox", "commit"}
TxStates == [status : {"none", "open", "aborted"}, events : SUBSET Events,
             outbox : SUBSET (Requests \X Streams), snaps : SUBSET Snapshots]

Coherent(r) ==
    /\ turn[r] <= Len(Script(cmd[r]))
    /\ (tx[r].status # "none") <=> (pc[r] \in InTx)
    /\ tx[r].status = "aborted" => tx[r] = RolledBack /\ pc[r] = "commit"
    /\ pc[r] = "record" => key[r] \in Keys /\ reply[r] = "ok"

\* Every variable has its type, and a request has a transaction exactly while
\* its handler runs: none leaks past an answer or a crash.
TypeOK ==
    /\ events \subseteq Events
    /\ outbox \subseteq (Requests \cup {NoRequest}) \X Streams
    /\ snaps \subseteq Snapshots
    /\ recorded \subseteq Keys
    /\ tx \in [Requests -> TxStates]
    /\ cmd \in [Requests -> Commands]
    /\ key \in [Requests -> Keys \cup {NoKey}]
    /\ pc \in [Requests -> Labels]
    /\ turn \in [Requests -> 1 .. 4]
    /\ agg \in [Requests -> [Streams -> Aggregates]]
    /\ reply \in [Requests -> {"none", "ok", "fail", "replayed"}]
    /\ \A r \in Requests : Coherent(r)

\* Every stream is versions 1, 2, 3 ... with no gap and no version taken twice,
\* whatever interleaving of writers, conflicts, deadlocks and crashes: what
\* rehydration, snapshots and the version check all take for granted.
StreamsContiguous ==
    /\ \A e, f \in events : SameSlot(e, f) => e = f
    /\ \A e \in events :
          e.version = 1 \/ \E f \in events : /\ f.stream = e.stream
                                             /\ f.version + 1 = e.version

\* "Either both succeed or both fail" (unit-of-work.ts:9): the committed outbox
\* messages are exactly the committed events', none lost and none orphaned.
EventsAreOutboxed == outbox = {EventId(e) : e \in events}

Members(s) == Replay({}, {e \in events : e.stream = s})

\* A stream never records joining a peer it already lists or leaving one it
\* does not: the guard was evaluated on an aggregate loaded statements earlier,
\* and the version check must have kept that state current.
GuardsHold ==
    \A e \in events : e.op \in {"join", "leave"} =>
        LET before == {f \in events : f.stream = e.stream /\ f.version < e.version}
        IN  (e.op = "join") <=> (e.peer \notin Replay({}, before))

\* A snapshot is the state its stream had at the snapshot's version, so a load
\* that starts from it restores what a full replay would.
SnapshotsFaithful ==
    \A n \in snaps :
        n.peers = Replay({}, {e \in events : e.stream = n.stream /\ e.version <= n.version})

Committed(r, s) == \E e \in events : e.req = r /\ e.stream = s
Primary(c) == IF c.kind \in {"add", "remove"} THEN c.org ELSE c.user

\* A caller who got Result.ok finds the command's event in the log, although
\* the Result is decided before COMMIT and save errors are caught on the way.
OkIsDurable ==
    \A r \in Requests :
        pc[r] \in {"record", "done"} /\ reply[r] = "ok" => Committed(r, Primary(cmd[r]))

\* A key is only recorded for a command whose events are committed: a caller
\* who gets the replayed result can rely on it.
RecordedIsCommitted ==
    \A k \in recorded : \E r \in Requests : key[r] = k /\ Committed(r, Primary(cmd[r]))

Partial(r) == reply[r] = "fail"
              /\ Committed(r, cmd[r].org) # Committed(r, cmd[r].user)

\* The two sides of a membership agree, unless a command on that pair reported
\* failure after its first aggregate was saved (see FailedCommandLeavesNoEvents).
MirrorUnlessPartial ==
    \A o \in Orgs, u \in Users :
        \/ u \in Members(o) <=> o \in Members(u)
        \/ \E r \in Requests : cmd[r].org = o /\ cmd[r].user = u /\ Partial(r)

\* transaction-pipeline.ts:9, "If the handler returns a failure Result, the
\* transaction rolls back": a failed answer means none of the command's events
\* is in the log.  The code does not do this; the run has no keys, so that the
\* failure is the handler's and not RecordError's.
FailedCommandLeavesNoEvents ==
    \A r \in Requests : pc[r] = "done" /\ reply[r] = "fail" => \A s \in Streams : ~Committed(r, s)

\* idempotency-pipeline.ts:2, "deduplicates command execution by key": no two
\* requests with one key are both executed to Result.ok while the record of the
\* first is live.  The code does not do this.
KeyExecutedOnce ==
    \A q, r \in Requests :
        q # r /\ key[q] = key[r] /\ key[q] \in Keys
            => ~(pc[q] = "done" /\ reply[q] = "ok" /\ pc[r] = "done" /\ reply[r] = "ok")

\* Every request is answered: no wait for a row, conflict or deadlock lasts.
EveryRequestAnswered == \A r \in Requests : <>(pc[r] = "done")

\* What the pipeline promises its readers (the outbox relay, the projections):
\* an append-only log that grows by one whole command at a time.
EventLog == INSTANCE EventLog WITH log <- events, announced <- outbox

\* The pipeline implements EventLog: each COMMIT is one atomic append, with its
\* outbox messages, and every other step leaves the log alone.
AppendsAtomically == EventLog!Spec

==============================================================================
