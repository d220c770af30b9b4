----------------------- MODULE CommandPipeline_proofs -----------------------
(***************************************************************************)
(* Proofs about CommandPipeline, for any sets of organizations, users,     *)
(* requests and keys, and any snapshot interval.                           *)
(***************************************************************************)
EXTENDS CommandPipeline, TLAPS

USE PipelineAssumption

(***************************************************************************)
(* The handlers' scripts: what every proof needs to know of them.          *)
(***************************************************************************)

\* A script has one to four steps, each a load or a save of a known stream,
\* and it begins with a load.
LEMMA ScriptSteps ==
    ASSUME NEW c \in Commands
    PROVE  /\ Len(Script(c)) \in 1 .. 4
           /\ \A i \in 1 .. Len(Script(c)) : /\ Script(c)[i].do \in {"load", "save"}
                                             /\ Script(c)[i].stream \in Streams
           /\ Script(c)[1].do = "load"
  <1>1. c.kind \in Kinds /\ c.org \in Streams /\ c.user \in Streams
    BY DEF Commands, Streams
  <1>2. CASE c.kind = "add"
    BY <1>1, <1>2 DEF Script, Load, Save
  <1>3. CASE c.kind = "remove"
    BY <1>1, <1>3 DEF Script, Load, Save
  <1>4. CASE c.kind = "join"
    BY <1>1, <1>4 DEF Script, Load, Save
  <1>5. CASE c.kind = "update"
    BY <1>1, <1>5 DEF Script, Load, Save
  <1>6. QED
    BY <1>1, <1>2, <1>3, <1>4, <1>5 DEF Kinds

\* No script saves the same stream twice: a transaction writes at most one row
\* to a stream.
LEMMA ScriptSavesOnce ==
    ASSUME NEW c \in Commands,
           NEW i \in 1 .. Len(Script(c)), NEW j \in 1 .. Len(Script(c)),
           Script(c)[i].do = "save", Script(c)[j].do = "save",
           Script(c)[i].stream = Script(c)[j].stream
    PROVE  i = j
  <1>1. c.kind \in Kinds /\ c.org \in Orgs /\ c.user \in Users /\ c.org # c.user
    BY DEF Commands
  <1>2. CASE c.kind = "add"
    BY <1>1, <1>2 DEF Script, Load, Save
  <1>3. CASE c.kind = "remove"
    BY <1>1, <1>3 DEF Script, Load, Save
  <1>4. CASE c.kind = "join"
    BY <1>1, <1>4 DEF Script, Load, Save
  <1>5. CASE c.kind = "update"
    BY <1>1, <1>5 DEF Script, Load, Save
  <1>6. QED
    BY <1>1, <1>2, <1>3, <1>4, <1>5 DEF Kinds

(***************************************************************************)
(* Type correctness.                                                       *)
(***************************************************************************)

LEMMA TargetType ==
    ASSUME TypeOK, NEW r \in Requests
    PROVE  /\ Target(r) \in Streams
           /\ cmd[r] \in Commands
           /\ turn[r] \in 1 .. Len(Script(cmd[r]))
           /\ Script(cmd[r])[turn[r]].do \in {"load", "save"}
  <1>1. cmd[r] \in Commands /\ turn[r] \in 1 .. 4 /\ turn[r] <= Len(Script(cmd[r]))
    BY DEF TypeOK, Coherent
  <1>2. turn[r] \in 1 .. Len(Script(cmd[r]))
    BY <1>1, ScriptSteps
  <1>3. QED
    BY <1>1, <1>2, ScriptSteps DEF Target

LEMMA EventTypes ==
    ASSUME NEW c \in Commands, NEW s \in Streams
    PROVE  /\ Op(c) \in Ops /\ Peer(c, s) \in Streams \cup {NoPeer}
           /\ Op(c) = "join" => Peer(c, s) \in Streams
  BY DEF Commands, Kinds, Op, Peer, Ops, Streams

\* Advance moves r, and only r, to the next step of its script or to COMMIT.
LEMMA AdvanceEffect ==
    ASSUME TypeOK, NEW r \in Requests, Advance(r)
    PROVE  /\ turn' \in [Requests -> 1 .. 4]
           /\ turn'[r] <= Len(Script(cmd[r]))
           /\ turn'[r] \in {turn[r], turn[r] + 1}
           /\ pc' \in [Requests -> Labels]
           /\ \/ pc'[r] \in {"load", "save"} /\ pc'[r] = Script(cmd[r])[turn'[r]].do
                 /\ turn'[r] = turn[r] + 1
              \/ pc'[r] = "commit" /\ turn'[r] = turn[r]
           /\ reply' \in [Requests -> {"none", "ok", "fail", "replayed"}]
           /\ \A q \in Requests \ {r} :
                 turn'[q] = turn[q] /\ pc'[q] = pc[q] /\ reply'[q] = reply[q]
  <1>1. cmd[r] \in Commands /\ turn[r] \in 1 .. 4 /\ turn[r] <= Len(Script(cmd[r]))
    BY DEF TypeOK, Coherent
  <1>2. CASE AtLastStep(r)
    BY <1>1, <1>2 DEF Advance, Goto, Answer, TypeOK, Labels
  <1>3. CASE ~AtLastStep(r)
    <2>1. turn[r] + 1 \in 1 .. Len(Script(cmd[r])) /\ Len(Script(cmd[r])) \in 1 .. 4
      BY <1>1, <1>3, ScriptSteps DEF AtLastStep
    <2>2. Script(cmd[r])[turn[r] + 1].do \in {"load", "save"}
      BY <1>1, <2>1, ScriptSteps
    <2>3. /\ turn' = [turn EXCEPT ![r] = @ + 1]
          /\ pc' = [pc EXCEPT ![r] = Script(cmd[r])[turn[r] + 1].do]
          /\ reply' = reply
      BY <1>3 DEF Advance, Goto
    <2>4. turn[r] + 1 \in 1 .. 4 /\ turn[r] + 1 <= Len(Script(cmd[r]))
      <3>1. \A n \in 1 .. 4, t \in 1 .. 4 : t + 1 \in 1 .. n => t + 1 \in 1 .. 4 /\ t + 1 <= n
        OBVIOUS
      <3>2. QED
        BY <1>1, <2>1, <3>1
    <2>5. turn' \in [Requests -> 1 .. 4] /\ turn'[r] = turn[r] + 1
      BY <2>3, <2>4 DEF TypeOK
    <2>6. pc \in [Requests -> Labels] /\ Script(cmd[r])[turn[r] + 1].do \in Labels
      BY <2>2 DEF TypeOK, Labels
    <2>7. pc' \in [Requests -> Labels] /\ pc'[r] = Script(cmd[r])[turn[r] + 1].do
      BY <2>3, <2>6
    <2>8. QED
      BY <2>2, <2>3, <2>4, <2>5, <2>7 DEF TypeOK
  <1>4. QED
    BY <1>2, <1>3

LEMMA InitTypeOK == Init => TypeOK
  <1>1. SUFFICES ASSUME Init PROVE TypeOK
    OBVIOUS
  <1>2. events \subseteq Events
    BY <1>1 DEF Init, Events, Ops
  <1>3. outbox \subseteq (Requests \cup {NoRequest}) \X Streams
    BY <1>1, <1>2 DEF Init, EventId, Events
  <1>4. tx \in [Requests -> TxStates]
    BY <1>1 DEF Init, TxStates, NoTx
  <1>5. agg \in [Requests -> [Streams -> Aggregates]]
    BY <1>1 DEF Init, Aggregates, Empty
  <1>6. ASSUME NEW r \in Requests PROVE Coherent(r)
    <2>1. cmd[r] \in Commands /\ turn[r] = 1
      BY <1>1 DEF Init
    <2>2. turn[r] <= Len(Script(cmd[r]))
      BY <2>1, ScriptSteps
    <2>3. pc[r] = "lookup" /\ tx[r].status = "none"
      BY <1>1 DEF Init, NoTx
    <2>4. QED
      BY <2>2, <2>3 DEF Coherent, InTx
  <1>7. QED
    BY <1>1, <1>2, <1>3, <1>4, <1>5, <1>6 DEF Init, TypeOK, Labels

\* The rows r writes are well typed.
LEMMA RowTypes ==
    ASSUME TypeOK, NEW r \in Requests
    PROVE  /\ NewEvent(r) \in Events
           /\ SnapshotOf(r) \in Snapshots
           /\ agg[r][Target(r)] \in Aggregates
  <1>1. Target(r) \in Streams /\ cmd[r] \in Commands
    BY TargetType
  <1>2. Op(cmd[r]) \in Ops /\ Peer(cmd[r], Target(r)) \in Streams \cup {NoPeer}
    BY <1>1, EventTypes
  <1>3. agg[r][Target(r)] \in Aggregates
    BY <1>1 DEF TypeOK
  <1>4. agg[r][Target(r)].version \in Nat /\ agg[r][Target(r)].peers \in SUBSET Streams
    BY <1>3 DEF Aggregates
  <1>5. QED
    BY <1>1, <1>2, <1>3, <1>4 DEF NewEvent, SnapshotOf, Events, Snapshots

\* A statement of the handler that ends in Advance leaves a typed state, when
\* what it does to the transaction and the aggregates is typed.
LEMMA AdvanceType ==
    ASSUME TypeOK, NEW r \in Requests, Advance(r),
           pc[r] \in InTx, tx[r].status = "open",
           tx' \in [Requests -> TxStates], tx'[r].status = "open",
           \A q \in Requests \ {r} : tx'[q] = tx[q],
           agg' \in [Requests -> [Streams -> Aggregates]],
           UNCHANGED <<db, recorded, cmd, key>>
    PROVE  TypeOK'
  <1>1. /\ turn' \in [Requests -> 1 .. 4]
        /\ turn'[r] <= Len(Script(cmd[r]))
        /\ pc' \in [Requests -> Labels]
        /\ pc'[r] \in {"load", "save", "commit"}
        /\ reply' \in [Requests -> {"none", "ok", "fail", "replayed"}]
        /\ \A q \in Requests \ {r} :
              turn'[q] = turn[q] /\ pc'[q] = pc[q] /\ reply'[q] = reply[q]
    BY AdvanceEffect
  <1>2. ASSUME NEW q \in Requests PROVE Coherent(q)'
    <2>1. CASE q = r
      BY <1>1, <2>1 DEF Coherent, InTx
    <2>2. CASE q # r
      BY <1>1, <2>2 DEF TypeOK, Coherent
    <2>3. QED
      BY <2>1, <2>2
  <1>3. /\ events' \subseteq Events /\ snaps' \subseteq Snapshots
        /\ outbox' \subseteq (Requests \cup {NoRequest}) \X Streams
        /\ recorded' \subseteq Keys /\ cmd' \in [Requests -> Commands]
        /\ key' \in [Requests -> Keys \cup {NoKey}]
    BY DEF TypeOK, db
  <1>4. QED
    BY <1>1, <1>2, <1>3 DEF TypeOK

\* What Abort, and nothing else, does to the transactions.
LEMMA AbortType ==
    ASSUME TypeOK, NEW r \in Requests, Abort(r)
    PROVE  tx' \in [Requests -> TxStates] /\ tx'[r] = RolledBack
           /\ \A q \in Requests \ {r} : tx'[q] = tx[q]
  BY DEF TypeOK, Abort, TxStates, RolledBack, NoTx

\* A step that fails the command leaves a typed state.
LEMMA FailType ==
    ASSUME TypeOK, NEW r \in Requests, Fail(r), pc[r] \in InTx,
           Abort(r) \/ UNCHANGED tx,
           UNCHANGED <<db, recorded, cmd, key, agg>>
    PROVE  TypeOK'
  <1>1. /\ pc' = [pc EXCEPT ![r] = "commit"] /\ turn' = turn
        /\ reply' \in [Requests -> {"none", "ok", "fail", "replayed"}]
    BY DEF Fail, Goto, Answer, TypeOK
  <1>0. \A q \in Requests \ {r} : reply'[q] = reply[q]
    BY DEF Fail, Answer, TypeOK
  <1>2. pc' \in [Requests -> Labels] /\ pc'[r] = "commit"
        /\ \A q \in Requests \ {r} : pc'[q] = pc[q]
    BY <1>1 DEF TypeOK, Labels
  <1>3. /\ tx' \in [Requests -> TxStates]
        /\ tx'[r].status # "none" /\ (tx'[r].status = "aborted" => tx'[r] = RolledBack)
        /\ \A q \in Requests \ {r} : tx'[q] = tx[q]
    <2>1. CASE Abort(r)
      BY <2>1, AbortType DEF RolledBack, NoTx
    <2>2. CASE UNCHANGED tx
      BY <2>2 DEF TypeOK, Coherent, InTx
    <2>3. QED
      BY <2>1, <2>2
  <1>4. ASSUME NEW q \in Requests PROVE Coherent(q)'
    BY <1>0, <1>1, <1>2, <1>3 DEF TypeOK, Coherent, InTx
  <1>5. QED
    BY <1>1, <1>2, <1>3, <1>4 DEF TypeOK, db

LEMMA NextTypeOK == TypeOK /\ [Next]_vars => TypeOK'
  <1> SUFFICES ASSUME TypeOK, [Next]_vars PROVE TypeOK'
    OBVIOUS
  <1>1. ASSUME NEW r \in Requests, Step(r) PROVE TypeOK'
    <2>0. /\ pc[r] \in InTx \ {"commit"} => tx[r].status = "open"
          /\ tx \in [Requests -> TxStates] /\ agg \in [Requests -> [Streams -> Aggregates]]
      BY DEF TypeOK, Coherent, TxStates
    <2>1. CASE ReplayRecorded(r)
      BY <2>1 DEF ReplayRecorded, Goto, Answer, TypeOK, Coherent, db, Labels, InTx
    <2>2. CASE Proceed(r)
      BY <2>2 DEF Proceed, Goto, TypeOK, Coherent, db, Labels, InTx
    <2>3. CASE Begin(r)
      <3>1. /\ tx' \in [Requests -> TxStates] /\ tx'[r].status = "open"
            /\ \A q \in Requests \ {r} : tx'[q] = tx[q]
        <4>1. tx' = [tx EXCEPT ![r] = [tx[r] EXCEPT !.status = "open"]]
          BY <2>3 DEF Begin
        <4>2. /\ [tx[r] EXCEPT !.status = "open"] \in TxStates
              /\ [tx[r] EXCEPT !.status = "open"].status = "open"
          BY <2>0 DEF TxStates
        <4>3. QED
          BY <2>0, <4>1, <4>2
      <3>2. /\ pc' \in [Requests -> Labels] /\ pc'[r] \in {"load", "save"}
            /\ \A q \in Requests \ {r} : pc'[q] = pc[q]
        BY <2>3, TargetType DEF Begin, Goto, TypeOK, Labels
      <3>3. QED
        BY <2>3, <3>1, <3>2 DEF Begin, TypeOK, Coherent, db, InTx
    <2>4. CASE LoadAggregate(r)
      <3>1. agg' \in [Requests -> [Streams -> Aggregates]]
        <4>1. PICK base \in Bases(r, Target(r)) :
                LET rows == {e \in Rows(r, Target(r)) : e.version > base.version} IN
                \E v \in {e.version : e \in rows} \cup {base.version} :
                  agg' = [agg EXCEPT ![r][Target(r)] =
                            [version |-> v, peers |-> Replay(base.peers, rows)]]
          BY <2>4 DEF LoadAggregate
        <4>2. base.version \in Nat /\ \A e \in Rows(r, Target(r)) : e.version \in Nat
          <5>1. tx[r] \in TxStates /\ events \subseteq Events /\ snaps \subseteq Snapshots
            BY <2>0 DEF TypeOK
          <5>2. QED
            BY <5>1 DEF Bases, Rows, Empty, TxStates, Events, Snapshots
        <4>3. PICK v \in Nat, peers \in SUBSET Streams :
                agg' = [agg EXCEPT ![r][Target(r)] = [version |-> v, peers |-> peers]]
          BY <4>1, <4>2 DEF Replay
        <4>4. [version |-> v, peers |-> peers] \in Aggregates
          BY DEF Aggregates
        <4>5. QED
          BY <2>0, <4>3, <4>4, TargetType
      <3>2. pc[r] = "load" /\ Advance(r) /\ UNCHANGED <<db, recorded, tx, cmd, key>>
        BY <2>4 DEF LoadAggregate
      <3>3. QED
        BY <2>0, <3>1, <3>2, AdvanceType DEF InTx
    <2>5. CASE RejectCommand(r)
      BY <2>5, FailType DEF RejectCommand, InTx
    <2>6. CASE SkipMirror(r)
      BY <2>0, <2>6, AdvanceType DEF SkipMirror, InTx
    <2>7. CASE StaleVersion(r)
      BY <2>7, FailType DEF StaleVersion, InTx
    <2>8. CASE CheckVersion(r)
      <3>1. agg' \in [Requests -> [Streams -> Aggregates]]
        <4>1. [version |-> agg[r][Target(r)].version + 1,
               peers |-> PeersAfter(cmd[r], Target(r), agg[r][Target(r)].peers)]
                 \in Aggregates
          BY RowTypes, TargetType, EventTypes DEF Aggregates, PeersAfter
        <4>2. agg' = [agg EXCEPT ![r][Target(r)] =
                        [version |-> agg[r][Target(r)].version + 1,
                         peers |-> PeersAfter(cmd[r], Target(r), agg[r][Target(r)].peers)]]
          BY <2>8 DEF CheckVersion
        <4>3. QED
          BY <2>0, <4>1, <4>2, TargetType
      <3>2. /\ pc' \in [Requests -> Labels] /\ pc'[r] = "insert" /\ pc[r] = "save"
            /\ \A q \in Requests \ {r} : pc'[q] = pc[q]
        BY <2>8 DEF CheckVersion, Goto, TypeOK, Labels
      <3>3. QED
        BY <2>8, <3>1, <3>2 DEF CheckVersion, TypeOK, Coherent, db, InTx
    <2>9. CASE InsertEvent(r)
      <3>1. /\ tx' \in [Requests -> TxStates] /\ tx'[r].status = "open"
            /\ \A q \in Requests \ {r} : tx'[q] = tx[q]
        <4>1. tx[r] \in TxStates /\ tx[r].status = "open" /\ NewEvent(r) \in Events
          BY <2>0, <2>9, RowTypes DEF InsertEvent, InTx
        <4>2. [tx[r] EXCEPT !.events = @ \cup {NewEvent(r)}] \in TxStates
          BY <4>1 DEF TxStates
        <4>3. [tx[r] EXCEPT !.events = @ \cup {NewEvent(r)}].status = "open"
          BY <4>1 DEF TxStates
        <4>4. tx' = [tx EXCEPT ![r] = [tx[r] EXCEPT !.events = @ \cup {NewEvent(r)}]]
          BY <2>9 DEF InsertEvent
        <4>5. QED
          BY <2>0, <4>2, <4>3, <4>4
      <3>2. /\ pc' \in [Requests -> Labels] /\ pc'[r] = "outbox" /\ pc[r] = "insert"
            /\ \A q \in Requests \ {r} : pc'[q] = pc[q]
        BY <2>9 DEF InsertEvent, Goto, TypeOK, Labels
      <3>3. QED
        BY <2>9, <3>1, <3>2 DEF InsertEvent, TypeOK, Coherent, db, InTx
    <2>10. CASE InsertConflict(r)
      BY <2>10, FailType DEF InsertConflict, InTx
    <2>11. CASE WriteOutbox(r)
      <3> DEFINE t == [tx[r] EXCEPT !.outbox = @ \cup {<<r, Target(r)>>},
                                    !.snaps = IF agg[r][Target(r)].version % SnapshotEvery = 0
                                              THEN @ \cup {SnapshotOf(r)} ELSE @]
      <3>1. pc[r] = "outbox" /\ Advance(r) /\ UNCHANGED <<db, recorded, cmd, key, agg>>
        BY <2>11 DEF WriteOutbox
      <3>2. tx' = [tx EXCEPT ![r] = t]
        BY <2>11 DEF WriteOutbox
      <3>3. t \in TxStates /\ t.status = "open"
        <4>1. tx[r] \in TxStates /\ tx[r].status = "open"
          BY <2>0, <3>1 DEF InTx
        <4>2. /\ tx[r].outbox \cup {<<r, Target(r)>>} \in SUBSET (Requests \X Streams)
              /\ (IF agg[r][Target(r)].version % SnapshotEvery = 0
                  THEN tx[r].snaps \cup {SnapshotOf(r)} ELSE tx[r].snaps) \in SUBSET Snapshots
          BY <4>1, RowTypes, TargetType DEF TxStates
        <4>3. QED
          BY <4>1, <4>2 DEF TxStates
      <3>4. tx' \in [Requests -> TxStates] /\ tx'[r].status = "open"
            /\ \A q \in Requests \ {r} : tx'[q] = tx[q]
        BY <2>0, <3>2, <3>3
      <3>5. QED
        BY <2>0, <3>1, <3>4, AdvanceType DEF InTx
    <2>12. CASE Commit(r)
      <3>1. tx[r] \in TxStates
        BY <2>0
      <3>2. /\ events' \subseteq Events /\ snaps' \subseteq Snapshots
            /\ outbox' \subseteq (Requests \cup {NoRequest}) \X Streams
        BY <2>12, <3>1 DEF Commit, TypeOK, TxStates
      <3>3. /\ tx' \in [Requests -> TxStates] /\ tx'[r] = NoTx
            /\ \A q \in Requests \ {r} : tx'[q] = tx[q]
        BY <2>0, <2>12 DEF Commit, TxStates, NoTx
      <3>4. /\ pc' \in [Requests -> Labels] /\ pc'[r] \in {"record", "done"}
            /\ \A q \in Requests \ {r} : pc'[q] = pc[q]
        BY <2>12 DEF Commit, Goto, AfterCommit, TypeOK, Labels
      <3>5. QED
        BY <2>12, <3>2, <3>3, <3>4 DEF Commit, AfterCommit, Goto, TypeOK, Coherent, NoTx, InTx
    <2>13. CASE Record(r)
      <3>1. key[r] \in Keys
        BY <2>13 DEF Record, TypeOK, Coherent
      <3>2. QED
        BY <2>13, <3>1 DEF Record, Goto, TypeOK, Coherent, db, Labels, InTx
    <2>14. CASE RecordError(r)
      BY <2>14 DEF RecordError, Goto, Answer, TypeOK, Coherent, db, Labels, InTx
    <2>15. QED
      BY <1>1, <2>1, <2>2, <2>3, <2>4, <2>5, <2>6, <2>7, <2>8, <2>9, <2>10,
         <2>11, <2>12, <2>13, <2>14 DEF Step
  <1>2. ASSUME NEW r \in Requests, SqlError(r) PROVE TypeOK'
    BY <1>2, FailType DEF SqlError, TypeOK, Coherent
  <1>3. ASSUME NEW r \in Requests, DeadlockAbort(r) PROVE TypeOK'
    <2>1. pc[r] = "insert"
      BY <1>3 DEF DeadlockAbort, Deadlocked, WaitsFor
    <2>2. QED
      BY <1>3, <2>1, FailType DEF DeadlockAbort, InTx
  <1>4. ASSUME NEW r \in Requests, Crash(r) PROVE TypeOK'
    BY <1>4 DEF Crash, Goto, Answer, TypeOK, Coherent, db, Labels, InTx, NoTx, TxStates
  <1>5. ASSUME NEW k \in Keys, Expire(k) PROVE TypeOK'
    BY <1>5 DEF Expire, TypeOK, Coherent, db
  <1>6. CASE UNCHANGED vars
    BY <1>6 DEF TypeOK, Coherent, vars
  <1>7. QED
    BY <1>1, <1>2, <1>3, <1>4, <1>5, <1>6 DEF Next, Finished

\* Every variable keeps its type, and a transaction is open exactly while its
\* request's handler runs, in every instance.
THEOREM TypeCorrect == Spec => []TypeOK
  BY InitTypeOK, NextTypeOK, PTL DEF Spec

(***************************************************************************)
(* The inductive invariant of the log.                                     *)
(***************************************************************************)

Ids(rows) == {EventId(e) : e \in rows}

\* The slot before e's is committed.
Follows(e) == \E f \in events : f.stream = e.stream /\ f.version + 1 = e.version

\* Committed rows: every stream starts at 1, has every version up to its last,
\* and each version once.  Dense says of all the versions below a row what
\* StreamsContiguous says of the one before it: that is what lets a writer who
\* extends version v conclude, from a free slot v + 1, that none is higher.
Founded == \A s \in Streams : \E e \in events : e.stream = s /\ e.version = 1
Dense == \A e \in events :
            /\ e.version >= 1
            /\ \A n \in 1 .. e.version :
                  \E f \in events : f.stream = e.stream /\ f.version = n
SlotsUnique == \A e, f \in events : SameSlot(e, f) => e = f

\* r's script has passed the save that wrote to stream s.
Written(r, s) ==
    \E i \in 1 .. Len(Script(cmd[r])) :
        /\ Script(cmd[r])[i].do = "save" /\ Script(cmd[r])[i].stream = s
        /\ \/ i < turn[r]
           \/ i = turn[r] /\ pc[r] \in {"outbox", "commit"}

\* An uncommitted row of r extends its stream and takes a free slot.
OwnRow(r, e) == /\ e.req = r
                /\ Follows(e)
                /\ \A f \in events : ~SameSlot(e, f)
                /\ Written(r, e.stream)
                /\ \A f \in tx[r].events : f.stream = e.stream => f = e

\* The outbox message that r has still to write.
Pending(r) == IF pc[r] = "outbox" THEN {<<r, Target(r)>>} ELSE {}

AtStep(r) == /\ pc[r] = "load" => Script(cmd[r])[turn[r]].do = "load"
             /\ pc[r] \in {"save", "insert", "outbox"}
                   => Script(cmd[r])[turn[r]].do = "save"

\* What holds of one request and its transaction.
Local(r) == /\ \A e \in tx[r].events : OwnRow(r, e)
            /\ pc[r] = "insert" => Follows(NewEvent(r))
            /\ AtStep(r)
            /\ Ids(tx[r].events) = tx[r].outbox \cup Pending(r)
            /\ pc[r] \notin InTx => tx[r] = NoTx

\* The unique index's locks: no two open transactions hold one slot.
LocksHeld == \A q, r \in Requests :
                q # r => \A e \in tx[q].events, f \in tx[r].events : ~SameSlot(e, f)

\* A request's rows are committed only once its transaction has ended.
CommittedBy == \A e \in events : e.req \in Requests => pc[e.req] \in {"record", "done"}

LogInv == /\ Founded /\ Dense /\ SlotsUnique
          /\ EventsAreOutboxed
          /\ \A r \in Requests : Local(r)
          /\ LocksHeld
          /\ CommittedBy

LEMMA LogInvImplies == TypeOK /\ LogInv => StreamsContiguous /\ EventsAreOutboxed
  <1> SUFFICES ASSUME TypeOK, LogInv PROVE StreamsContiguous /\ EventsAreOutboxed
    OBVIOUS
  <1>1. ASSUME NEW e \in events, e.version # 1
        PROVE  \E f \in events : f.stream = e.stream /\ f.version + 1 = e.version
    <2>1. e.version \in Nat /\ e.version >= 1
      BY DEF TypeOK, Events, LogInv, Dense
    <2>2. e.version - 1 \in 1 .. e.version
      BY <1>1, <2>1
    <2>3. PICK f \in events : f.stream = e.stream /\ f.version = e.version - 1
      BY <2>2 DEF LogInv, Dense
    <2>4. QED
      BY <2>1, <2>3
  <1>2. QED
    BY <1>1 DEF LogInv, SlotsUnique, StreamsContiguous

LEMMA InitLogInv == Init /\ TypeOK => LogInv
  <1> SUFFICES ASSUME Init, TypeOK PROVE LogInv
    OBVIOUS
  <1>1. \A s \in Streams : [stream |-> s, version |-> 1, op |-> "create",
                            peer |-> NoPeer, req |-> NoRequest] \in events
    BY DEF Init
  <1>2. Founded
    BY <1>1 DEF Founded
  <1>3. \A e \in events : e.version = 1 /\ e.op = "create" /\ e.peer = NoPeer
                           /\ e.req = NoRequest
    BY DEF Init
  <1>4. Dense
    BY <1>3 DEF Dense
  <1>5. SlotsUnique
    BY DEF Init, SlotsUnique, SameSlot
  <1>6. \A r \in Requests : Local(r)
    BY DEF Init, Local, NoTx, AtStep, Pending, Ids
  <1>7. LocksHeld /\ CommittedBy
    BY <1>3 DEF Init, LocksHeld, NoTx, CommittedBy
  <1>8. EventsAreOutboxed
    BY DEF Init, EventsAreOutboxed
  <1>9. QED
    BY <1>2, <1>4, <1>5, <1>6, <1>7, <1>8 DEF LogInv

\* A step of one request that commits nothing and takes no new slot has only to
\* keep its own Local.
LEMMA LocalStep ==
    ASSUME LogInv, NEW r \in Requests,
           UNCHANGED <<events, outbox, cmd>>,
           \A q \in Requests \ {r} : /\ tx'[q] = tx[q] /\ pc'[q] = pc[q]
                                     /\ turn'[q] = turn[q] /\ agg'[q] = agg[q],
           tx'[r].events \subseteq tx[r].events \/ LocksHeld',
           pc[r] \in {"record", "done"} => pc'[r] \in {"record", "done"},
           Local(r)'
    PROVE  LogInv'
  <1>1. Founded' /\ Dense' /\ SlotsUnique' /\ EventsAreOutboxed'
    BY DEF LogInv, Founded, Dense, SlotsUnique, SameSlot, EventsAreOutboxed, EventId
  <1>2. ASSUME NEW q \in Requests PROVE Local(q)'
    <2>1. CASE q = r
      BY <2>1
    <2>2. CASE q # r
      <3>0. /\ Local(q) /\ events' = events /\ cmd' = cmd
            /\ tx'[q] = tx[q] /\ pc'[q] = pc[q] /\ turn'[q] = turn[q] /\ agg'[q] = agg[q]
        BY <2>2 DEF LogInv
      <3>1. Target(q)' = Target(q) /\ NewEvent(q)' = NewEvent(q) /\ Pending(q)' = Pending(q)
        BY <3>0 DEF Target, NewEvent, Pending
      <3>2. ASSUME NEW e \in tx[q].events PROVE OwnRow(q, e)'
        <4>1. OwnRow(q, e)
          BY <3>0 DEF Local
        <4>2. Written(q, e.stream)'
          BY <3>0, <4>1 DEF OwnRow, Written
        <4>3. QED
          BY <3>0, <4>1, <4>2 DEF OwnRow, Follows, SameSlot
      <3>3. pc'[q] = "insert" => Follows(NewEvent(q))'
        BY <3>0, <3>1 DEF Local, Follows
      <3>4. AtStep(q)'
        BY <3>0 DEF Local, AtStep
      <3>5. Ids(tx[q].events)' = tx'[q].outbox \cup Pending(q)'
        BY <3>0, <3>1 DEF Local, Ids, EventId
      <3>6. QED
        BY <3>0, <3>2, <3>3, <3>4, <3>5 DEF Local
    <2>3. QED
      BY <2>1, <2>2
  <1>3. LocksHeld'
    BY DEF LogInv, LocksHeld, SameSlot
  <1>4. CommittedBy'
    BY DEF LogInv, CommittedBy
  <1>5. QED
    BY <1>1, <1>2, <1>3, <1>4 DEF LogInv

\* A step that fails the command, before a write or by aborting, keeps the
\* invariant.
LEMMA FailKeeps ==
    ASSUME TypeOK, LogInv, NEW r \in Requests, Fail(r), pc[r] \in InTx,
           Abort(r) \/ (UNCHANGED tx /\ pc[r] = "save"),
           UNCHANGED <<db, cmd, agg>>
    PROVE  LogInv'
  <1>1. /\ pc'[r] = "commit" /\ turn' = turn
        /\ \A q \in Requests \ {r} : pc'[q] = pc[q]
    BY DEF Fail, Goto, TypeOK
  <1>2. /\ \A q \in Requests \ {r} : tx'[q] = tx[q]
        /\ tx'[r].events \subseteq tx[r].events
    BY AbortType DEF RolledBack, NoTx
  <1>3. UNCHANGED <<events, outbox, cmd>>
    BY DEF db
  <1>4. Local(r)'
    <2>1. AtStep(r)' /\ Pending(r)' = {}
      BY <1>1 DEF AtStep, Pending
    <2>2. CASE Abort(r)
      <3>1. tx'[r].events = {} /\ tx'[r].outbox = {}
        BY <2>2, AbortType DEF RolledBack, NoTx
      <3>2. QED
        BY <1>1, <2>1, <3>1 DEF Local, Ids, InTx
    <2>3. CASE UNCHANGED tx /\ pc[r] = "save"
      <3>1. ASSUME NEW e \in tx[r].events PROVE OwnRow(r, e)'
        <4>1. OwnRow(r, e)
          BY DEF LogInv, Local
        <4>2. Written(r, e.stream)'
          BY <1>1, <1>3, <4>1 DEF OwnRow, Written
        <4>3. QED
          BY <1>3, <2>3, <4>1, <4>2 DEF OwnRow, Follows, SameSlot
      <3>2. Ids(tx[r].events)' = tx'[r].outbox \cup Pending(r)'
        BY <2>1, <2>3 DEF LogInv, Local, Pending, Ids, EventId
      <3>3. QED
        BY <1>1, <2>1, <2>3, <3>1, <3>2 DEF Local, InTx
    <2>4. QED
      BY <2>2, <2>3
  <1>5. QED
    BY <1>1, <1>2, <1>3, <1>4, LocalStep DEF InTx

\* A statement that ends in Advance and inserts no event keeps it.
LEMMA AdvanceKeeps ==
    ASSUME TypeOK, LogInv, NEW r \in Requests, Advance(r),
           pc[r] \in {"load", "save", "outbox"},
           \A q \in Requests \ {r} : tx'[q] = tx[q] /\ agg'[q] = agg[q],
           tx'[r].events = tx[r].events,
           tx'[r].outbox = tx[r].outbox \cup Pending(r),
           UNCHANGED <<db, cmd>>
    PROVE  LogInv'
  <1>1. /\ turn'[r] \in {turn[r], turn[r] + 1} /\ turn[r] \in 1 .. 4
        /\ \/ pc'[r] \in {"load", "save"} /\ pc'[r] = Script(cmd[r])[turn'[r]].do
              /\ turn'[r] = turn[r] + 1
           \/ pc'[r] = "commit" /\ turn'[r] = turn[r]
        /\ \A q \in Requests \ {r} : turn'[q] = turn[q] /\ pc'[q] = pc[q]
    BY AdvanceEffect DEF TypeOK
  <1>2. UNCHANGED <<events, outbox, cmd>>
    BY DEF db
  <1>3. AtStep(r)' /\ Pending(r)' = {} /\ pc'[r] \in InTx \ {"insert"}
    BY <1>1, <1>2 DEF AtStep, Pending, InTx
  <1>4. ASSUME NEW e \in tx[r].events PROVE OwnRow(r, e)'
    <2>1. OwnRow(r, e)
      BY DEF LogInv, Local
    <2>2. PICK i \in 1 .. Len(Script(cmd[r])) :
            /\ Script(cmd[r])[i].do = "save" /\ Script(cmd[r])[i].stream = e.stream
            /\ \/ i < turn[r]
               \/ i = turn[r] /\ pc[r] \in {"outbox", "commit"}
      BY <2>1 DEF OwnRow, Written
    <2>3. i < turn'[r] \/ (i = turn'[r] /\ pc'[r] = "commit")
      BY <1>1, <2>2
    <2>4. Written(r, e.stream)'
      BY <1>2, <2>2, <2>3 DEF Written
    <2>5. QED
      BY <1>2, <2>1, <2>4 DEF OwnRow, Follows, SameSlot
  <1>5. Ids(tx[r].events)' = tx'[r].outbox \cup Pending(r)'
    BY <1>3 DEF LogInv, Local, Ids, EventId
  <1>6. Local(r)'
    BY <1>3, <1>4, <1>5 DEF Local
  <1>7. QED
    BY <1>1, <1>2, <1>6, LocalStep

\* Until it inserts at this step, r's transaction holds no row of its target.
LEMMA NotWrittenYet ==
    ASSUME TypeOK, LogInv, NEW r \in Requests, pc[r] \in {"save", "insert"},
           NEW e \in tx[r].events
    PROVE  e.stream # Target(r)
  <1>1. SUFFICES ASSUME e.stream = Target(r) PROVE FALSE
    OBVIOUS
  <1>2. Written(r, e.stream) /\ Script(cmd[r])[turn[r]].do = "save"
    BY DEF LogInv, Local, OwnRow, AtStep
  <1>3. PICK i \in 1 .. Len(Script(cmd[r])) :
          /\ Script(cmd[r])[i].do = "save" /\ Script(cmd[r])[i].stream = Target(r)
          /\ i < turn[r]
    BY <1>1, <1>2 DEF Written
  <1>4. cmd[r] \in Commands /\ turn[r] \in 1 .. Len(Script(cmd[r]))
    BY TargetType
  <1>5. i = turn[r]
    BY <1>2, <1>3, <1>4, ScriptSavesOnce DEF Target
  <1>6. QED
    BY <1>3, <1>4, <1>5

LEMMA CheckVersionKeeps ==
    ASSUME TypeOK, LogInv, NEW r \in Requests, CheckVersion(r)
    PROVE  LogInv'
  <1> DEFINE s == Target(r)
             v == agg[r][s].version
  <1>1. /\ pc[r] = "save" /\ LatestIs(Rows(r, s), v) /\ s \in Streams
        /\ UNCHANGED <<events, outbox, tx, cmd, turn>>
    BY TargetType DEF CheckVersion, db
  <1>2. /\ pc'[r] = "insert"
        /\ \A q \in Requests \ {r} : pc'[q] = pc[q]
    BY DEF CheckVersion, Goto, TypeOK
  <1>3. /\ agg'[r][s].version = v + 1 /\ v \in Nat
        /\ \A q \in Requests \ {r} : agg'[q] = agg[q]
    BY <1>1, RowTypes DEF CheckVersion, TypeOK, Aggregates
  <1>4. PICK last \in events : last.stream = s /\ last.version = v
    <2>1. PICK f \in events : f.stream = s /\ f.version = 1
      BY <1>1 DEF LogInv, Founded
    <2>2. v >= 1
      BY <1>1, <1>3, <2>1 DEF LatestIs, Rows
    <2>3. PICK e \in events \cup tx[r].events : e.stream = s /\ e.version = v
      BY <1>1, <1>3, <2>2 DEF LatestIs, Rows
    <2>4. e \notin tx[r].events
      BY <1>1, <2>3, NotWrittenYet
    <2>5. QED
      BY <2>3, <2>4
  <1>5. Follows(NewEvent(r))'
    <2>1. Target(r)' = s
      BY <1>1 DEF Target
    <2>2. NewEvent(r)'.stream = s /\ NewEvent(r)'.version = v + 1
      BY <1>3, <2>1 DEF NewEvent
    <2>3. QED
      BY <1>1, <1>4, <2>2 DEF Follows
  <1>6. ASSUME NEW e \in tx[r].events PROVE OwnRow(r, e)'
    <2>1. OwnRow(r, e)
      BY DEF LogInv, Local
    <2>2. Written(r, e.stream)'
      BY <1>1, <1>2, <2>1 DEF OwnRow, Written
    <2>3. QED
      BY <1>1, <2>1, <2>2 DEF OwnRow, Follows, SameSlot
  <1>7. AtStep(r)' /\ Ids(tx[r].events)' = tx'[r].outbox \cup Pending(r)'
    BY <1>1, <1>2 DEF LogInv, Local, AtStep, Pending, Ids, EventId
  <1>8. Local(r)'
    BY <1>1, <1>2, <1>5, <1>6, <1>7 DEF Local, InTx
  <1>9. QED
    BY <1>1, <1>2, <1>3, <1>8, LocalStep

LEMMA InsertEventKeeps ==
    ASSUME TypeOK, LogInv, NEW r \in Requests, InsertEvent(r)
    PROVE  LogInv'
  <1>0. PICK n : n = NewEvent(r)
    OBVIOUS
  <1>1. /\ pc[r] = "insert" /\ Taken(r) = {} /\ Holders(r) = {}
        /\ UNCHANGED <<events, outbox, cmd, turn, agg>>
    BY DEF InsertEvent, db
  <1>2. /\ pc'[r] = "outbox"
        /\ \A q \in Requests \ {r} : pc'[q] = pc[q]
    BY DEF InsertEvent, Goto, TypeOK
  <1>3. /\ tx'[r].events = tx[r].events \cup {n} /\ tx'[r].outbox = tx[r].outbox
        /\ \A q \in Requests \ {r} : tx'[q] = tx[q]
    BY <1>0 DEF InsertEvent, TypeOK, TxStates
  <1>4. n.req = r /\ n.stream = Target(r) /\ Target(r)' = Target(r) /\ EventId(n) = <<r, Target(r)>>
    BY <1>0, <1>1 DEF NewEvent, Target, EventId
  <1>5. \A e \in tx[r].events : e.stream # n.stream
    BY <1>1, <1>4, NotWrittenYet
  <1>6. OwnRow(r, n)'
    <2>1. turn[r] \in 1 .. Len(Script(cmd[r])) /\ Script(cmd[r])[turn[r]].do = "save"
      BY <1>1, TargetType DEF LogInv, Local, AtStep
    <2>2. Written(r, n.stream)'
      BY <1>1, <1>2, <1>4, <2>1 DEF Written, Target
    <2>3. \A f \in events : ~SameSlot(n, f)
      BY <1>0, <1>1 DEF Taken, SameSlot
    <2>4. Follows(n)
      BY <1>0, <1>1 DEF LogInv, Local
    <2>5. \A f \in tx'[r].events : f.stream = n.stream => f = n
      BY <1>3, <1>5
    <2>6. QED
      BY <1>1, <1>4, <2>2, <2>3, <2>4, <2>5 DEF OwnRow, Follows, SameSlot
  <1>7. ASSUME NEW e \in tx[r].events PROVE OwnRow(r, e)'
    <2>1. OwnRow(r, e)
      BY DEF LogInv, Local
    <2>2. Written(r, e.stream)'
      BY <1>1, <1>2, <2>1 DEF OwnRow, Written
    <2>3. \A f \in tx'[r].events : f.stream = e.stream => f = e
      BY <1>3, <1>5, <2>1 DEF OwnRow
    <2>4. QED
      BY <1>1, <2>1, <2>2, <2>3 DEF OwnRow, Follows, SameSlot
  <1>8. Ids(tx[r].events)' = tx'[r].outbox \cup Pending(r)'
    <2>1. Ids(tx[r].events) = tx[r].outbox
      BY <1>1 DEF LogInv, Local, Pending
    <2>2. Ids(tx[r].events)' = Ids(tx[r].events) \cup {<<r, Target(r)>>}
      BY <1>3, <1>4 DEF Ids, EventId
    <2>3. QED
      BY <1>2, <1>3, <1>4, <2>1, <2>2 DEF Pending
  <1>9. AtStep(r)'
    BY <1>1, <1>2 DEF LogInv, Local, AtStep
  <1>10. Local(r)'
    BY <1>0, <1>2, <1>3, <1>6, <1>7, <1>8, <1>9 DEF Local, InTx
  <1>11. LocksHeld'
    BY <1>0, <1>1, <1>3 DEF LogInv, LocksHeld, Holders, SameSlot
  <1>12. QED
    BY <1>1, <1>2, <1>3, <1>10, <1>11, LocalStep

\* The committed rows of a stream r writes to all come before r's row: the
\* slot of r's row is free, so by Dense no later one is taken.
LEMMA OwnRowIsLast ==
    ASSUME TypeOK, LogInv, NEW r \in Requests, NEW e \in tx[r].events,
           NEW f \in events, f.stream = e.stream
    PROVE  f.version < e.version
  <1>1. OwnRow(r, e)
    BY DEF LogInv, Local
  <1>2. e.version \in Nat /\ f.version \in Nat
    BY DEF TypeOK, TxStates, Events
  <1>3. PICK p \in events : p.stream = e.stream /\ p.version + 1 = e.version
    BY <1>1 DEF OwnRow, Follows
  <1>4. e.version >= 1
    BY <1>2, <1>3 DEF LogInv, Dense, TypeOK, Events
  <1>5. SUFFICES ASSUME f.version >= e.version PROVE FALSE
    BY <1>2
  <1>6. PICK g \in events : g.stream = f.stream /\ g.version = e.version
    BY <1>2, <1>4, <1>5 DEF LogInv, Dense
  <1>7. QED
    BY <1>1, <1>6 DEF OwnRow, SameSlot

LEMMA CommitKeeps ==
    ASSUME TypeOK, LogInv, NEW r \in Requests, Commit(r)
    PROVE  LogInv'
  <1>0. PICK rows : rows = tx[r].events
    OBVIOUS
  <1>1. /\ pc[r] = "commit" /\ events' = events \cup rows
        /\ outbox' = outbox \cup tx[r].outbox
        /\ UNCHANGED <<cmd, turn, agg>>
    BY <1>0 DEF Commit
  <1>2. /\ tx'[r] = NoTx
        /\ \A q \in Requests \ {r} : tx'[q] = tx[q]
    BY DEF Commit, TypeOK
  <1>3. /\ pc'[r] \in {"record", "done"}
        /\ \A q \in Requests \ {r} : pc'[q] = pc[q]
    BY DEF Commit, Goto, AfterCommit, TypeOK
  <1>4. \A e \in rows : OwnRow(r, e) /\ e.version \in Nat
    BY <1>0 DEF LogInv, Local, TypeOK, TxStates, Events
  <1>5. Founded'
    BY <1>1 DEF LogInv, Founded
  <1>6. Dense'
    <2>1. ASSUME NEW e \in rows, NEW n \in 1 .. e.version
          PROVE  \E f \in events' : f.stream = e.stream /\ f.version = n
      <3>1. PICK p \in events : p.stream = e.stream /\ p.version + 1 = e.version
        BY <1>4 DEF OwnRow, Follows
      <3>2. p.version \in Nat
        BY DEF TypeOK, Events
      <3>3. CASE n = e.version
        BY <1>1, <3>3
      <3>4. CASE n # e.version
        <4>1. n \in 1 .. p.version
          BY <1>4, <3>1, <3>2, <3>4
        <4>2. QED
          BY <1>1, <3>1, <4>1 DEF LogInv, Dense
      <3>5. QED
        BY <3>3, <3>4
    <2>2. ASSUME NEW e \in rows PROVE e.version >= 1
      BY <1>4 DEF OwnRow, Follows, TypeOK, Events, LogInv, Dense
    <2>3. QED
      BY <1>1, <2>1, <2>2 DEF LogInv, Dense
  <1>7. SlotsUnique'
    BY <1>0, <1>1, <1>4 DEF LogInv, SlotsUnique, OwnRow, SameSlot
  <1>8. EventsAreOutboxed'
    <2>1. Ids(rows) = tx[r].outbox
      BY <1>0, <1>1 DEF LogInv, Local, Pending
    <2>2. QED
      BY <1>1, <2>1 DEF LogInv, EventsAreOutboxed, Ids, EventId
  <1>9. ASSUME NEW q \in Requests PROVE Local(q)'
    <2>1. CASE q = r
      BY <1>2, <1>3, <2>1 DEF Local, NoTx, AtStep, Pending, Ids, InTx
    <2>2. CASE q # r
      <3>1. /\ Local(q) /\ cmd' = cmd /\ tx'[q] = tx[q] /\ pc'[q] = pc[q]
            /\ turn'[q] = turn[q] /\ agg'[q] = agg[q]
        BY <1>1, <1>2, <1>3, <2>2 DEF LogInv
      <3>2. Target(q)' = Target(q) /\ NewEvent(q)' = NewEvent(q) /\ Pending(q)' = Pending(q)
        BY <3>1 DEF Target, NewEvent, Pending
      <3>3. ASSUME NEW e \in tx[q].events PROVE OwnRow(q, e)'
        <4>1. OwnRow(q, e)
          BY <3>1 DEF Local
        <4>2. Written(q, e.stream)'
          BY <3>1, <4>1 DEF OwnRow, Written
        <4>3. \A f \in rows : ~SameSlot(e, f)
          BY <1>0, <2>2 DEF LogInv, LocksHeld
        <4>4. QED
          BY <1>1, <3>1, <4>1, <4>2, <4>3 DEF OwnRow, Follows, SameSlot
      <3>4. pc'[q] = "insert" => Follows(NewEvent(q))'
        BY <1>1, <3>1, <3>2 DEF Local, Follows
      <3>5. AtStep(q)' /\ Ids(tx[q].events)' = tx'[q].outbox \cup Pending(q)'
        BY <3>1, <3>2 DEF Local, AtStep, Ids, EventId
      <3>6. QED
        BY <3>1, <3>3, <3>4, <3>5 DEF Local
    <2>3. QED
      BY <2>1, <2>2
  <1>10. LocksHeld'
    BY <1>2 DEF LogInv, LocksHeld, NoTx, SameSlot
  <1>11. CommittedBy'
    BY <1>1, <1>3, <1>4 DEF LogInv, CommittedBy, OwnRow
  <1>12. QED
    BY <1>5, <1>6, <1>7, <1>8, <1>9, <1>10, <1>11 DEF LogInv

\* A step that leaves r without rows and outside the handler's saves keeps it.
LEMMA QuietKeeps ==
    ASSUME TypeOK, LogInv, NEW r \in Requests,
           UNCHANGED <<db, cmd, turn, agg>>,
           \A q \in Requests \ {r} : tx'[q] = tx[q] /\ pc'[q] = pc[q],
           tx'[r].events = {}, tx'[r].outbox = {},
           pc'[r] \notin InTx => tx'[r] = NoTx,
           \/ pc'[r] \in {"begin", "record", "done"}
           \/ pc'[r] \in {"load", "save"} /\ pc'[r] = Script(cmd[r])[turn[r]].do,
           pc[r] \in {"record", "done"} => pc'[r] \in {"record", "done"}
    PROVE  LogInv'
  <1>1. Local(r)'
    BY DEF Local, AtStep, Pending, Ids
  <1>2. QED
    BY <1>1, LocalStep DEF db

LEMMA NextLogInv == TypeOK /\ LogInv /\ [Next]_vars => LogInv'
  <1> SUFFICES ASSUME TypeOK, LogInv, [Next]_vars PROVE LogInv'
    OBVIOUS
  <1>1. ASSUME NEW r \in Requests, Step(r) PROVE LogInv'
    <2>0. /\ pc[r] \notin InTx => tx[r] = NoTx
          /\ tx[r] = NoTx => tx[r].events = {} /\ tx[r].outbox = {}
          /\ pc \in [Requests -> Labels]
      BY DEF LogInv, Local, NoTx, TypeOK
    <2>1. CASE ReplayRecorded(r)
      BY <2>0, <2>1, QuietKeeps DEF ReplayRecorded, Goto, InTx
    <2>2. CASE Proceed(r)
      BY <2>0, <2>2, QuietKeeps DEF Proceed, Goto, InTx
    <2>3. CASE Begin(r)
      <3>1. /\ tx'[r].events = {} /\ tx'[r].outbox = {}
            /\ \A q \in Requests \ {r} : tx'[q] = tx[q]
        BY <2>0, <2>3 DEF Begin, InTx, TypeOK, TxStates
      <3>2. /\ pc'[r] \in {"load", "save"} /\ pc'[r] = Script(cmd[r])[turn[r]].do
            /\ pc[r] = "begin" /\ \A q \in Requests \ {r} : pc'[q] = pc[q]
        BY <2>0, <2>3, TargetType DEF Begin, Goto
      <3>3. QED
        BY <2>3, <3>1, <3>2, QuietKeeps DEF Begin, InTx
    <2>4. CASE LoadAggregate(r)
      <3>1. /\ pc[r] = "load" /\ Advance(r) /\ Pending(r) = {}
            /\ UNCHANGED <<db, recorded, tx, cmd, key>>
        BY <2>4 DEF LoadAggregate, Pending
      <3>2. \A q \in Requests \ {r} : agg'[q] = agg[q]
        BY <2>4 DEF LoadAggregate, TypeOK
      <3>3. QED
        BY <3>1, <3>2, AdvanceKeeps
    <2>5. CASE RejectCommand(r)
      BY <2>5, FailKeeps DEF RejectCommand, InTx
    <2>6. CASE SkipMirror(r)
      BY <2>6, AdvanceKeeps DEF SkipMirror, Pending
    <2>7. CASE StaleVersion(r)
      BY <2>7, FailKeeps DEF StaleVersion, InTx
    <2>8. CASE CheckVersion(r)
      BY <2>8, CheckVersionKeeps
    <2>9. CASE InsertEvent(r)
      BY <2>9, InsertEventKeeps
    <2>10. CASE InsertConflict(r)
      BY <2>10, FailKeeps DEF InsertConflict, InTx
    <2>11. CASE WriteOutbox(r)
      <3>1. /\ pc[r] = "outbox" /\ Advance(r) /\ Pending(r) = {<<r, Target(r)>>}
            /\ UNCHANGED <<db, recorded, cmd, key, agg>>
        BY <2>11 DEF WriteOutbox, Pending
      <3>2. /\ tx'[r].events = tx[r].events
            /\ tx'[r].outbox = tx[r].outbox \cup {<<r, Target(r)>>}
            /\ \A q \in Requests \ {r} : tx'[q] = tx[q]
        BY <2>11 DEF WriteOutbox, TypeOK, TxStates
      <3>3. QED
        BY <3>1, <3>2, AdvanceKeeps
    <2>12. CASE Commit(r)
      BY <2>12, CommitKeeps
    <2>13. CASE Record(r)
      BY <2>0, <2>13, QuietKeeps DEF Record, Goto, InTx
    <2>14. CASE RecordError(r)
      BY <2>0, <2>14, QuietKeeps DEF RecordError, Goto, InTx
    <2>15. QED
      BY <1>1, <2>1, <2>2, <2>3, <2>4, <2>5, <2>6, <2>7, <2>8, <2>9, <2>10,
         <2>11, <2>12, <2>13, <2>14 DEF Step
  <1>2. ASSUME NEW r \in Requests, SqlError(r) PROVE LogInv'
    <2>1. pc[r] \in InTx
      BY <1>2 DEF SqlError, TypeOK, Coherent
    <2>2. QED
      BY <1>2, <2>1, FailKeeps DEF SqlError
  <1>3. ASSUME NEW r \in Requests, DeadlockAbort(r) PROVE LogInv'
    <2>1. pc[r] = "insert"
      BY <1>3 DEF DeadlockAbort, Deadlocked, WaitsFor
    <2>2. QED
      BY <1>3, <2>1, FailKeeps DEF DeadlockAbort, InTx
  <1>4. ASSUME NEW r \in Requests, Crash(r) PROVE LogInv'
    <2>1. /\ tx'[r] = NoTx /\ pc'[r] = "done"
          /\ \A q \in Requests \ {r} : tx'[q] = tx[q] /\ pc'[q] = pc[q]
      BY <1>4 DEF Crash, Goto, TypeOK
    <2>2. QED
      BY <1>4, <2>1, QuietKeeps DEF Crash, NoTx, InTx
  <1>5. CASE UNCHANGED <<events, outbox, tx, cmd, pc, turn, agg>>
    <2>1. ASSUME NEW q \in Requests PROVE Local(q)'
      <3>1. Local(q)
        BY DEF LogInv
      <3>2. Target(q)' = Target(q) /\ NewEvent(q)' = NewEvent(q) /\ Pending(q)' = Pending(q)
        BY <1>5 DEF Target, NewEvent, Pending
      <3>3. QED
        BY <1>5, <3>1, <3>2 DEF Local, OwnRow, Follows, SameSlot, Written, AtStep, Ids, EventId
    <2>2. QED
      BY <1>5, <2>1 DEF LogInv, Founded, Dense, SlotsUnique, SameSlot, EventsAreOutboxed,
                        EventId, LocksHeld, CommittedBy
  <1>6. QED
    BY <1>1, <1>2, <1>3, <1>4, <1>5 DEF Next, Finished, Expire, vars, db

\* Type correctness and the log's invariant together, in every state.
THEOREM Invariance == Spec => [](TypeOK /\ LogInv)
  <1>1. Init => TypeOK /\ LogInv
    BY InitTypeOK, InitLogInv
  <1>2. TypeOK /\ LogInv /\ [Next]_vars => (TypeOK /\ LogInv)'
    BY NextTypeOK, NextLogInv
  <1>3. QED
    BY <1>1, <1>2, PTL DEF Spec

\* Every stream is versions 1, 2, 3 ... without gap or repetition, for any
\* number of concurrent requests.
THEOREM StreamsAreContiguous == Spec => []StreamsContiguous
  BY Invariance, LogInvImplies, PTL

\* The outbox announces exactly the committed events, whatever fails or crashes
\* on the way.
THEOREM OutboxIsComplete == Spec => []EventsAreOutboxed
  BY Invariance, LogInvImplies, PTL

(***************************************************************************)
(* The pipeline implements EventLog.                                       *)
(***************************************************************************)

LEMMA CommitAppends ==
    ASSUME TypeOK, LogInv, NEW r \in Requests, Commit(r)
    PROVE  EventLog!Append(r) \/ UNCHANGED <<events, outbox>>
  <1>1. PICK rows : rows = tx[r].events
    OBVIOUS
  <1>2. /\ pc[r] = "commit" /\ events' = events \cup rows
        /\ outbox' = outbox \cup tx[r].outbox
    BY <1>1 DEF Commit
  <1>3. Ids(rows) = tx[r].outbox
    BY <1>1, <1>2 DEF LogInv, Local, Pending
  <1>4. CASE rows = {}
    BY <1>2, <1>3, <1>4 DEF Ids
  <1>5. CASE rows # {}
    <2>1. ASSUME NEW e \in rows
          PROVE  /\ e.req = r /\ e \notin events
                 /\ EventLog!Extends(e, events)
                 /\ \A f \in rows : f.stream = e.stream => f = e
      <3>1. OwnRow(r, e)
        BY <1>1 DEF LogInv, Local
      <3>2. \A f \in events : f.stream = e.stream => f.version < e.version
        BY <1>1, OwnRowIsLast
      <3>3. EventLog!Extends(e, events)
        BY <3>1, <3>2 DEF EventLog!Extends, OwnRow, Follows
      <3>4. QED
        BY <1>1, <3>1, <3>3 DEF OwnRow, SameSlot
    <2>2. events' \ events = rows
      BY <1>2, <2>1
    <2>3. \A e \in events : e.req # r
      BY <1>2 DEF LogInv, CommittedBy
    <2>4. outbox' = outbox \cup {EventLog!Id(e) : e \in events' \ events}
      BY <1>2, <1>3, <2>2 DEF Ids, EventId, EventLog!Id
    <2>5. QED
      BY <1>2, <1>5, <2>1, <2>2, <2>3, <2>4 DEF EventLog!Append
  <1>6. QED
    BY <1>4, <1>5

LEMMA StepAppends ==
    TypeOK /\ LogInv /\ [Next]_vars => [EventLog!Next]_<<events, outbox>>
  <1> SUFFICES ASSUME TypeOK, LogInv, [Next]_vars
               PROVE  EventLog!Next \/ UNCHANGED <<events, outbox>>
    BY DEF EventLog!Next
  <1>1. CASE \E r \in Requests : Commit(r)
    BY <1>1, CommitAppends DEF EventLog!Next
  <1>2. CASE ~ \E r \in Requests : Commit(r)
    BY <1>2 DEF Next, Step, ReplayRecorded, Proceed, Begin, LoadAggregate, RejectCommand,
                SkipMirror, StaleVersion, CheckVersion, InsertEvent, InsertConflict,
                WriteOutbox, Record, RecordError, SqlError, DeadlockAbort, Crash,
                Expire, Finished, vars, db
  <1>3. QED
    BY <1>1, <1>2

\* Each COMMIT is one atomic append, announced in full; every other step of the
\* pipeline leaves the log alone.
THEOREM Refinement == Spec => AppendsAtomically
  <1>1. Init => EventLog!Init
    <2> SUFFICES ASSUME Init PROVE EventLog!Init
      OBVIOUS
    <2>1. \A s \in Streams : [stream |-> s, version |-> 1, op |-> "create",
                              peer |-> NoPeer, req |-> NoRequest] \in events
      BY DEF Init
    <2>2. \A s \in Streams : \E e \in events : e.stream = s
      BY <2>1
    <2>3. \A e \in events : e.version = 1 /\ e.req = NoRequest
      BY DEF Init
    <2>4. QED
      BY <2>2, <2>3 DEF Init, EventLog!Init, EventId, EventLog!Id
  <1>2. QED
    BY <1>1, Invariance, StepAppends, PTL
       DEF Spec, AppendsAtomically, EventLog!Spec


=============================================================================
