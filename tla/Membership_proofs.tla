-------------------------- MODULE Membership_proofs --------------------------
(***************************************************************************)
(* Proofs about what CommandPipeline's rows MEAN, on top of the invariant  *)
(* of the log itself (CommandPipeline_proofs): an aggregate in memory and  *)
(* a snapshot are the replay of their stream's events, the guards of the   *)
(* aggregates hold of the log, an answer of Result.ok is durable, and the  *)
(* two sides of a membership agree.                                        *)
(***************************************************************************)
EXTENDS CommandPipeline_proofs

USE PipelineAssumption

(***************************************************************************)
(* The inductive invariant of the aggregates' states.                      *)
(***************************************************************************)

\* The rows of a stream up to a version, and below it.
UpTo(rows, s, v) == {e \in rows : e.stream = s /\ e.version <= v}
Below(rows, s, v) == {e \in rows : e.stream = s /\ e.version < v}

\* Peers are what the stream's rows up to v replay to, and v is one of them:
\* a row that extends the stream later does not change that.
Faithful(rows, s, v, peers) ==
    /\ \E e \in rows : e.stream = s /\ e.version = v
    /\ peers = Replay({}, UpTo(rows, s, v))

\* A join is of a peer the rows before it do not list, a leave of one they do.
Guarded(e, rows) ==
    e.op \in {"join", "leave"} =>
        ((e.op = "join") <=> (e.peer \notin Replay({}, Below(rows, e.stream, e.version))))

View(r) == events \cup tx[r].events

\* r's script has passed a load of s.
Loaded(r, s) == \E i \in 1 .. Len(Script(cmd[r])) :
                    /\ i < turn[r]
                    /\ Script(cmd[r])[i].do = "load" /\ Script(cmd[r])[i].stream = s

\* The aggregates r has loaded are replays of versions it saw, its own rows
\* included.  Between the version check and the INSERT the target is one event
\* ahead of the rows.
MemoryFaithful(r) ==
    pc[r] \in {"load", "save", "insert", "outbox"} =>
        \A s \in Streams :
            Loaded(r, s) /\ ~(pc[r] = "insert" /\ s = Target(r))
                => Faithful(View(r), s, agg[r][s].version, agg[r][s].peers)

InsertReady(r) ==
    pc[r] = "insert" =>
        LET e == NewEvent(r) IN
        /\ Guarded(e, events)
        /\ agg[r][Target(r)].peers =
              PeersAfter(cmd[r], Target(r), Replay({}, Below(events, e.stream, e.version)))

\* Uncommitted rows will hold what the committed ones do.
RowsGuarded(r) == \A e \in tx[r].events : Guarded(e, events)
SnapsOwn(r) == \A n \in tx[r].snaps : Faithful(View(r), n.stream, n.version, n.peers)

AtStart(r) == pc[r] \in {"lookup", "begin"} => turn[r] = 1

InMemory(r) == /\ MemoryFaithful(r) /\ InsertReady(r)
               /\ RowsGuarded(r) /\ SnapsOwn(r) /\ AtStart(r)

StateInv == /\ \A e \in events : Guarded(e, events)
            /\ \A n \in snaps : Faithful(events, n.stream, n.version, n.peers)
            /\ \A r \in Requests : InMemory(r)

(***************************************************************************)
(* Replay, and how rows that extend a stream leave its past alone.         *)
(***************************************************************************)

\* Replaying later rows over the state of the earlier ones is replaying both:
\* what a load that starts from a snapshot relies on.
LEMMA ReplaySplit ==
    ASSUME NEW lo \in SUBSET Events, NEW hi \in SUBSET Events, NEW peers,
           \A e \in lo, f \in hi : e.version < f.version
    PROVE  Replay(Replay(peers, lo), hi) = Replay(peers, lo \cup hi)
  <1>1. ASSUME NEW p \in Streams
        PROVE  p \in Replay(Replay(peers, lo), hi) <=> p \in Replay(peers, lo \cup hi)
    <2>1. \A e \in lo \cup hi : e.version \in Nat
      BY DEF Events
    <2> DEFINE inLo == {e \in lo : e.peer = p}
               inHi == {e \in hi : e.peer = p}
               both == {e \in lo \cup hi : e.peer = p}
    <2>2. CASE inHi = {}
      <3>1. both = inLo
        BY <2>2
      <3>2. QED
        BY <2>2, <3>1 DEF Replay
    <2>3. CASE inHi # {}
      <3>1. p \in Replay(Replay(peers, lo), hi)
              <=> \E e \in inHi : e.op = "join" /\ \A f \in inHi : f.version <= e.version
        BY <2>3 DEF Replay
      <3>2. p \in Replay(peers, lo \cup hi)
              <=> \E e \in both : e.op = "join" /\ \A f \in both : f.version <= e.version
        BY <2>3 DEF Replay
      <3>3. both = inLo \cup inHi
        OBVIOUS
      <3>4. \A e \in inLo, f \in inHi :
              e.version <= f.version /\ ~(f.version <= e.version)
        BY <2>1
      <3>5. QED
        BY <2>3, <3>1, <3>2, <3>3, <3>4
    <2>4. QED
      BY <2>2, <2>3
  <1>2. Replay(Replay(peers, lo), hi) \subseteq Streams /\ Replay(peers, lo \cup hi) \subseteq Streams
    BY DEF Replay
  <1>3. QED
    BY <1>1, <1>2

\* Replaying one more row lists its peer or stops listing it.
LEMMA ReplayOne ==
    ASSUME NEW lo \in SUBSET Events, NEW e \in Events, NEW peers,
           \A f \in lo : f.version < e.version, e.op = "join" => e.peer \in Streams
    PROVE  Replay(peers, lo \cup {e}) =
             (Replay(peers, lo) \ {e.peer}) \cup (IF e.op = "join" THEN {e.peer} ELSE {})
  <1>1. \A f \in lo \cup {e} : f.version \in Nat
    BY DEF Events
  <1>2. ASSUME NEW p \in Streams, p # e.peer
        PROVE  p \in Replay(peers, lo \cup {e}) <=> p \in Replay(peers, lo)
    <2>1. {f \in lo \cup {e} : f.peer = p} = {f \in lo : f.peer = p}
      BY <1>2
    <2>2. QED
      BY <2>1 DEF Replay
  <1>3. e.peer \in Streams => (e.peer \in Replay(peers, lo \cup {e}) <=> e.op = "join")
    <2>1. \A f \in lo : f.version <= e.version /\ ~(e.version <= f.version)
      BY <1>1
    <2>2. e.version <= e.version
      BY <1>1
    <2>3. QED
      BY <2>1, <2>2 DEF Replay
  <1>4. Replay(peers, lo \cup {e}) \subseteq Streams /\ Replay(peers, lo) \subseteq Streams
    BY DEF Replay
  <1>5. QED
    BY <1>2, <1>3, <1>4

\* Rows added above v leave the stream's past up to v as it was.
LEMMA FaithfulGrows ==
    ASSUME NEW rows, NEW new, NEW s, NEW v, NEW peers, Faithful(rows, s, v, peers),
           \A g \in new : g.stream = s => ~(g.version <= v)
    PROVE  Faithful(rows \cup new, s, v, peers)
  <1>1. UpTo(rows \cup new, s, v) = UpTo(rows, s, v)
    BY DEF UpTo
  <1>2. QED
    BY <1>1 DEF Faithful

LEMMA GuardedGrows ==
    ASSUME NEW rows, NEW new, NEW e,
           \A g \in new : g.stream = e.stream => ~(g.version < e.version)
    PROVE  /\ Below(rows \cup new, e.stream, e.version) = Below(rows, e.stream, e.version)
           /\ Guarded(e, rows) => Guarded(e, rows \cup new)
  <1>1. Below(rows \cup new, e.stream, e.version) = Below(rows, e.stream, e.version)
    BY DEF Below
  <1>2. QED
    BY <1>1 DEF Guarded

(***************************************************************************)
(* The scripts: an aggregate is loaded before it is saved.                 *)
(***************************************************************************)

LEMMA LoadBeforeSave ==
    ASSUME NEW c \in Commands, NEW i \in 1 .. Len(Script(c)), Script(c)[i].do = "save"
    PROVE  /\ \E j \in 1 .. Len(Script(c)) :
                 j < i /\ Script(c)[j].do = "load" /\ Script(c)[j].stream = Script(c)[i].stream
           /\ \A j \in 1 .. Len(Script(c)) :
                 Script(c)[j].do = "load" /\ Script(c)[j].stream = Script(c)[i].stream => j < i
  <1>1. c.kind \in Kinds /\ c.org \in Orgs /\ c.user \in Users /\ c.org # c.user
    BY DEF Commands
  <1>2. CASE c.kind = "add"
    BY <1>1, <1>2 DEF Script, Load, Save
  <1>3. CASE c.kind = "remove"
    BY <1>1, <1>3 DEF Script, Load, Save
  <1>4. CASE c.kind = "join"
    BY <1>1, <1>4 DEF Script, Load, Save
  <1>5. CASE c.kind = "update"
    BY <1>1, <1>5 DEF Script, Load, Save
  <1>6. QED
    BY <1>1, <1>2, <1>3, <1>4, <1>5 DEF Kinds

\* Before r inserts at this step, its transaction has no row of its target.
LEMMA TargetUntouched ==
    ASSUME TypeOK, LogInv, NEW r \in Requests, pc[r] \in {"load", "save", "insert"}
    PROVE  /\ \A e \in tx[r].events : e.stream # Target(r)
           /\ Rows(r, Target(r)) = {e \in events : e.stream = Target(r)}
  <1>1. ASSUME NEW e \in tx[r].events, e.stream = Target(r) PROVE FALSE
    <2>1. CASE pc[r] = "load"
      <3>1. Written(r, e.stream) /\ Script(cmd[r])[turn[r]].do = "load"
        BY <2>1 DEF LogInv, Local, OwnRow, AtStep
      <3>2. PICK i \in 1 .. Len(Script(cmd[r])) :
              /\ Script(cmd[r])[i].do = "save" /\ Script(cmd[r])[i].stream = Target(r)
              /\ i < turn[r]
        BY <1>1, <2>1, <3>1 DEF Written
      <3>3. cmd[r] \in Commands /\ turn[r] \in 1 .. Len(Script(cmd[r]))
        BY TargetType
      <3>4. turn[r] < i
        BY <3>1, <3>2, <3>3, LoadBeforeSave DEF Target
      <3>5. QED
        BY <3>2, <3>3, <3>4
    <2>2. CASE pc[r] # "load"
      BY <1>1, <2>2, NotWrittenYet
    <2>3. QED
      BY <2>1, <2>2
  <1>2. QED
    BY <1>1 DEF Rows

\* A save's aggregate has been loaded.
LEMMA TargetLoaded ==
    ASSUME TypeOK, LogInv, NEW r \in Requests, pc[r] \in {"save", "insert", "outbox"}
    PROVE  Loaded(r, Target(r))
  <1>1. cmd[r] \in Commands /\ turn[r] \in 1 .. Len(Script(cmd[r]))
    BY TargetType
  <1>2. Script(cmd[r])[turn[r]].do = "save"
    BY DEF LogInv, Local, AtStep
  <1>3. QED
    BY <1>1, <1>2, LoadBeforeSave DEF Loaded, Target

\* Two open transactions never have rows of one stream: each extends the last
\* committed version, and the unique index gives that slot to one of them.
LEMMA OneWriter ==
    ASSUME TypeOK, LogInv, NEW q \in Requests, NEW r \in Requests, q # r,
           NEW e \in tx[q].events, NEW f \in tx[r].events
    PROVE  e.stream # f.stream
  <1>1. SUFFICES ASSUME e.stream = f.stream PROVE FALSE
    OBVIOUS
  <1>2. OwnRow(q, e) /\ OwnRow(r, f)
    BY DEF LogInv, Local
  <1>3. PICK d \in events : d.stream = e.stream /\ d.version + 1 = e.version
    BY <1>2 DEF OwnRow, Follows
  <1>4. PICK g \in events : g.stream = f.stream /\ g.version + 1 = f.version
    BY <1>2 DEF OwnRow, Follows
  <1>5. d.version < f.version /\ g.version < e.version
    BY <1>1, <1>3, <1>4, OwnRowIsLast
  <1>6. /\ d.version \in Nat /\ g.version \in Nat
        /\ e.version \in Nat /\ f.version \in Nat
    BY DEF TypeOK, TxStates, Events
  <1>7. e.version = f.version
    BY <1>3, <1>4, <1>5, <1>6
  <1>8. QED
    BY <1>1, <1>7 DEF LogInv, LocksHeld, SameSlot

\* What Advance does to where r stands.
LEMMA AdvanceLoads ==
    ASSUME TypeOK, LogInv, NEW r \in Requests, Advance(r), UNCHANGED cmd,
           pc[r] \in {"load", "save", "outbox"}, pc'[r] # "commit", NEW s \in Streams,
           Loaded(r, s)'
    PROVE  Loaded(r, s) \/ (pc[r] = "load" /\ s = Target(r))
  <1>1. turn'[r] = turn[r] + 1 /\ turn[r] \in 1 .. 4
    BY AdvanceEffect DEF TypeOK
  <1>2. PICK i \in 1 .. Len(Script(cmd[r])) :
          i < turn'[r] /\ Script(cmd[r])[i].do = "load" /\ Script(cmd[r])[i].stream = s
    BY DEF Loaded
  <1>3. cmd[r] \in Commands
    BY TargetType
  <1>4. i < turn[r] \/ i = turn[r]
    BY <1>1, <1>2, <1>3, ScriptSteps
  <1>5. QED
    BY <1>2, <1>4 DEF Loaded, LogInv, Local, AtStep, Target

(***************************************************************************)
(* The states are kept: what each step does to them.                       *)
(***************************************************************************)

\* A step that commits nothing has only to keep its own request's memory.
LEMMA MemoryStep ==
    ASSUME StateInv, NEW r \in Requests, UNCHANGED <<db, cmd>>,
           \A q \in Requests \ {r} : /\ tx'[q] = tx[q] /\ pc'[q] = pc[q]
                                     /\ turn'[q] = turn[q] /\ agg'[q] = agg[q],
           InMemory(r)'
    PROVE  StateInv'
  <1>1. events' = events /\ snaps' = snaps /\ cmd' = cmd
    BY DEF db
  <1>2. ASSUME NEW q \in Requests, q # r PROVE InMemory(q)'
    <2>1. /\ tx'[q] = tx[q] /\ pc'[q] = pc[q] /\ turn'[q] = turn[q] /\ agg'[q] = agg[q]
          /\ InMemory(q)
      BY <1>2 DEF StateInv
    <2>2. Target(q)' = Target(q) /\ NewEvent(q)' = NewEvent(q) /\ View(q)' = View(q)
      BY <1>1, <2>1 DEF Target, NewEvent, View
    <2>3. \A s : Loaded(q, s)' <=> Loaded(q, s)
      BY <1>1, <2>1 DEF Loaded
    <2>4. MemoryFaithful(q)'
      BY <1>1, <2>1, <2>2, <2>3 DEF InMemory, MemoryFaithful
    <2>5. InsertReady(q)'
      BY <1>1, <2>1, <2>2 DEF InMemory, InsertReady
    <2>6. RowsGuarded(q)' /\ SnapsOwn(q)' /\ AtStart(q)'
      BY <1>1, <2>1, <2>2 DEF InMemory, RowsGuarded, SnapsOwn, AtStart
    <2>7. QED
      BY <2>4, <2>5, <2>6 DEF InMemory
  <1>3. \A e \in events' : Guarded(e, events')
    BY <1>1 DEF StateInv
  <1>4. QED
    BY <1>1, <1>2, <1>3 DEF StateInv

\* A step that leaves r without rows and outside the handler's statements.
LEMMA OutsideKeeps ==
    ASSUME TypeOK, StateInv, NEW r \in Requests, UNCHANGED <<db, cmd, turn, agg>>,
           \A q \in Requests \ {r} : tx'[q] = tx[q] /\ pc'[q] = pc[q],
           tx'[r].events = {}, tx'[r].snaps = {},
           \/ pc'[r] \in {"commit", "record", "done"}
           \/ pc[r] \in {"lookup", "begin"} /\ pc'[r] \in {"begin", "load", "save"}
    PROVE  StateInv'
  <1>1. RowsGuarded(r)' /\ SnapsOwn(r)'
    BY DEF RowsGuarded, SnapsOwn
  <1>2. pc'[r] \in {"begin", "load", "save"} => turn[r] = 1
    BY DEF StateInv, InMemory, AtStart
  <1>3. turn[r] = 1 => \A s : ~Loaded(r, s)'
    BY TargetType, ScriptSteps DEF Loaded
  <1>4. MemoryFaithful(r)' /\ InsertReady(r)' /\ AtStart(r)'
    BY <1>2, <1>3 DEF MemoryFaithful, InsertReady, AtStart
  <1>5. QED
    BY <1>1, <1>4, MemoryStep DEF InMemory

\* Failing the command ends the handler; its rows stay, or are rolled back.
LEMMA FailKeepsState ==
    ASSUME TypeOK, StateInv, NEW r \in Requests, Fail(r),
           Abort(r) \/ UNCHANGED tx, UNCHANGED <<db, cmd, agg>>
    PROVE  StateInv'
  <1>1. /\ pc'[r] = "commit" /\ turn' = turn
        /\ \A q \in Requests \ {r} : pc'[q] = pc[q]
    BY DEF Fail, Goto, TypeOK
  <1>2. MemoryFaithful(r)' /\ InsertReady(r)' /\ AtStart(r)'
    BY <1>1 DEF MemoryFaithful, InsertReady, AtStart
  <1>3. CASE Abort(r)
    <2>1. /\ tx'[r].events = {} /\ tx'[r].snaps = {}
          /\ \A q \in Requests \ {r} : tx'[q] = tx[q]
      BY <1>3, AbortType DEF RolledBack, NoTx
    <2>2. QED
      BY <1>1, <2>1, OutsideKeeps
  <1>4. CASE UNCHANGED tx
    <2>1. RowsGuarded(r)' /\ SnapsOwn(r)'
      BY <1>4 DEF StateInv, InMemory, RowsGuarded, SnapsOwn, View, db
    <2>2. QED
      BY <1>1, <1>2, <1>4, <2>1, MemoryStep DEF InMemory
  <1>5. QED
    BY <1>3, <1>4

\* A load restores the last committed state of its stream, from whichever
\* snapshot it starts.
LEMMA LoadEffect ==
    ASSUME TypeOK, LogInv, StateInv, NEW r \in Requests, LoadAggregate(r)
    PROVE  /\ Faithful(events, Target(r), agg'[r][Target(r)].version,
                                          agg'[r][Target(r)].peers)
           /\ \A e \in events :
                 e.stream = Target(r) => e.version <= agg'[r][Target(r)].version
           /\ \A s \in Streams \ {Target(r)} : agg'[r][s] = agg[r][s]
           /\ \A q \in Requests \ {r} : agg'[q] = agg[q]
  <1> DEFINE s == Target(r)
  <1>1. pc[r] = "load" /\ s \in Streams /\ agg \in [Requests -> [Streams -> Aggregates]]
    BY TargetType DEF LoadAggregate, TypeOK
  <1>2. PICK base \in Bases(r, s) :
          LET rows == {e \in Rows(r, s) : e.version > base.version} IN
          \E v \in {e.version : e \in rows} \cup {base.version} :
            /\ \A e \in rows : e.version <= v
            /\ agg' = [agg EXCEPT ![r][s] =
                          [version |-> v, peers |-> Replay(base.peers, rows)]]
    BY DEF LoadAggregate
  <1> DEFINE lo == UpTo(events, s, base.version)
             hi == {e \in Rows(r, s) : e.version > base.version}
  <1>3. PICK v \in {e.version : e \in hi} \cup {base.version} :
          /\ \A e \in hi : e.version <= v
          /\ agg' = [agg EXCEPT ![r][s] =
                        [version |-> v, peers |-> Replay(base.peers, hi)]]
    BY <1>2
  <1>4. Rows(r, s) = {e \in events : e.stream = s} /\ \A e \in tx[r].events : e.stream # s
    BY <1>1, TargetUntouched
  <1>5. \A e \in events : e.version \in Nat /\ e.version >= 1
    BY DEF TypeOK, Events, LogInv, Dense
  <1>6. /\ base.version \in Nat /\ base.peers = Replay({}, lo)
        /\ base.version = 0 \/ \E e \in events : e.stream = s /\ e.version = base.version
    <2>1. CASE base = Empty
      <3>1. lo = {} /\ Replay({}, {}) = {}
        BY <1>5, <2>1 DEF UpTo, Empty, Replay
      <3>2. QED
        BY <2>1, <3>1 DEF Empty
    <2>2. CASE base # Empty
      <3>1. base \in snaps \cup tx[r].snaps /\ base.stream = s
        BY <1>2, <2>2 DEF Bases
      <3>2. Faithful(events, s, base.version, base.peers)
        <4>1. CASE base \in snaps
          BY <3>1, <4>1 DEF StateInv
        <4>2. CASE base \in tx[r].snaps
          <5>1. Faithful(View(r), s, base.version, base.peers)
            BY <3>1, <4>2 DEF StateInv, InMemory, SnapsOwn
          <5>2. UpTo(View(r), s, base.version) = UpTo(events, s, base.version)
            BY <1>4 DEF UpTo, View
          <5>3. QED
            BY <1>4, <5>1, <5>2 DEF Faithful, View
        <4>3. QED
          BY <3>1, <4>1, <4>2
      <3>3. QED
        BY <1>5, <3>2 DEF Faithful
    <2>3. QED
      BY <2>1, <2>2
  <1>7. v \in Nat /\ base.version <= v /\ \E e \in events : e.stream = s /\ e.version = v
    <2>1. CASE v \in {e.version : e \in hi}
      BY <1>4, <1>5, <1>6, <2>1
    <2>2. CASE v = base.version /\ v # 0
      BY <1>6, <2>2
    <2>3. CASE v = base.version /\ v = 0
      <3>1. PICK e \in events : e.stream = s /\ e.version = 1
        BY <1>1 DEF LogInv, Founded
      <3>2. e \in hi
        BY <1>4, <2>3, <3>1
      <3>3. QED
        BY <1>3, <2>3, <3>1, <3>2
    <2>4. QED
      BY <1>3, <2>1, <2>2, <2>3
  <1>8. UpTo(events, s, v) = lo \cup hi
    <2>1. ASSUME NEW e \in events, e.stream = s
          PROVE  e.version <= v <=> e.version <= base.version \/ e.version > base.version
      BY <1>3, <1>4, <1>5, <1>6, <1>7, <2>1
    <2>2. QED
      BY <1>4, <2>1 DEF UpTo
  <1>9. Replay(base.peers, hi) = Replay({}, lo \cup hi)
    <2>1. lo \in SUBSET Events /\ hi \in SUBSET Events
      BY <1>4 DEF UpTo, TypeOK
    <2>2. \A e \in lo, f \in hi : e.version < f.version
      BY <1>4, <1>5, <1>6 DEF UpTo
    <2>3. QED
      BY <1>6, <2>1, <2>2, ReplaySplit
  <1>10. agg'[r][s].version = v /\ agg'[r][s].peers = Replay(base.peers, hi)
    BY <1>1, <1>3
  <1>11. \A e \in events : e.stream = s => e.version <= v
    BY <1>3, <1>4, <1>5, <1>6, <1>7
  <1>12. /\ \A t \in Streams \ {s} : agg'[r][t] = agg[r][t]
         /\ \A q \in Requests \ {r} : agg'[q] = agg[q]
    BY <1>1, <1>3
  <1>13. QED
    BY <1>7, <1>8, <1>9, <1>10, <1>11, <1>12 DEF Faithful

\* A statement that ends in Advance and inserts no event.
LEMMA AdvanceKeepsState ==
    ASSUME TypeOK, LogInv, StateInv, NEW r \in Requests, Advance(r),
           pc[r] \in {"load", "save", "outbox"}, UNCHANGED <<db, cmd>>,
           \A q \in Requests \ {r} : tx'[q] = tx[q] /\ agg'[q] = agg[q],
           tx'[r].events = tx[r].events, SnapsOwn(r)',
           \A s \in Streams :
              Loaded(r, s) \/ (pc[r] = "load" /\ s = Target(r))
                => Faithful(View(r), s, agg'[r][s].version, agg'[r][s].peers)
    PROVE  StateInv'
  <1>1. /\ pc'[r] \in {"load", "save", "commit"}
        /\ \A q \in Requests \ {r} : turn'[q] = turn[q] /\ pc'[q] = pc[q]
    BY AdvanceEffect
  <1>2. View(r)' = View(r)
    BY DEF View, db
  <1>3. MemoryFaithful(r)'
    <2>1. ASSUME NEW s \in Streams, Loaded(r, s)', pc'[r] # "commit"
          PROVE  Faithful(View(r)', s, agg'[r][s].version, agg'[r][s].peers)
      BY <1>2, <2>1, AdvanceLoads
    <2>2. QED
      BY <1>1, <2>1 DEF MemoryFaithful
  <1>4. RowsGuarded(r)' /\ InsertReady(r)' /\ AtStart(r)'
    BY <1>1 DEF StateInv, InMemory, RowsGuarded, InsertReady, AtStart, db
  <1>5. QED
    BY <1>1, <1>3, <1>4, MemoryStep DEF InMemory

\* The version check passes the guard's result on to the event about to be
\* inserted: the aggregate it was evaluated on is the stream's current state.
LEMMA CheckVersionKeepsState ==
    ASSUME TypeOK, LogInv, StateInv, NEW r \in Requests, CheckVersion(r)
    PROVE  StateInv'
  <1> DEFINE s == Target(r)
             v == agg[r][s].version
             peers == agg[r][s].peers
  <1>1. /\ pc[r] = "save" /\ Allowed(cmd[r], s, peers) /\ s \in Streams
        /\ LatestIs(Rows(r, s), v) /\ cmd[r] \in Commands
        /\ UNCHANGED <<db, tx, cmd, turn>>
    BY TargetType DEF CheckVersion
  <1>2. /\ pc'[r] = "insert"
        /\ \A q \in Requests \ {r} : pc'[q] = pc[q]
    BY DEF CheckVersion, Goto, TypeOK
  <1>3. /\ agg'[r][s].version = v + 1
        /\ agg'[r][s].peers = PeersAfter(cmd[r], s, peers)
        /\ \A t \in Streams \ {s} : agg'[r][t] = agg[r][t]
        /\ \A q \in Requests \ {r} : agg'[q] = agg[q]
    BY <1>1 DEF CheckVersion, TypeOK
  <1>4. Target(r)' = s /\ View(r)' = View(r) /\ events' = events
    BY <1>1 DEF Target, View, db
  <1>5. \A t : Loaded(r, t)' <=> Loaded(r, t)
    BY <1>1 DEF Loaded
  <1>6. MemoryFaithful(r)'
    <2>1. ASSUME NEW t \in Streams, Loaded(r, t), t # s
          PROVE  Faithful(View(r), t, agg'[r][t].version, agg'[r][t].peers)
      BY <1>1, <1>3, <2>1 DEF StateInv, InMemory, MemoryFaithful
    <2>2. QED
      BY <1>2, <1>4, <1>5, <2>1 DEF MemoryFaithful
  <1>7. InsertReady(r)'
    <2>1. /\ NewEvent(r)'.stream = s /\ NewEvent(r)'.version = v + 1
          /\ NewEvent(r)'.op = Op(cmd[r]) /\ NewEvent(r)'.peer = Peer(cmd[r], s)
      BY <1>1, <1>3, <1>4 DEF NewEvent
    <2>2. peers = Replay({}, UpTo(View(r), s, v))
      BY <1>1, TargetLoaded DEF StateInv, InMemory, MemoryFaithful, Faithful
    <2>3. UpTo(View(r), s, v) = Below(events, s, v + 1)
      <3>1. v \in Nat /\ \A e \in events : e.version \in Nat
        BY RowTypes DEF Aggregates, TypeOK, Events
      <3>2. \A e \in tx[r].events : e.stream # s
        BY <1>1, TargetUntouched
      <3>3. \A e \in events : e.version <= v <=> e.version < v + 1
        BY <3>1
      <3>4. QED
        BY <3>2, <3>3 DEF UpTo, Below, View
    <2>4. Op(cmd[r]) \in {"join", "leave"} =>
            ((Op(cmd[r]) = "join") <=> (Peer(cmd[r], s) \notin peers))
      BY <1>1 DEF Allowed
    <2>5. Guarded(NewEvent(r)', events)
      BY <2>1, <2>2, <2>3, <2>4 DEF Guarded
    <2>6. agg'[r][s].peers = PeersAfter(cmd[r], s, Replay({}, Below(events, s, v + 1)))
      BY <1>3, <2>2, <2>3
    <2>7. QED
      BY <1>1, <1>4, <2>1, <2>5, <2>6 DEF InsertReady
  <1>8. RowsGuarded(r)' /\ SnapsOwn(r)' /\ AtStart(r)'
    BY <1>1, <1>2, <1>4 DEF StateInv, InMemory, RowsGuarded, SnapsOwn, AtStart
  <1>9. QED
    BY <1>1, <1>2, <1>3, <1>6, <1>7, <1>8, MemoryStep DEF InMemory

\* The INSERT brings the rows level with the aggregate.
LEMMA InsertEventKeepsState ==
    ASSUME TypeOK, LogInv, StateInv, NEW r \in Requests, InsertEvent(r)
    PROVE  StateInv'
  <1>0. PICK e : e = NewEvent(r)
    OBVIOUS
  <1> DEFINE s == Target(r)
  <1>1. /\ pc[r] = "insert" /\ Taken(r) = {} /\ s \in Streams /\ cmd[r] \in Commands
        /\ UNCHANGED <<db, cmd, turn, agg>>
    BY TargetType DEF InsertEvent
  <1>2. /\ pc'[r] = "outbox"
        /\ \A q \in Requests \ {r} : pc'[q] = pc[q]
    BY DEF InsertEvent, Goto, TypeOK
  <1>3. /\ tx'[r].events = tx[r].events \cup {e} /\ tx'[r].snaps = tx[r].snaps
        /\ \A q \in Requests \ {r} : tx'[q] = tx[q]
    BY <1>0 DEF InsertEvent, TypeOK, TxStates
  <1>4. /\ e \in Events /\ e.stream = s /\ e.version = agg[r][s].version
        /\ e.op = Op(cmd[r]) /\ e.peer = Peer(cmd[r], s)
        /\ e.op = "join" => e.peer \in Streams
    BY <1>0, <1>1, RowTypes, EventTypes DEF NewEvent
  <1>5. Target(r)' = s /\ View(r)' = View(r) \cup {e} /\ events' = events
    BY <1>1, <1>3 DEF Target, View, db
  <1>6. \A t : Loaded(r, t)' <=> Loaded(r, t)
    BY <1>1 DEF Loaded
  <1>7. \A f \in tx[r].events : f.stream # s
    BY <1>1, TargetUntouched
  <1>8. \A f \in events : f.stream = s => f.version < e.version
    <2>1. Follows(e) /\ \A f \in events : ~SameSlot(f, e)
      BY <1>0, <1>1 DEF LogInv, Local, Taken
    <2>2. PICK d \in events : d.stream = s /\ d.version + 1 = e.version
      BY <1>4, <2>1 DEF Follows
    <2>3. ASSUME NEW f \in events, f.stream = s, ~(f.version < e.version) PROVE FALSE
      <3>1. f.version \in Nat /\ e.version \in Nat /\ d.version \in Nat
        BY <1>4 DEF TypeOK, Events
      <3>2. e.version \in 1 .. f.version
        BY <2>2, <2>3, <3>1
      <3>3. PICK g \in events : g.stream = f.stream /\ g.version = e.version
        BY <3>2 DEF LogInv, Dense
      <3>4. QED
        BY <1>4, <2>1, <2>3, <3>3 DEF SameSlot
    <2>4. QED
      BY <2>3
  <1>9. ASSUME NEW t \in Streams, NEW v, NEW peers, t # s, Faithful(View(r), t, v, peers)
        PROVE  Faithful(View(r)', t, v, peers)
    <2>1. \A g \in {e} : g.stream = t => ~(g.version <= v)
      BY <1>4, <1>9
    <2>2. Faithful(View(r) \cup {e}, t, v, peers)
      BY <1>9, <2>1, FaithfulGrows
    <2>3. QED
      BY <1>5, <2>2
  <1>10. Faithful(View(r)', s, e.version, agg[r][s].peers)
    <2>1. agg[r][s].peers = PeersAfter(cmd[r], s, Replay({}, Below(events, s, e.version)))
      BY <1>0, <1>1, <1>4 DEF StateInv, InMemory, InsertReady
    <2>2. UpTo(View(r)', s, e.version) = Below(events, s, e.version) \cup {e}
      <3>1. e.version <= e.version /\ \A f \in events : f.stream = s => f.version <= e.version
        BY <1>4, <1>8 DEF Events, TypeOK
      <3>2. QED
        BY <1>4, <1>5, <1>7, <1>8, <3>1 DEF UpTo, Below, View
    <2>3. Replay({}, Below(events, s, e.version) \cup {e}) =
            PeersAfter(cmd[r], s, Replay({}, Below(events, s, e.version)))
      <3>1. Below(events, s, e.version) \in SUBSET Events
        BY DEF Below, TypeOK
      <3>2. \A f \in Below(events, s, e.version) : f.version < e.version
        BY DEF Below
      <3>3. QED
        BY <1>4, <3>1, <3>2, ReplayOne DEF PeersAfter
    <2>4. QED
      BY <1>4, <1>5, <2>1, <2>2, <2>3 DEF Faithful
  <1>11. MemoryFaithful(r)'
    <2>1. ASSUME NEW t \in Streams, Loaded(r, t)
          PROVE  Faithful(View(r)', t, agg[r][t].version, agg[r][t].peers)
      <3>1. CASE t = s
        BY <1>4, <1>10, <3>1
      <3>2. CASE t # s
        BY <1>1, <1>9, <2>1, <3>2 DEF StateInv, InMemory, MemoryFaithful
      <3>3. QED
        BY <3>1, <3>2
    <2>2. QED
      BY <1>1, <1>6, <2>1 DEF MemoryFaithful
  <1>12. RowsGuarded(r)'
    BY <1>0, <1>1, <1>3, <1>5 DEF StateInv, InMemory, RowsGuarded, InsertReady
  <1>13. SnapsOwn(r)'
    <2>1. ASSUME NEW n \in tx[r].snaps
          PROVE  Faithful(View(r)', n.stream, n.version, n.peers)
      <3>1. Faithful(View(r), n.stream, n.version, n.peers)
        BY DEF StateInv, InMemory, SnapsOwn
      <3>2. \E f \in View(r) : f.stream = n.stream /\ f.version = n.version
        BY <3>1 DEF Faithful
      <3>3. e.stream = n.stream => ~(e.version <= n.version)
        <4>1. \A f \in View(r) : f.version \in Nat
          BY DEF View, TypeOK, TxStates, Events
        <4>2. e.version \in Nat
          BY <1>4 DEF Events
        <4>3. QED
          BY <1>4, <1>7, <1>8, <3>2, <4>1, <4>2 DEF View
      <3>4. Faithful(View(r) \cup {e}, n.stream, n.version, n.peers)
        BY <3>1, <3>3, FaithfulGrows
      <3>5. QED
        BY <1>5, <3>4
    <2>2. QED
      BY <1>3, <2>1 DEF SnapsOwn
  <1>14. InsertReady(r)' /\ AtStart(r)'
    BY <1>2 DEF InsertReady, AtStart
  <1>15. QED
    BY <1>1, <1>2, <1>3, <1>11, <1>12, <1>13, <1>14, MemoryStep DEF InMemory

\* COMMIT extends streams, and changes no past that anyone relies on.
LEMMA CommitKeepsState ==
    ASSUME TypeOK, LogInv, StateInv, NEW r \in Requests, Commit(r)
    PROVE  StateInv'
  <1>0. PICK rows : rows = tx[r].events
    OBVIOUS
  <1>1. /\ pc[r] = "commit" /\ events' = events \cup rows
        /\ snaps' = snaps \cup tx[r].snaps
        /\ UNCHANGED <<cmd, turn, agg>>
    BY <1>0 DEF Commit
  <1>2. /\ tx'[r] = NoTx
        /\ \A q \in Requests \ {r} : tx'[q] = tx[q]
    BY DEF Commit, TypeOK
  <1>3. /\ pc'[r] \in {"record", "done"}
        /\ \A q \in Requests \ {r} : pc'[q] = pc[q]
    BY DEF Commit, Goto, AfterCommit, TypeOK
  <1>4. \A g \in rows, f \in events :
          f.stream = g.stream => ~(g.version <= f.version) /\ ~(g.version < f.version)
    <2>1. \A g \in rows, f \in events : f.stream = g.stream => f.version < g.version
      BY <1>0, OwnRowIsLast
    <2>2. \A g \in rows \cup events : g.version \in Nat
      BY <1>0 DEF TypeOK, TxStates, Events
    <2>3. QED
      BY <2>1, <2>2
  <1>5. ASSUME NEW e \in events, Guarded(e, events) PROVE Guarded(e, events \cup rows)
    BY <1>4, <1>5, GuardedGrows
  <1>6. ASSUME NEW e, Guarded(e, events), Follows(e), e.version \in Nat,
               \A g \in rows : g.stream = e.stream => ~(g.version < e.version)
        PROVE  Guarded(e, events \cup rows)
    BY <1>6, GuardedGrows
  <1>7. ASSUME NEW e \in rows PROVE Guarded(e, events \cup rows)
    <2>1. Guarded(e, events) /\ OwnRow(r, e) /\ e.version \in Nat
      BY <1>0 DEF StateInv, InMemory, RowsGuarded, LogInv, Local, TypeOK, TxStates, Events
    <2>2. \A g \in rows : g.stream = e.stream => ~(g.version < e.version)
      BY <1>0, <2>1 DEF OwnRow
    <2>3. QED
      BY <2>1, <2>2, GuardedGrows
  <1>8. \A e \in events' : Guarded(e, events')
    BY <1>1, <1>5, <1>7 DEF StateInv
  <1>9. ASSUME NEW n \in snaps' PROVE Faithful(events', n.stream, n.version, n.peers)
    <2>1. CASE n \in snaps
      <3>1. Faithful(events, n.stream, n.version, n.peers)
        BY <2>1 DEF StateInv
      <3>2. \A g \in rows : g.stream = n.stream => ~(g.version <= n.version)
        BY <1>4, <3>1 DEF Faithful
      <3>3. Faithful(events \cup rows, n.stream, n.version, n.peers)
        BY <3>1, <3>2, FaithfulGrows
      <3>4. QED
        BY <1>1, <3>3
    <2>2. CASE n \in tx[r].snaps
      BY <1>0, <1>1, <2>2 DEF StateInv, InMemory, SnapsOwn, View
    <2>3. QED
      BY <1>1, <2>1, <2>2
  <1>10. InMemory(r)'
    BY <1>2, <1>3 DEF InMemory, MemoryFaithful, InsertReady, RowsGuarded, SnapsOwn, AtStart, NoTx
  <1>11. ASSUME NEW q \in Requests, q # r PROVE InMemory(q)'
    <2>1. /\ tx'[q] = tx[q] /\ pc'[q] = pc[q] /\ turn'[q] = turn[q] /\ agg'[q] = agg[q]
          /\ cmd'[q] = cmd[q] /\ InMemory(q) /\ Local(q)
      BY <1>1, <1>2, <1>3, <1>11 DEF StateInv, LogInv
    <2>2. Target(q)' = Target(q) /\ NewEvent(q)' = NewEvent(q)
      BY <2>1 DEF Target, NewEvent
    <2>3. View(q)' = View(q) \cup rows
      BY <1>1, <2>1 DEF View
    <2>4. \A s : Loaded(q, s)' <=> Loaded(q, s)
      BY <2>1 DEF Loaded
    <2>5. ASSUME NEW s, NEW v, NEW peers, Faithful(View(q), s, v, peers)
          PROVE  Faithful(View(q)', s, v, peers)
      <3>1. \A g \in rows : g.stream = s => ~(g.version <= v)
        <4>1. PICK f \in View(q) : f.stream = s /\ f.version = v
          BY <2>5 DEF Faithful
        <4>2. CASE f \in events
          BY <1>4, <4>1, <4>2
        <4>3. CASE f \in tx[q].events
          BY <1>0, <1>11, <4>1, <4>3, OneWriter
        <4>4. QED
          BY <4>1, <4>2, <4>3 DEF View
      <3>2. Faithful(View(q) \cup rows, s, v, peers)
        BY <2>5, <3>1, FaithfulGrows
      <3>3. QED
        BY <2>3, <3>2
    <2>6. MemoryFaithful(q)' /\ SnapsOwn(q)' /\ AtStart(q)'
      BY <2>1, <2>2, <2>4, <2>5 DEF InMemory, MemoryFaithful, SnapsOwn, AtStart
    <2>7. ASSUME NEW e, Follows(e), e.version \in Nat
          PROVE  \A g \in rows : g.stream = e.stream => ~(g.version < e.version)
      <3>1. PICK f \in events : f.stream = e.stream /\ f.version + 1 = e.version
        BY <2>7 DEF Follows
      <3>2. f.version \in Nat /\ \A g \in rows : g.version \in Nat
        BY <1>0 DEF TypeOK, TxStates, Events
      <3>3. \A g \in rows : g.stream = e.stream => ~(g.version <= f.version)
        BY <1>4, <3>1
      <3>4. QED
        BY <2>7, <3>1, <3>2, <3>3
    <2>8. RowsGuarded(q)'
      <3>1. ASSUME NEW e \in tx[q].events PROVE Guarded(e, events \cup rows)
        <4>1. Guarded(e, events) /\ Follows(e) /\ e.version \in Nat
          BY <2>1 DEF InMemory, RowsGuarded, Local, OwnRow, TypeOK, TxStates, Events
        <4>2. QED
          BY <1>6, <2>7, <4>1
      <3>2. QED
        BY <1>1, <2>1, <3>1 DEF RowsGuarded
    <2>9. InsertReady(q)'
      <3> DEFINE e == NewEvent(q)
      <3>1. SUFFICES ASSUME pc[q] = "insert" PROVE InsertReady(q)'
        BY <2>1 DEF InsertReady
      <3>2. Follows(e) /\ e.version \in Nat
        BY <2>1, <3>1, RowTypes DEF Local, Events
      <3>3. \A g \in rows : g.stream = e.stream => ~(g.version < e.version)
        BY <2>7, <3>2
      <3>4. /\ Guarded(e, events)
            /\ agg[q][Target(q)].peers =
                 PeersAfter(cmd[q], Target(q), Replay({}, Below(events, e.stream, e.version)))
        BY <2>1, <3>1 DEF InMemory, InsertReady
      <3> HIDE DEF e
      <3>5. /\ Guarded(e, events \cup rows)
            /\ Below(events \cup rows, e.stream, e.version) = Below(events, e.stream, e.version)
        BY <3>3, <3>4, GuardedGrows
      <3>6. QED
        BY <1>1, <2>1, <2>2, <3>4, <3>5 DEF InsertReady, e
    <2>10. QED
      BY <2>6, <2>8, <2>9 DEF InMemory
  <1>12. QED
    BY <1>8, <1>9, <1>10, <1>11 DEF StateInv

LEMMA InitStateInv == Init => StateInv
  <1> SUFFICES ASSUME Init PROVE StateInv
    OBVIOUS
  <1>1. \A e \in events : Guarded(e, events)
    BY DEF Init, Guarded
  <1>2. \A r \in Requests : InMemory(r)
    BY DEF Init, NoTx, InMemory, MemoryFaithful, InsertReady, RowsGuarded, SnapsOwn, AtStart
  <1>3. QED
    BY <1>1, <1>2 DEF Init, StateInv

LEMMA NextStateInv == TypeOK /\ LogInv /\ StateInv /\ [Next]_vars => StateInv'
  <1> SUFFICES ASSUME TypeOK, LogInv, StateInv, [Next]_vars PROVE StateInv'
    OBVIOUS
  <1>1. ASSUME NEW r \in Requests, Step(r) PROVE StateInv'
    <2>0. /\ pc[r] \notin InTx => tx[r].events = {} /\ tx[r].snaps = {}
          /\ pc \in [Requests -> Labels]
      BY DEF LogInv, Local, NoTx, TypeOK
    <2>1. CASE ReplayRecorded(r)
      BY <2>0, <2>1, OutsideKeeps DEF ReplayRecorded, Goto, InTx
    <2>2. CASE Proceed(r)
      BY <2>0, <2>2, OutsideKeeps DEF Proceed, Goto, InTx
    <2>3. CASE Begin(r)
      <3>1. /\ tx'[r].events = {} /\ tx'[r].snaps = {}
            /\ \A q \in Requests \ {r} : tx'[q] = tx[q]
        BY <2>0, <2>3 DEF Begin, InTx, TypeOK, TxStates
      <3>2. /\ pc'[r] \in {"load", "save"} /\ pc[r] = "begin"
            /\ \A q \in Requests \ {r} : pc'[q] = pc[q]
        BY <2>0, <2>3, TargetType DEF Begin, Goto
      <3>3. QED
        BY <2>3, <3>1, <3>2, OutsideKeeps DEF Begin
    <2>4. CASE LoadAggregate(r)
      <3>1. pc[r] = "load" /\ Advance(r) /\ UNCHANGED <<db, recorded, tx, cmd, key>>
        BY <2>4 DEF LoadAggregate
      <3>2. SnapsOwn(r)'
        BY <3>1 DEF StateInv, InMemory, SnapsOwn, View, db
      <3>3. ASSUME NEW s \in Streams, Loaded(r, s), s # Target(r)
            PROVE  Faithful(View(r), s, agg'[r][s].version, agg'[r][s].peers)
        BY <2>4, <3>1, <3>3, LoadEffect DEF StateInv, InMemory, MemoryFaithful
      <3>4. Faithful(View(r), Target(r), agg'[r][Target(r)].version, agg'[r][Target(r)].peers)
        <4>1. Faithful(events, Target(r), agg'[r][Target(r)].version, agg'[r][Target(r)].peers)
          BY <2>4, LoadEffect
        <4>2. \A g \in tx[r].events : g.stream # Target(r)
          BY <3>1, TargetUntouched
        <4>3. QED
          BY <4>1, <4>2, FaithfulGrows DEF View
      <3>5. QED
        BY <2>4, <3>1, <3>2, <3>3, <3>4, LoadEffect, AdvanceKeepsState
    <2>5. CASE RejectCommand(r)
      BY <2>5, FailKeepsState DEF RejectCommand
    <2>6. CASE SkipMirror(r)
      <3>1. pc[r] = "save" /\ Advance(r) /\ UNCHANGED <<db, recorded, tx, cmd, key, agg>>
        BY <2>6 DEF SkipMirror
      <3>2. SnapsOwn(r)'
        BY <3>1 DEF StateInv, InMemory, SnapsOwn, View, db
      <3>3. \A s \in Streams : Loaded(r, s) =>
              Faithful(View(r), s, agg'[r][s].version, agg'[r][s].peers)
        BY <3>1 DEF StateInv, InMemory, MemoryFaithful
      <3>4. QED
        BY <3>1, <3>2, <3>3, AdvanceKeepsState
    <2>7. CASE StaleVersion(r)
      BY <2>7, FailKeepsState DEF StaleVersion
    <2>8. CASE CheckVersion(r)
      BY <2>8, CheckVersionKeepsState
    <2>9. CASE InsertEvent(r)
      BY <2>9, InsertEventKeepsState
    <2>10. CASE InsertConflict(r)
      BY <2>10, FailKeepsState DEF InsertConflict
    <2>11. CASE WriteOutbox(r)
      <3>1. pc[r] = "outbox" /\ Advance(r) /\ UNCHANGED <<db, recorded, cmd, key, agg>>
        BY <2>11 DEF WriteOutbox
      <3>2. /\ tx'[r].events = tx[r].events
            /\ tx'[r].snaps \subseteq tx[r].snaps \cup {SnapshotOf(r)}
            /\ \A q \in Requests \ {r} : tx'[q] = tx[q]
        BY <2>11 DEF WriteOutbox, TypeOK, TxStates
      <3>3. \A s \in Streams : Loaded(r, s) =>
              Faithful(View(r), s, agg[r][s].version, agg[r][s].peers)
        BY <3>1 DEF StateInv, InMemory, MemoryFaithful
      <3>4. SnapsOwn(r)'
        <4>1. View(r)' = View(r)
          BY <3>1, <3>2 DEF View, db
        <4>2. LET n == SnapshotOf(r) IN Faithful(View(r), n.stream, n.version, n.peers)
          BY <3>1, <3>3, TargetType, TargetLoaded DEF SnapshotOf
        <4>3. QED
          BY <3>2, <4>1, <4>2 DEF StateInv, InMemory, SnapsOwn
      <3>5. QED
        BY <3>1, <3>2, <3>3, <3>4, AdvanceKeepsState
    <2>12. CASE Commit(r)
      BY <2>12, CommitKeepsState
    <2>13. CASE Record(r)
      BY <2>0, <2>13, OutsideKeeps DEF Record, Goto, InTx
    <2>14. CASE RecordError(r)
      BY <2>0, <2>14, OutsideKeeps DEF RecordError, Goto, InTx
    <2>15. QED
      BY <1>1, <2>1, <2>2, <2>3, <2>4, <2>5, <2>6, <2>7, <2>8, <2>9, <2>10,
         <2>11, <2>12, <2>13, <2>14 DEF Step
  <1>2. ASSUME NEW r \in Requests, SqlError(r) PROVE StateInv'
    BY <1>2, FailKeepsState DEF SqlError
  <1>3. ASSUME NEW r \in Requests, DeadlockAbort(r) PROVE StateInv'
    BY <1>3, FailKeepsState DEF DeadlockAbort
  <1>4. ASSUME NEW r \in Requests, Crash(r) PROVE StateInv'
    <2>1. /\ tx'[r] = NoTx /\ pc'[r] = "done"
          /\ \A q \in Requests \ {r} : tx'[q] = tx[q] /\ pc'[q] = pc[q]
      BY <1>4 DEF Crash, Goto, TypeOK
    <2>2. QED
      BY <1>4, <2>1, OutsideKeeps DEF Crash, NoTx
  <1>5. CASE UNCHANGED <<db, tx, cmd, pc, turn, agg>>
    <2>1. ASSUME NEW q \in Requests PROVE InMemory(q)'
      <3>1. Target(q)' = Target(q) /\ NewEvent(q)' = NewEvent(q) /\ View(q)' = View(q)
        BY <1>5 DEF Target, NewEvent, View, db
      <3>2. \A s : Loaded(q, s)' <=> Loaded(q, s)
        BY <1>5 DEF Loaded
      <3>3. QED
        BY <1>5, <3>1, <3>2 DEF StateInv, InMemory, MemoryFaithful, InsertReady, RowsGuarded,
                                SnapsOwn, AtStart, db
    <2>2. QED
      BY <1>5, <2>1 DEF StateInv, db
  <1>6. QED
    BY <1>1, <1>2, <1>3, <1>4, <1>5 DEF Next, Finished, Expire, vars, db

\* The aggregates' states are kept, in every instance.
THEOREM States == Spec => []StateInv
  BY Invariance, InitStateInv, NextStateInv, PTL DEF Spec

\* No stream records joining a peer it lists or leaving one it does not, for any
\* number of concurrent requests: the guard was evaluated on the state the event
\* is appended to.
THEOREM GuardsAlwaysHold == Spec => []GuardsHold
  <1>1. StateInv => GuardsHold
    BY DEF StateInv, Guarded, Below, GuardsHold
  <1>2. QED
    BY <1>1, States, PTL

\* Every committed snapshot is the state a full replay would give.
THEOREM SnapshotsAreFaithful == Spec => []SnapshotsFaithful
  <1>1. StateInv => SnapshotsFaithful
    BY DEF StateInv, Faithful, UpTo, SnapshotsFaithful
  <1>2. QED
    BY <1>1, States, PTL

(***************************************************************************)
(* The inductive invariant of the answers.                                 *)
(***************************************************************************)

\* r's script has passed the save of the primary stream, and not by failing.
PastPrimary(r) ==
    \E i \in 1 .. Len(Script(cmd[r])) :
        /\ Script(cmd[r])[i].do = "save"
        /\ Script(cmd[r])[i].stream = Primary(cmd[r])
        /\ \/ i < turn[r]
           \/ i = turn[r] /\ pc[r] = "outbox"

PrimaryWritten(r) == \E e \in tx[r].events : e.stream = Primary(cmd[r])

Answered(r) ==
    /\ pc[r] \notin {"commit", "record", "done"} => reply[r] = "none"
    /\ pc[r] \in {"lookup", "begin"} => turn[r] = 1
    /\ pc[r] \in InTx \ {"commit"} /\ PastPrimary(r) => PrimaryWritten(r)
    /\ pc[r] = "commit" /\ reply[r] = "ok" => PrimaryWritten(r)

AnswerInv == /\ \A r \in Requests : Answered(r)
             /\ OkIsDurable
             /\ RecordedIsCommitted

\* Every script saves its primary stream, and at its last step only when that
\* is its only save.
LEMMA PrimarySaved ==
    ASSUME NEW c \in Commands
    PROVE  /\ Script(c)[Len(Script(c))].do = "save"
           /\ \E i \in 1 .. Len(Script(c)) :
                 /\ Script(c)[i].do = "save" /\ Script(c)[i].stream = Primary(c)
                 /\ i < Len(Script(c)) \/ c.kind = "update"
  <1>1. c.kind \in Kinds
    BY DEF Commands
  <1>2. CASE c.kind = "add"
    BY <1>2 DEF Script, Load, Save, Primary
  <1>3. CASE c.kind = "remove"
    BY <1>3 DEF Script, Load, Save, Primary
  <1>4. CASE c.kind = "join"
    BY <1>4 DEF Script, Load, Save, Primary
  <1>5. CASE c.kind = "update"
    BY <1>5 DEF Script, Load, Save, Primary
  <1>6. QED
    BY <1>1, <1>2, <1>3, <1>4, <1>5 DEF Kinds

\* A step that commits nothing and records nothing.
LEMMA AnswerStep ==
    ASSUME AnswerInv, NEW r \in Requests, UNCHANGED <<events, cmd, key>>,
           recorded' \subseteq recorded,
           \A q \in Requests \ {r} : /\ tx'[q] = tx[q] /\ pc'[q] = pc[q]
                                     /\ turn'[q] = turn[q] /\ reply'[q] = reply[q],
           pc'[r] \in {"record", "done"} /\ reply'[r] = "ok"
               => pc[r] \in {"record", "done"} /\ reply[r] = "ok",
           Answered(r)'
    PROVE  AnswerInv'
  <1>1. \A q, s : Committed(q, s)' <=> Committed(q, s)
    BY DEF Committed
  <1>2. ASSUME NEW q \in Requests, q # r PROVE Answered(q)'
    <2>1. /\ tx'[q] = tx[q] /\ pc'[q] = pc[q] /\ turn'[q] = turn[q] /\ reply'[q] = reply[q]
          /\ Answered(q)
      BY <1>2 DEF AnswerInv
    <2>2. PastPrimary(q)' <=> PastPrimary(q)
      BY <2>1 DEF PastPrimary
    <2>3. PrimaryWritten(q)' <=> PrimaryWritten(q)
      BY <2>1 DEF PrimaryWritten
    <2>4. QED
      BY <2>1, <2>2, <2>3 DEF Answered
  <1>3. OkIsDurable'
    BY <1>1 DEF AnswerInv, OkIsDurable
  <1>4. RecordedIsCommitted'
    BY <1>1 DEF AnswerInv, RecordedIsCommitted
  <1>5. QED
    BY <1>2, <1>3, <1>4 DEF AnswerInv

\* A statement that ends in Advance and inserts no event: at the end of the
\* script the save of the primary is behind it, or it was this one.
LEMMA AdvanceKeepsAnswers ==
    ASSUME TypeOK, LogInv, AnswerInv, NEW r \in Requests, Advance(r),
           pc[r] \in {"load", "save", "outbox"}, UNCHANGED <<db, recorded, cmd, key>>,
           \A q \in Requests \ {r} : tx'[q] = tx[q],
           tx'[r].events = tx[r].events,
           pc[r] = "save" => AtLastStep(r) /\ cmd[r].kind # "update"
    PROVE  AnswerInv'
  <1>1. /\ turn[r] \in 1 .. Len(Script(cmd[r])) /\ cmd[r] \in Commands
        /\ Len(Script(cmd[r])) \in 1 .. 4
    BY TargetType, ScriptSteps
  <1>2. /\ \A q \in Requests \ {r} :
              turn'[q] = turn[q] /\ pc'[q] = pc[q] /\ reply'[q] = reply[q]
        /\ \/ pc'[r] \in {"load", "save"} /\ turn'[r] = turn[r] + 1
           \/ pc'[r] = "commit"
    BY AdvanceEffect
  <1>3. PrimaryWritten(r)' <=> PrimaryWritten(r)
    BY DEF PrimaryWritten
  <1>4. PastPrimary(r) => PrimaryWritten(r)
    BY DEF AnswerInv, Answered, InTx
  <1>5. CASE AtLastStep(r)
    <2>1. pc'[r] = "commit" /\ pc[r] # "load"
      BY <1>1, <1>5, PrimarySaved DEF Advance, Goto, TypeOK, AtLastStep, LogInv, Local, AtStep
    <2>2. PastPrimary(r)
      BY <1>1, <1>5, <2>1, PrimarySaved DEF PastPrimary, AtLastStep
    <2>3. Answered(r)'
      BY <1>3, <1>4, <2>1, <2>2 DEF Answered
    <2>4. QED
      BY <1>2, <2>1, <2>3, AnswerStep DEF db
  <1>6. CASE ~AtLastStep(r)
    <2>1. reply' = reply /\ pc'[r] \in {"load", "save"} /\ turn'[r] = turn[r] + 1
      <3>1. /\ reply' = reply /\ turn' = [turn EXCEPT ![r] = @ + 1]
        BY <1>6 DEF Advance
      <3>2. turn'[r] = turn[r] + 1 /\ turn[r] # turn[r] + 1
        BY <1>1, <3>1 DEF TypeOK
      <3>3. QED
        BY <3>1, <3>2, AdvanceEffect
    <2>2. PastPrimary(r)' => PastPrimary(r)
      <3>1. SUFFICES ASSUME NEW i \in 1 .. Len(Script(cmd[r])), Script(cmd[r])[i].do = "save",
                            Script(cmd[r])[i].stream = Primary(cmd[r]), i < turn[r] + 1
                     PROVE  PastPrimary(r)
        BY <2>1 DEF PastPrimary
      <3>2. i < turn[r] \/ i = turn[r]
        BY <1>1, <3>1
      <3>3. pc[r] \in {"load", "outbox"}
        BY <1>6
      <3>4. i = turn[r] => pc[r] = "outbox"
        BY <3>1, <3>3 DEF LogInv, Local, AtStep
      <3>5. QED
        BY <3>1, <3>2, <3>4 DEF PastPrimary
    <2>3. Answered(r)'
      BY <1>3, <1>4, <2>1, <2>2 DEF AnswerInv, Answered
    <2>4. QED
      BY <1>2, <2>1, <2>3, AnswerStep DEF db
  <1>7. QED
    BY <1>5, <1>6

\* A step that fails the command.
LEMMA FailKeepsAnswers ==
    ASSUME TypeOK, AnswerInv, NEW r \in Requests, Fail(r),
           \A q \in Requests \ {r} : tx'[q] = tx[q],
           UNCHANGED <<db, recorded, cmd, key>>
    PROVE  AnswerInv'
  <1>1. /\ pc'[r] = "commit" /\ reply'[r] = "fail"
        /\ \A q \in Requests \ {r} :
              turn'[q] = turn[q] /\ pc'[q] = pc[q] /\ reply'[q] = reply[q]
    BY DEF Fail, Goto, Answer, TypeOK
  <1>2. Answered(r)'
    BY <1>1 DEF Answered
  <1>3. QED
    BY <1>1, <1>2, AnswerStep DEF db

\* A statement between the version check and the outbox: what is past the
\* primary's save is written.
LEMMA SaveKeepsAnswers ==
    ASSUME TypeOK, LogInv, AnswerInv, NEW r \in Requests,
           CheckVersion(r) \/ InsertEvent(r)
    PROVE  AnswerInv'
  <1>1. /\ UNCHANGED <<db, recorded, cmd, key, turn, reply>>
        /\ pc[r] \in {"save", "insert"} /\ pc'[r] \in {"insert", "outbox"}
        /\ \A q \in Requests \ {r} : pc'[q] = pc[q] /\ tx'[q] = tx[q]
    BY DEF CheckVersion, InsertEvent, Goto, TypeOK
  <1>2. PastPrimary(r)' => PrimaryWritten(r)'
    <2>1. CASE CheckVersion(r)
      <3>1. PastPrimary(r)' => PastPrimary(r)
        BY <1>1, <2>1 DEF PastPrimary, CheckVersion, Goto, TypeOK
      <3>2. PrimaryWritten(r) => PrimaryWritten(r)'
        BY <2>1 DEF PrimaryWritten, CheckVersion
      <3>3. QED
        BY <1>1, <3>1, <3>2 DEF AnswerInv, Answered, InTx
    <2>2. CASE InsertEvent(r)
      <3>1. tx'[r].events = tx[r].events \cup {NewEvent(r)}
        BY <2>2 DEF InsertEvent, TypeOK, TxStates
      <3>2. PastPrimary(r)' => PastPrimary(r) \/ Target(r) = Primary(cmd[r])
        BY <1>1 DEF PastPrimary, Target
      <3>3. NewEvent(r).stream = Target(r)
        BY DEF NewEvent
      <3>4. QED
        BY <1>1, <3>1, <3>2, <3>3 DEF AnswerInv, Answered, InTx, PrimaryWritten
    <2>3. QED
      BY <2>1, <2>2
  <1>3. Answered(r)'
    BY <1>1, <1>2 DEF AnswerInv, Answered
  <1>4. QED
    BY <1>1, <1>3, AnswerStep DEF db

LEMMA CommitKeepsAnswers ==
    ASSUME TypeOK, LogInv, AnswerInv, NEW r \in Requests, Commit(r)
    PROVE  AnswerInv'
  <1>1. /\ pc[r] = "commit" /\ events' = events \cup tx[r].events
        /\ UNCHANGED <<recorded, cmd, key, turn, reply>>
    BY DEF Commit
  <1>2. /\ \A q \in Requests \ {r} : tx'[q] = tx[q] /\ pc'[q] = pc[q]
        /\ pc'[r] \in {"record", "done"}
    BY DEF Commit, Goto, AfterCommit, TypeOK
  <1>3. \A q, s : Committed(q, s) => Committed(q, s)'
    BY <1>1 DEF Committed
  <1>4. reply[r] = "ok" => Committed(r, Primary(cmd[r]))'
    <2>1. \A e \in tx[r].events : e.req = r
      BY DEF LogInv, Local, OwnRow
    <2>2. QED
      BY <1>1, <2>1 DEF AnswerInv, Answered, PrimaryWritten, Committed
  <1>5. OkIsDurable'
    BY <1>1, <1>2, <1>3, <1>4 DEF AnswerInv, OkIsDurable
  <1>6. RecordedIsCommitted'
    BY <1>1, <1>3 DEF AnswerInv, RecordedIsCommitted
  <1>7. ASSUME NEW q \in Requests PROVE Answered(q)'
    <2>1. CASE q = r
      BY <1>2, <2>1 DEF Answered, InTx
    <2>2. CASE q # r
      <3>1. /\ tx'[q] = tx[q] /\ pc'[q] = pc[q] /\ Answered(q)
        BY <1>2, <2>2 DEF AnswerInv
      <3>2. PastPrimary(q)' <=> PastPrimary(q)
        BY <1>1, <3>1 DEF PastPrimary
      <3>3. PrimaryWritten(q)' <=> PrimaryWritten(q)
        BY <1>1, <3>1 DEF PrimaryWritten
      <3>4. QED
        BY <1>1, <3>1, <3>2, <3>3 DEF Answered
    <2>3. QED
      BY <2>1, <2>2
  <1>8. QED
    BY <1>5, <1>6, <1>7 DEF AnswerInv

LEMMA InitAnswerInv == Init => AnswerInv
  BY DEF Init, AnswerInv, Answered, OkIsDurable, RecordedIsCommitted, InTx

LEMMA NextAnswerInv == TypeOK /\ LogInv /\ AnswerInv /\ [Next]_vars => AnswerInv'
  <1> SUFFICES ASSUME TypeOK, LogInv, AnswerInv, [Next]_vars PROVE AnswerInv'
    OBVIOUS
  <1>1. ASSUME NEW r \in Requests, Step(r) PROVE AnswerInv'
    <2>1. CASE ReplayRecorded(r)
      <3>1. /\ pc'[r] = "done" /\ reply'[r] = "replayed" /\ UNCHANGED <<db, recorded, tx, cmd, key, turn>>
            /\ \A q \in Requests \ {r} : pc'[q] = pc[q] /\ reply'[q] = reply[q]
        BY <2>1 DEF ReplayRecorded, Goto, Answer, TypeOK
      <3>2. Answered(r)'
        BY <3>1 DEF Answered, InTx
      <3>3. QED
        BY <3>1, <3>2, AnswerStep DEF db
    <2>2. CASE Proceed(r)
      <3>1. /\ pc[r] = "lookup" /\ pc'[r] = "begin"
            /\ UNCHANGED <<db, recorded, tx, cmd, key, turn, reply>>
            /\ \A q \in Requests \ {r} : pc'[q] = pc[q]
        BY <2>2 DEF Proceed, Goto, TypeOK
      <3>2. Answered(r)'
        BY <3>1 DEF AnswerInv, Answered, InTx
      <3>3. QED
        BY <3>1, <3>2, AnswerStep DEF db
    <2>3. CASE Begin(r)
      <3>1. /\ pc[r] = "begin" /\ pc'[r] \in {"load", "save"}
            /\ UNCHANGED <<db, recorded, cmd, key, turn, reply>>
            /\ \A q \in Requests \ {r} : pc'[q] = pc[q] /\ tx'[q] = tx[q]
        BY <2>3, TargetType DEF Begin, Goto, TypeOK
      <3>2. ~PastPrimary(r)'
        <4>1. pc' = [pc EXCEPT ![r] = Script(cmd[r])[turn[r]].do]
          BY <2>3 DEF Begin, Goto
        <4>2. turn[r] = 1
          BY <3>1 DEF AnswerInv, Answered
        <4>3. QED
          BY <3>1, <4>2, TargetType, ScriptSteps DEF PastPrimary
      <3>3. Answered(r)'
        BY <3>1, <3>2 DEF AnswerInv, Answered
      <3>4. QED
        BY <3>1, <3>3, AnswerStep DEF db
    <2>4. CASE LoadAggregate(r)
      BY <2>4, AdvanceKeepsAnswers DEF LoadAggregate
    <2>5. CASE RejectCommand(r)
      BY <2>5, FailKeepsAnswers DEF RejectCommand
    <2>6. CASE SkipMirror(r)
      <3>1. cmd[r].kind # "update"
        BY <2>6 DEF SkipMirror, Allowed, Op
      <3>2. QED
        BY <2>6, <3>1, AdvanceKeepsAnswers DEF SkipMirror
    <2>7. CASE StaleVersion(r)
      BY <2>7, FailKeepsAnswers DEF StaleVersion
    <2>8. CASE CheckVersion(r) \/ InsertEvent(r)
      BY <2>8, SaveKeepsAnswers
    <2>9. CASE InsertConflict(r)
      BY <2>9, AbortType, FailKeepsAnswers DEF InsertConflict
    <2>10. CASE WriteOutbox(r)
      <3>1. /\ tx'[r].events = tx[r].events
            /\ \A q \in Requests \ {r} : tx'[q] = tx[q]
        BY <2>10 DEF WriteOutbox, TypeOK, TxStates
      <3>2. QED
        BY <2>10, <3>1, AdvanceKeepsAnswers DEF WriteOutbox
    <2>11. CASE Commit(r)
      BY <2>11, CommitKeepsAnswers
    <2>12. CASE Record(r)
      <3>1. /\ pc[r] = "record" /\ pc'[r] = "done" /\ recorded' = recorded \cup {key[r]}
            /\ UNCHANGED <<db, tx, cmd, key, turn, reply>>
            /\ \A q \in Requests \ {r} : pc'[q] = pc[q]
        BY <2>12 DEF Record, Goto, TypeOK
      <3>2. \A q, s : Committed(q, s)' <=> Committed(q, s)
        BY <3>1 DEF Committed, db
      <3>3. reply[r] = "ok" /\ Committed(r, Primary(cmd[r]))
        BY <3>1 DEF TypeOK, Coherent, AnswerInv, OkIsDurable
      <3>4. OkIsDurable' /\ RecordedIsCommitted'
        BY <3>1, <3>2, <3>3 DEF AnswerInv, OkIsDurable, RecordedIsCommitted
      <3>5. ASSUME NEW q \in Requests PROVE Answered(q)'
        BY <3>1 DEF AnswerInv, Answered, PastPrimary, PrimaryWritten, InTx
      <3>6. QED
        BY <3>4, <3>5 DEF AnswerInv
    <2>13. CASE RecordError(r)
      <3>1. /\ pc'[r] = "done" /\ reply'[r] = "fail" /\ UNCHANGED <<db, recorded, tx, cmd, key, turn>>
            /\ \A q \in Requests \ {r} : pc'[q] = pc[q] /\ reply'[q] = reply[q]
        BY <2>13 DEF RecordError, Goto, Answer, TypeOK
      <3>2. Answered(r)'
        BY <3>1 DEF Answered, InTx
      <3>3. QED
        BY <3>1, <3>2, AnswerStep DEF db
    <2>14. QED
      BY <1>1, <2>1, <2>2, <2>3, <2>4, <2>5, <2>6, <2>7, <2>8, <2>9, <2>10,
         <2>11, <2>12, <2>13 DEF Step
  <1>2. ASSUME NEW r \in Requests, SqlError(r) \/ DeadlockAbort(r) PROVE AnswerInv'
    BY <1>2, AbortType, FailKeepsAnswers DEF SqlError, DeadlockAbort
  <1>3. ASSUME NEW r \in Requests, Crash(r) PROVE AnswerInv'
    <2>1. /\ pc'[r] = "done" /\ reply'[r] = "none" /\ UNCHANGED <<db, recorded, cmd, key, turn>>
          /\ \A q \in Requests \ {r} : pc'[q] = pc[q] /\ reply'[q] = reply[q] /\ tx'[q] = tx[q]
      BY <1>3 DEF Crash, Goto, Answer, TypeOK
    <2>2. Answered(r)'
      BY <2>1 DEF Answered, InTx
    <2>3. QED
      BY <2>1, <2>2, AnswerStep DEF db
  <1>4. CASE UNCHANGED <<db, tx, cmd, key, pc, turn, reply>> /\ recorded' \subseteq recorded
    <2>1. /\ events' = events /\ tx' = tx /\ cmd' = cmd /\ key' = key
          /\ pc' = pc /\ turn' = turn /\ reply' = reply /\ recorded' \subseteq recorded
      BY <1>4 DEF db
    <2>2. \A q, s : Committed(q, s)' <=> Committed(q, s)
      BY <2>1 DEF Committed
    <2>3. \A q : Answered(q) => Answered(q)'
      BY <2>1 DEF Answered, PastPrimary, PrimaryWritten
    <2>4. OkIsDurable' /\ RecordedIsCommitted'
      BY <2>1, <2>2 DEF AnswerInv, OkIsDurable, RecordedIsCommitted
    <2>5. QED
      BY <2>3, <2>4 DEF AnswerInv
  <1>5. QED
    <2>1. (\E k \in Keys : Expire(k)) \/ Finished \/ UNCHANGED vars
            => UNCHANGED <<db, tx, cmd, key, pc, turn, reply>> /\ recorded' \subseteq recorded
      BY DEF Expire, Finished, vars, db
    <2>2. QED
      BY <1>1, <1>2, <1>3, <1>4, <2>1 DEF Next

\* What is answered is committed, in every instance.
THEOREM Answers == Spec => []AnswerInv
  BY Invariance, InitAnswerInv, NextAnswerInv, PTL DEF Spec

\* Whoever is answered Result.ok finds the command's event in the log.
THEOREM OkAnswersAreDurable == Spec => []OkIsDurable
  <1>1. AnswerInv => OkIsDurable
    BY DEF AnswerInv
  <1>2. QED
    BY <1>1, Answers, PTL

\* A recorded idempotency key vouches for committed events only.
THEOREM RecordedKeysAreCommitted == Spec => []RecordedIsCommitted
  <1>1. AnswerInv => RecordedIsCommitted
    BY DEF AnswerInv
  <1>2. QED
    BY <1>1, Answers, PTL

(***************************************************************************)
(* The inductive invariant of the two sides of a membership.               *)
(***************************************************************************)

\* The stream a membership command saves second.
Mirror(c) == IF Primary(c) = c.org THEN c.user ELSE c.org
Excused(o, u) == \E q \in Requests : cmd[q].org = o /\ cmd[q].user = u /\ Partial(q)

\* The primary stream has grown since r loaded it: its save will fail.
Overtaken(r) == \E e \in events : /\ e.stream = Primary(cmd[r])
                                  /\ e.version > agg[r][Primary(cmd[r])].version

\* The mirror r has loaded lists the primary.
MirrorLists(r) == Primary(cmd[r]) \in agg[r][Mirror(cmd[r])].peers

\* r's rows are the events its command raises.
RowsOfCommand(r) == \A e \in tx[r].events : /\ e.op = Op(cmd[r])
                                            /\ e.peer = Peer(cmd[r], e.stream)

\* addMember and joinOrganization load both sides before the first save, and the
\* mirror is never checked against its current version when it is skipped.  The
\* two states it loaded agree, or that is excused, or the first save will fail;
\* and from the first save on, a mirror that would be skipped is excused.
JoinsKnow(r) ==
    Op(cmd[r]) = "join" =>
        /\ pc[r] = "save" /\ turn[r] = 3
           => \/ MirrorLists(r) <=> Mirror(cmd[r]) \in agg[r][Primary(cmd[r])].peers
              \/ Excused(cmd[r].org, cmd[r].user)
              \/ Overtaken(r)
        /\ (pc[r] \in {"insert", "outbox"} /\ turn[r] = 3) \/ (pc[r] = "save" /\ turn[r] = 4)
           => ~MirrorLists(r) \/ Excused(cmd[r].org, cmd[r].user)

\* removeMember and leaveOrganization load the mirror after the first save.
LeavesKnow(r) ==
    Op(cmd[r]) = "leave" /\ pc[r] = "save" /\ turn[r] = 4
        => MirrorLists(r) \/ Excused(cmd[r].org, cmd[r].user)

\* A good Result without the mirror's row is excused.
OkKnows(r) ==
    pc[r] = "commit" =>
        /\ reply[r] \in {"ok", "fail"}
        /\ reply[r] = "ok" /\ cmd[r].kind # "update"
           => \/ \E e \in tx[r].events : e.stream = Mirror(cmd[r])
              \/ Excused(cmd[r].org, cmd[r].user)

MirrorKnown(r) == RowsOfCommand(r) /\ JoinsKnow(r) /\ LeavesKnow(r) /\ OkKnows(r)

MirrorInv == MirrorUnlessPartial /\ \A r \in Requests : MirrorKnown(r)

\* The two shapes of a membership command's script.
LEMMA MembershipScript ==
    ASSUME NEW c \in Commands, c.kind # "update"
    PROVE  /\ Primary(c) \in Streams /\ Mirror(c) \in Streams /\ Primary(c) # Mirror(c)
           /\ {Primary(c), Mirror(c)} = {c.org, c.user}
           /\ Peer(c, Primary(c)) = Mirror(c) /\ Peer(c, Mirror(c)) = Primary(c)
           /\ Len(Script(c)) = 4 /\ Script(c)[1] = Load(Primary(c)) /\ Script(c)[4] = Save(Mirror(c))
           /\ \/ /\ Op(c) = "join"
                 /\ Script(c)[2] = Load(Mirror(c)) /\ Script(c)[3] = Save(Primary(c))
              \/ /\ Op(c) = "leave"
                 /\ Script(c)[2] = Save(Primary(c)) /\ Script(c)[3] = Load(Mirror(c))
  <1>1. c.kind \in Kinds /\ c.org \in Orgs /\ c.user \in Users /\ c.org # c.user
    BY DEF Commands
  <1>2. CASE c.kind = "add"
    BY <1>1, <1>2 DEF Script, Load, Save, Primary, Mirror, Peer, Op, Streams
  <1>3. CASE c.kind = "remove"
    BY <1>1, <1>3 DEF Script, Load, Save, Primary, Mirror, Peer, Op, Streams
  <1>4. CASE c.kind = "join"
    BY <1>1, <1>4 DEF Script, Load, Save, Primary, Mirror, Peer, Op, Streams
  <1>5. QED
    BY <1>1, <1>2, <1>3, <1>4 DEF Kinds

\* A step of one request leaves what the others hold alone.
LEMMA OnlyOwn ==
    ASSUME TypeOK, NEW r \in Requests, NEW q \in Requests, q # r,
           Step(r) \/ SqlError(r) \/ DeadlockAbort(r) \/ Crash(r)
    PROVE  /\ tx'[q] = tx[q] /\ pc'[q] = pc[q] /\ turn'[q] = turn[q]
           /\ agg'[q] = agg[q] /\ reply'[q] = reply[q]
           /\ cmd' = cmd
  <1>1. CASE ReplayRecorded(r) \/ Proceed(r) \/ Begin(r)
    BY <1>1 DEF ReplayRecorded, Proceed, Begin, Goto, Answer, TypeOK
  <1>2. CASE LoadAggregate(r)
    BY <1>2, AdvanceEffect DEF LoadAggregate, TypeOK
  <1>3. CASE RejectCommand(r) \/ StaleVersion(r) \/ InsertConflict(r)
    BY <1>3, AbortType DEF RejectCommand, StaleVersion, InsertConflict, Fail, Goto, Answer, TypeOK
  <1>4. CASE SkipMirror(r) \/ WriteOutbox(r)
    BY <1>4, AdvanceEffect DEF SkipMirror, WriteOutbox, TypeOK
  <1>5. CASE CheckVersion(r) \/ InsertEvent(r)
    BY <1>5 DEF CheckVersion, InsertEvent, Goto, TypeOK
  <1>6. CASE Commit(r) \/ Record(r) \/ RecordError(r) \/ Crash(r)
    BY <1>6 DEF Commit, Record, RecordError, Crash, Goto, Answer, TypeOK
  <1>7. CASE SqlError(r) \/ DeadlockAbort(r)
    BY <1>7, AbortType DEF SqlError, DeadlockAbort, Fail, Goto, Answer, TypeOK
  <1>8. QED
    BY <1>1, <1>2, <1>3, <1>4, <1>5, <1>6, <1>7 DEF Step

\* Only COMMIT changes the committed rows.
LEMMA OnlyCommitWrites ==
    ASSUME NEW r \in Requests, ~Commit(r),
           Step(r) \/ SqlError(r) \/ DeadlockAbort(r) \/ Crash(r)
    PROVE  UNCHANGED <<db, cmd>>
  BY DEF Step, ReplayRecorded, Proceed, Begin, LoadAggregate, RejectCommand, SkipMirror,
         StaleVersion, CheckVersion, InsertEvent, InsertConflict, WriteOutbox, Record,
         RecordError, SqlError, DeadlockAbort, Crash

\* A request that has ended takes no step.
LEMMA DoneIsDone ==
    ASSUME TypeOK, NEW r \in Requests, pc[r] = "done",
           Step(r) \/ SqlError(r) \/ DeadlockAbort(r) \/ Crash(r)
    PROVE  FALSE
  <1>1. tx[r].status # "open"
    BY DEF TypeOK, Coherent, InTx, TxStates
  <1>2. QED
    BY <1>1 DEF Step, ReplayRecorded, Proceed, Begin, LoadAggregate, RejectCommand, SkipMirror,
         StaleVersion, CheckVersion, InsertEvent, InsertConflict, WriteOutbox, Commit, Record,
         RecordError, SqlError, DeadlockAbort, Deadlocked, WaitsFor, Crash

\* A partial command stays one: it has ended, and nobody else writes its rows.
LEMMA ExcusesStay ==
    ASSUME TypeOK, LogInv, NEW r \in Requests,
           Step(r) \/ SqlError(r) \/ DeadlockAbort(r) \/ Crash(r),
           NEW o, NEW u, Excused(o, u)
    PROVE  Excused(o, u)'
  <1>1. PICK q \in Requests : cmd[q].org = o /\ cmd[q].user = u /\ Partial(q)
    BY DEF Excused
  <1>2. reply[q] = "fail" /\ \E e \in events : e.req = q
    BY <1>1 DEF Partial, Committed
  <1>3. pc[q] = "done"
    BY <1>2 DEF LogInv, CommittedBy, TypeOK, Coherent
  <1>4. q # r
    BY <1>3, DoneIsDone
  <1>5. reply'[q] = reply[q] /\ cmd' = cmd
    BY <1>4, OnlyOwn
  <1>6. \A s : Committed(q, s)' <=> Committed(q, s)
    <2>1. CASE Commit(r)
      <3>1. \A e \in tx[r].events : e.req = r
        BY DEF LogInv, Local, OwnRow
      <3>2. QED
        BY <1>4, <2>1, <3>1 DEF Commit, Committed
    <2>2. CASE ~Commit(r)
      BY <2>2, OnlyCommitWrites DEF Committed, db
    <2>3. QED
      BY <2>1, <2>2
  <1>7. Partial(q)'
    BY <1>1, <1>2, <1>5, <1>6 DEF Partial, Committed
  <1>8. QED
    BY <1>1, <1>5, <1>7 DEF Excused
\* The state at a stream's last version is what its members are.
LEMMA LatestIsMembers ==
    ASSUME NEW s, NEW v, NEW peers, Faithful(events, s, v, peers),
           \A e \in events : e.stream = s => e.version <= v
    PROVE  peers = Members(s)
  <1>1. UpTo(events, s, v) = {e \in events : e.stream = s}
    BY DEF UpTo
  <1>2. QED
    BY <1>1 DEF Faithful, Members

\* COMMIT changes, on each stream it writes to, the one peer its row names.
LEMMA CommitMembers ==
    ASSUME TypeOK, LogInv, NEW r \in Requests, Commit(r), RowsOfCommand(r),
           NEW s \in Streams, NEW p \in Streams
    PROVE  p \in Members(s)' <=> IF \E e \in tx[r].events : e.stream = s /\ e.peer = p
                                THEN Op(cmd[r]) = "join" ELSE p \in Members(s)
  <1> DEFINE now == {e \in events : e.stream = s}
  <1>1. /\ events' = events \cup tx[r].events /\ cmd[r] \in Commands
        /\ Members(s)' = Replay({}, {e \in events' : e.stream = s})
        /\ Members(s) = Replay({}, now)
    BY TargetType DEF Commit, Members, Replay
  <1>2. CASE \A e \in tx[r].events : e.stream # s
    <2>1. {e \in events' : e.stream = s} = now
      BY <1>1, <1>2
    <2>2. QED
      BY <1>1, <1>2, <2>1
  <1>3. ASSUME NEW e \in tx[r].events, e.stream = s
        PROVE  p \in Members(s)' <=> IF \E f \in tx[r].events : f.stream = s /\ f.peer = p
                                    THEN Op(cmd[r]) = "join" ELSE p \in Members(s)
    <2>1. \A f \in tx[r].events : f.stream = s => f = e
      BY <1>3 DEF LogInv, Local, OwnRow
    <2>2. {f \in events' : f.stream = s} = now \cup {e}
      BY <1>1, <1>3, <2>1
    <2>3. e \in Events /\ now \in SUBSET Events
      BY DEF TypeOK, TxStates
    <2>4. \A f \in now : f.version < e.version
      BY <1>3, OwnRowIsLast
    <2>5. e.op = Op(cmd[r]) /\ e.peer = Peer(cmd[r], s)
      BY <1>3 DEF RowsOfCommand
    <2>6. e.op = "join" => e.peer \in Streams
      BY <1>1, <2>5, EventTypes
    <2>7. Replay({}, now \cup {e}) =
            (Replay({}, now) \ {e.peer}) \cup (IF e.op = "join" THEN {e.peer} ELSE {})
      <3> HIDE DEF now
      <3>1. QED
        BY <2>3, <2>4, <2>6, ReplayOne
    <2>8. QED
      BY <1>1, <1>3, <2>1, <2>2, <2>5, <2>7
  <1>4. QED
    BY <1>2, <1>3

\* The rows of a transaction are on the two streams of its command.
LEMMA RowStreams ==
    ASSUME TypeOK, LogInv, NEW r \in Requests, NEW e \in tx[r].events
    PROVE  /\ e.stream \in {cmd[r].org, cmd[r].user}
           /\ cmd[r].kind = "update" => e.stream = cmd[r].user
  <1>1. cmd[r] \in Commands /\ cmd[r].kind \in Kinds
    BY TargetType DEF Commands
  <1>2. PICK i \in 1 .. Len(Script(cmd[r])) :
          Script(cmd[r])[i].do = "save" /\ Script(cmd[r])[i].stream = e.stream
    BY DEF LogInv, Local, OwnRow, Written
  <1>3. CASE cmd[r].kind = "add"
    BY <1>2, <1>3 DEF Script, Load, Save
  <1>4. CASE cmd[r].kind = "remove"
    BY <1>2, <1>4 DEF Script, Load, Save
  <1>5. CASE cmd[r].kind = "join"
    BY <1>2, <1>5 DEF Script, Load, Save
  <1>6. CASE cmd[r].kind = "update"
    BY <1>2, <1>6 DEF Script, Load, Save
  <1>7. QED
    BY <1>1, <1>3, <1>4, <1>5, <1>6 DEF Kinds

\* COMMIT writes both sides of a pair, or one side of a pair that is excused, or
\* leaves the pair alone.
LEMMA CommitKeepsMirrors ==
    ASSUME TypeOK, LogInv, AnswerInv, MirrorInv, NEW r \in Requests, Commit(r)
    PROVE  MirrorUnlessPartial'
  <1> DEFINE c == cmd[r]
             On(s) == \E e \in tx[r].events : e.stream = s
  <1>1. /\ pc[r] = "commit" /\ reply[r] \in {"ok", "fail"} /\ c \in Commands
        /\ events' = events \cup tx[r].events /\ cmd' = cmd /\ reply' = reply
        /\ RowsOfCommand(r)
    BY TargetType DEF Commit, MirrorInv, MirrorKnown, OkKnows
  <1>2. /\ \A e \in events : e.req # r
        /\ \A e \in tx[r].events : e.req = r
    BY <1>1 DEF LogInv, CommittedBy, Local, OwnRow
  <1>3. \A s : Committed(r, s)' <=> On(s)
    BY <1>1, <1>2 DEF Committed
  <1>4. SUFFICES ASSUME NEW o \in Orgs, NEW u \in Users, ~Excused(o, u)'
                 PROVE  u \in Members(o)' <=> o \in Members(u)'
    BY <1>1 DEF MirrorUnlessPartial, Excused
  <1>5. ~Excused(o, u)
    BY <1>4, ExcusesStay DEF Step
  <1>6. u \in Members(o) <=> o \in Members(u)
    BY <1>4, <1>5 DEF MirrorInv, MirrorUnlessPartial, Excused
  <1>7. /\ c.kind \in Kinds /\ c.org \in Orgs /\ c.user \in Users /\ o # u
        /\ o \in Streams /\ u \in Streams /\ NoPeer \notin Streams
        /\ Orgs \cap Users = {}
    BY <1>1 DEF Commands, Streams
  <1>8. /\ u \in Members(o)' <=> IF \E e \in tx[r].events : e.stream = o /\ e.peer = u
                                 THEN Op(c) = "join" ELSE u \in Members(o)
        /\ o \in Members(u)' <=> IF \E e \in tx[r].events : e.stream = u /\ e.peer = o
                                 THEN Op(c) = "join" ELSE o \in Members(u)
    BY <1>1, <1>7, CommitMembers
  <1>9. \A e \in tx[r].events :
          /\ e.stream \in {c.org, c.user} /\ e.peer = Peer(c, e.stream)
    BY <1>1, RowStreams DEF RowsOfCommand
  <1>10. CASE c.kind = "update" \/ c.org # o \/ c.user # u
    <2>1. ~ \E e \in tx[r].events : e.stream = o /\ e.peer = u
      BY <1>7, <1>9, <1>10 DEF Peer
    <2>2. ~ \E e \in tx[r].events : e.stream = u /\ e.peer = o
      BY <1>7, <1>9, <1>10 DEF Peer
    <2>3. QED
      BY <1>6, <1>8, <2>1, <2>2
  <1>11. CASE c.kind # "update" /\ c.org = o /\ c.user = u
    <2>1. On(o) <=> On(u)
      <3>1. CASE reply[r] = "ok"
        <4>1. On(Primary(c)) /\ On(Mirror(c))
          BY <1>1, <1>5, <1>11, <3>1
             DEF AnswerInv, Answered, PrimaryWritten, MirrorInv, MirrorKnown, OkKnows
        <4>2. {Primary(c), Mirror(c)} = {o, u}
          BY <1>1, <1>11, MembershipScript
        <4>3. QED
          BY <4>1, <4>2
      <3>2. CASE reply[r] = "fail"
        <4>1. ~Partial(r)'
          BY <1>1, <1>4, <1>11 DEF Excused
        <4>2. Committed(r, o)' = Committed(r, u)'
          BY <1>1, <1>11, <3>2, <4>1 DEF Partial, Committed
        <4>3. QED
          BY <1>3, <4>2
      <3>3. QED
        BY <1>1, <3>1, <3>2
    <2>2. \A e \in tx[r].events : (e.stream = o => e.peer = u) /\ (e.stream = u => e.peer = o)
      BY <1>7, <1>9, <1>11 DEF Peer
    <2>3. QED
      BY <1>6, <1>8, <2>1, <2>2
  <1>12. QED
    BY <1>10, <1>11

LEMMA OthersKnow ==
    ASSUME TypeOK, LogInv, MirrorInv, NEW r \in Requests, NEW q \in Requests, q # r,
           Step(r) \/ SqlError(r) \/ DeadlockAbort(r) \/ Crash(r)
    PROVE  MirrorKnown(q)'
  <1>1. /\ tx'[q] = tx[q] /\ pc'[q] = pc[q] /\ turn'[q] = turn[q]
        /\ agg'[q] = agg[q] /\ reply'[q] = reply[q] /\ cmd' = cmd /\ MirrorKnown(q)
    BY OnlyOwn DEF MirrorInv
  <1>2. Excused(cmd[q].org, cmd[q].user) => Excused(cmd[q].org, cmd[q].user)'
    BY <1>1, ExcusesStay DEF Excused
  <1>3. events \subseteq events'
    BY OnlyCommitWrites DEF Commit, db
  <1>4. (Overtaken(q) => Overtaken(q)') /\ (MirrorLists(q)' <=> MirrorLists(q))
    BY <1>1, <1>3 DEF Overtaken, MirrorLists
  <1>5. RowsOfCommand(q)'
    BY <1>1 DEF MirrorKnown, RowsOfCommand
  <1>6. JoinsKnow(q)'
    BY <1>1, <1>2, <1>4 DEF MirrorKnown, JoinsKnow, Excused
  <1>7. LeavesKnow(q)' /\ OkKnows(q)'
    BY <1>1, <1>2, <1>4 DEF MirrorKnown, LeavesKnow, OkKnows, Excused
  <1>8. QED
    BY <1>5, <1>6, <1>7 DEF MirrorKnown

\* A step that commits nothing keeps the committed pairs as they are.
LEMMA QuietKeepsMirrors ==
    ASSUME TypeOK, LogInv, MirrorInv, NEW r \in Requests, ~Commit(r),
           Step(r) \/ SqlError(r) \/ DeadlockAbort(r) \/ Crash(r)
    PROVE  MirrorUnlessPartial'
  <1>1. events' = events
    BY OnlyCommitWrites DEF db
  <1>2. \A s : Members(s)' = Members(s)
    BY <1>1 DEF Members
  <1>3. ASSUME NEW o \in Orgs, NEW u \in Users
        PROVE  (u \in Members(o) <=> o \in Members(u)) \/ Excused(o, u)'
    BY ExcusesStay DEF MirrorInv, MirrorUnlessPartial, Excused
  <1>4. QED
    BY <1>2, <1>3 DEF MirrorUnlessPartial, Excused

\* r fails, or is outside its handler.
LEMMA OutsideKnows ==
    ASSUME NEW r \in Requests, UNCHANGED cmd,
           RowsOfCommand(r)',
           \/ pc'[r] \in {"begin", "record", "done"}
           \/ pc'[r] \in {"load", "save"} /\ turn'[r] = 1
           \/ pc'[r] = "commit" /\ reply'[r] = "fail"
    PROVE  MirrorKnown(r)'
  BY DEF MirrorKnown, JoinsKnow, LeavesKnow, OkKnows

LEMMA FailKnows ==
    ASSUME TypeOK, MirrorInv, NEW r \in Requests, Fail(r), Abort(r) \/ UNCHANGED tx,
           UNCHANGED cmd
    PROVE  MirrorKnown(r)'
  <1>1. pc'[r] = "commit" /\ reply'[r] = "fail"
    BY DEF Fail, Goto, Answer, TypeOK
  <1>2. tx'[r].events \subseteq tx[r].events
    BY AbortType DEF RolledBack, NoTx
  <1>3. RowsOfCommand(r)'
    BY <1>2 DEF MirrorInv, MirrorKnown, RowsOfCommand
  <1>4. QED
    BY <1>1, <1>3, OutsideKnows

\* At the save of a membership command, and until its row is written, r's turn
\* tells which of its two streams it is at.
LEMMA MembershipTurn ==
    ASSUME TypeOK, LogInv, NEW r \in Requests, pc[r] \in {"load", "save", "insert", "outbox"},
           cmd[r].kind # "update"
    PROVE  /\ cmd[r] \in Commands /\ turn[r] \in 1 .. 4 /\ Len(Script(cmd[r])) = 4
           /\ (turn[r] = 4 => Target(r) = Mirror(cmd[r]) /\ pc[r] # "load")
           /\ Op(cmd[r]) = "join" =>
                /\ turn[r] \in {1, 2} => pc[r] = "load"
                /\ turn[r] = 2 => Target(r) = Mirror(cmd[r])
                /\ turn[r] = 3 => Target(r) = Primary(cmd[r]) /\ pc[r] # "load"
           /\ Op(cmd[r]) = "leave" => (turn[r] = 3 => Target(r) = Mirror(cmd[r]) /\ pc[r] = "load")
  <1>1. cmd[r] \in Commands /\ turn[r] \in 1 .. Len(Script(cmd[r]))
    BY TargetType
  <1>2. /\ pc[r] = "load" => Script(cmd[r])[turn[r]].do = "load"
        /\ pc[r] # "load" => Script(cmd[r])[turn[r]].do = "save"
    BY DEF LogInv, Local, AtStep
  <1>3. /\ Len(Script(cmd[r])) = 4 /\ Script(cmd[r])[1] = Load(Primary(cmd[r]))
        /\ Script(cmd[r])[4] = Save(Mirror(cmd[r]))
        /\ Op(cmd[r]) = "join" => /\ Script(cmd[r])[2] = Load(Mirror(cmd[r]))
                                 /\ Script(cmd[r])[3] = Save(Primary(cmd[r]))
        /\ Op(cmd[r]) = "leave" => /\ Script(cmd[r])[2] = Save(Primary(cmd[r]))
                                  /\ Script(cmd[r])[3] = Load(Mirror(cmd[r]))
    BY <1>1, MembershipScript
  <1>4. turn[r] \in {1, 2, 3, 4}
    BY <1>1, <1>3
  <1>5. CASE turn[r] = 1
    BY <1>1, <1>2, <1>3, <1>5 DEF Load, Save, Target
  <1>6. CASE turn[r] = 2
    BY <1>1, <1>2, <1>3, <1>6 DEF Load, Save, Target
  <1>7. CASE turn[r] = 3
    BY <1>1, <1>2, <1>3, <1>7 DEF Load, Save, Target
  <1>8. CASE turn[r] = 4
    BY <1>1, <1>2, <1>3, <1>8 DEF Load, Save, Target
  <1>9. QED
    BY <1>4, <1>5, <1>6, <1>7, <1>8

\* The last load of a membership command: both sides are the committed ones, so
\* they agree unless that is excused.
LEMMA LoadKnows ==
    ASSUME TypeOK, LogInv, StateInv, AnswerInv, MirrorInv, NEW r \in Requests,
           LoadAggregate(r), cmd[r].kind # "update"
    PROVE  MirrorKnown(r)'
  <1> DEFINE c == cmd[r]
             P == Primary(c)
             M == Mirror(c)
  <1>1. /\ pc[r] = "load" /\ Advance(r) /\ events' = events /\ tx' = tx /\ cmd' = cmd
    BY DEF LoadAggregate, db
  <1>2. /\ c \in Commands /\ turn[r] \in 1 .. 4 /\ P \in Streams /\ M \in Streams /\ P # M
        /\ {P, M} = {c.org, c.user} /\ Op(c) \in {"join", "leave"}
    BY <1>1, MembershipTurn, MembershipScript
  <1>3. /\ pc'[r] \in {"load", "save"} /\ turn'[r] = turn[r] + 1
    <2>1. ~AtLastStep(r)
      BY <1>1, MembershipTurn DEF AtLastStep
    <2>2. turn' = [turn EXCEPT ![r] = @ + 1]
      BY <1>1, <2>1 DEF Advance
    <2>3. turn'[r] = turn[r] + 1 /\ turn[r] # turn[r] + 1
      BY <1>2, <2>2 DEF TypeOK
    <2>4. QED
      BY <1>1, <2>3, AdvanceEffect
  <1>4. (c.user \in Members(c.org) <=> c.org \in Members(c.user)) \/ Excused(c.org, c.user)
    BY <1>2 DEF Commands, MirrorInv, MirrorUnlessPartial, Excused
  <1>5. (M \in Members(P) <=> P \in Members(M)) \/ Excused(c.org, c.user)
    BY <1>2, <1>4
  <1>6. Excused(c.org, c.user) => Excused(c.org, c.user)'
    BY <1>1, ExcusesStay DEF Step, Excused
  <1>7. Target(r) = M => agg'[r][M].peers = Members(M) /\ agg'[r][P] = agg[r][P]
    BY <1>2, LoadEffect, LatestIsMembers
  <1>8. JoinsKnow(r)'
    <2>1. SUFFICES ASSUME Op(c) = "join", turn[r] = 2
                   PROVE  \/ MirrorLists(r)' <=> M \in agg'[r][P].peers
                          \/ Excused(c.org, c.user)'
                          \/ Overtaken(r)'
      <3>1. Op(c) = "join" /\ turn'[r] \in {3, 4} => turn[r] = 2
        BY <1>1, <1>2, <1>3, MembershipTurn
      <3>2. QED
        BY <1>1, <1>2, <1>3, <3>1 DEF JoinsKnow
    <2>2. Target(r) = M
      BY <1>1, <2>1, MembershipTurn
    <2>3. \A e \in tx[r].events : FALSE
      <3>1. SUFFICES ASSUME NEW e \in tx[r].events PROVE FALSE
        OBVIOUS
      <3>2. PICK i \in 1 .. Len(Script(c)) : Script(c)[i].do = "save" /\ i < 2
        BY <1>1, <2>1 DEF LogInv, Local, OwnRow, Written
      <3>3. i = 1
        BY <1>2, <3>2, ScriptSteps
      <3>4. QED
        BY <1>2, <3>2, <3>3, ScriptSteps
    <2>4. Faithful(events, P, agg[r][P].version, agg[r][P].peers)
      <3>0. Len(Script(c)) = 4 /\ Script(c)[1] = Load(P)
        BY <1>2, MembershipScript
      <3>1. Loaded(r, P)
        BY <2>1, <3>0 DEF Loaded, Load
      <3>2. View(r) = events
        BY <2>3 DEF View
      <3>3. QED
        BY <1>1, <1>2, <3>1, <3>2 DEF StateInv, InMemory, MemoryFaithful
    <2>5. CASE Overtaken(r)
      BY <1>1, <1>7, <2>2, <2>5 DEF Overtaken
    <2>6. CASE ~Overtaken(r)
      <3>1. \A e \in events : e.stream = P => e.version <= agg[r][P].version
        <4>1. agg[r][P].version \in Nat /\ \A e \in events : e.version \in Nat
          BY <1>2 DEF TypeOK, Aggregates, Events
        <4>2. QED
          BY <2>6, <4>1 DEF Overtaken
      <3>2. agg[r][P].peers = Members(P)
        BY <2>4, <3>1, LatestIsMembers
      <3>3. QED
        BY <1>1, <1>5, <1>6, <1>7, <2>2, <3>2 DEF MirrorLists
    <2>7. QED
      BY <2>5, <2>6
  <1>9. LeavesKnow(r)'
    <2>1. SUFFICES ASSUME Op(c) = "leave", turn[r] = 3
                   PROVE  MirrorLists(r)' \/ Excused(c.org, c.user)'
      BY <1>1, <1>2, <1>3 DEF LeavesKnow
    <2>2. Target(r) = M
      BY <1>1, <2>1, MembershipTurn
    <2>3. PICK e \in tx[r].events : e.stream = P
      <3>0. Len(Script(c)) = 4 /\ Script(c)[2] = Save(P)
        BY <1>2, <2>1, MembershipScript
      <3>1. PastPrimary(r)
        BY <2>1, <3>0 DEF PastPrimary, Save
      <3>2. QED
        BY <1>1, <3>1 DEF AnswerInv, Answered, PrimaryWritten, InTx
    <2>4. e.op = "leave" /\ e.peer = M
      BY <1>2, <2>1, <2>3, MembershipScript DEF MirrorInv, MirrorKnown, RowsOfCommand
    <2>5. M \in Replay({}, Below(events, P, e.version))
      BY <2>3, <2>4 DEF StateInv, InMemory, RowsGuarded, Guarded
    <2>6. Below(events, P, e.version) = {f \in events : f.stream = P}
      BY <2>3, OwnRowIsLast DEF Below
    <2>7. M \in Members(P)
      BY <2>5, <2>6 DEF Members
    <2>8. QED
      BY <1>1, <1>5, <1>6, <1>7, <2>2, <2>7 DEF MirrorLists
  <1>10. RowsOfCommand(r)' /\ OkKnows(r)'
    BY <1>1, <1>3 DEF MirrorInv, MirrorKnown, RowsOfCommand, OkKnows
  <1>11. QED
    BY <1>8, <1>9, <1>10 DEF MirrorKnown

\* UpdateProfile has no mirror: its rows and its answer are all there is to know.
LEMMA UpdateKnows ==
    ASSUME NEW r \in Requests, UNCHANGED cmd, cmd[r].kind = "update", RowsOfCommand(r)',
           pc'[r] = "commit" => reply'[r] \in {"ok", "fail"}
    PROVE  MirrorKnown(r)'
  <1>1. Op(cmd[r]) = "touch"
    BY DEF Op
  <1>2. QED
    BY <1>1 DEF MirrorKnown, JoinsKnow, LeavesKnow, OkKnows

LEMMA AdvanceAnswer ==
    ASSUME TypeOK, NEW r \in Requests, Advance(r)
    PROVE  /\ pc'[r] = "commit" => reply'[r] = "ok"
           /\ AtLastStep(r) => pc'[r] = "commit"
           /\ ~AtLastStep(r) => turn'[r] = turn[r] + 1 /\ pc'[r] \in {"load", "save"}
  <1>1. turn[r] \in 1 .. 4 /\ pc'[r] \in {"load", "save", "commit"}
    BY AdvanceEffect DEF TypeOK
  <1>2. CASE AtLastStep(r)
    BY <1>2 DEF Advance, Goto, Answer, TypeOK
  <1>3. CASE ~AtLastStep(r)
    <2>1. turn'[r] = turn[r] + 1
      BY <1>3 DEF Advance, TypeOK
    <2>2. turn'[r] # turn[r]
      BY <1>1, <2>1
    <2>3. QED
      BY <1>3, <2>1, <2>2, AdvanceEffect
  <1>4. QED
    BY <1>2, <1>3

\* The mirror's guard failed on what r had loaded: the skip is excused.
LEMMA SkipKnows ==
    ASSUME TypeOK, LogInv, MirrorInv, NEW r \in Requests, SkipMirror(r)
    PROVE  MirrorKnown(r)'
  <1> DEFINE c == cmd[r]
  <1>1. /\ pc[r] = "save" /\ Advance(r) /\ AtLastStep(r) /\ tx' = tx /\ cmd' = cmd
        /\ ~Allowed(c, Target(r), agg[r][Target(r)].peers)
    BY DEF SkipMirror
  <1>2. c.kind # "update"
    BY <1>1 DEF Allowed, Op
  <1>3. turn[r] = 4 /\ Target(r) = Mirror(c) /\ c \in Commands
    BY <1>1, <1>2, MembershipTurn DEF AtLastStep
  <1>4. pc'[r] = "commit" /\ reply'[r] = "ok"
    BY <1>1, AdvanceAnswer
  <1>5. Excused(c.org, c.user)
    <2>1. Peer(c, Mirror(c)) = Primary(c) /\ Op(c) \in {"join", "leave"}
      BY <1>2, <1>3, MembershipScript
    <2>2. Op(c) = "join" => MirrorLists(r)
      BY <1>1, <1>3, <2>1 DEF Allowed, MirrorLists
    <2>3. Op(c) = "leave" => ~MirrorLists(r)
      BY <1>1, <1>3, <2>1 DEF Allowed, MirrorLists
    <2>4. QED
      BY <1>1, <1>3, <2>1, <2>2, <2>3 DEF MirrorInv, MirrorKnown, JoinsKnow, LeavesKnow
  <1>6. Excused(c.org, c.user)'
    BY <1>1, <1>5, ExcusesStay DEF Step, Excused
  <1>7. RowsOfCommand(r)'
    BY <1>1 DEF MirrorInv, MirrorKnown, RowsOfCommand
  <1>8. QED
    BY <1>1, <1>4, <1>6, <1>7 DEF MirrorKnown, JoinsKnow, LeavesKnow, OkKnows

\* The version check of the primary: nobody has overtaken r, and the guard has
\* just held of the primary, so the mirror has room unless that is excused.
LEMMA CheckVersionKnows ==
    ASSUME TypeOK, LogInv, MirrorInv, NEW r \in Requests, CheckVersion(r)
    PROVE  MirrorKnown(r)'
  <1> DEFINE c == cmd[r]
             s == Target(r)
  <1>1. /\ pc[r] = "save" /\ pc'[r] = "insert" /\ UNCHANGED <<events, tx, cmd, turn>>
        /\ Allowed(c, s, agg[r][s].peers) /\ LatestIs(Rows(r, s), agg[r][s].version)
    BY DEF CheckVersion, Goto, TypeOK, db
  <1>2. RowsOfCommand(r)'
    BY <1>1 DEF MirrorInv, MirrorKnown, RowsOfCommand
  <1>3. CASE c.kind = "update"
    BY <1>1, <1>2, <1>3, UpdateKnows
  <1>4. CASE c.kind # "update"
    <2>1. SUFFICES ASSUME Op(c) = "join", turn[r] = 3
                   PROVE  ~MirrorLists(r)' \/ Excused(c.org, c.user)'
      BY <1>1, <1>2 DEF MirrorKnown, JoinsKnow, LeavesKnow, OkKnows
    <2>2. /\ s = Primary(c) /\ c \in Commands /\ Primary(c) # Mirror(c) /\ s \in Streams
          /\ Peer(c, s) = Mirror(c) /\ Mirror(c) \in Streams
      BY <1>1, <1>4, <2>1, MembershipTurn, MembershipScript
    <2>3. ~Overtaken(r)
      <3>1. agg[r][s].version \in Nat /\ \A e \in events : e.version \in Nat
        BY <2>2 DEF TypeOK, Aggregates, Events
      <3>2. \A e \in events : e.stream = s => e.version <= agg[r][s].version
        BY <1>1 DEF LatestIs, Rows
      <3>3. QED
        BY <2>2, <3>1, <3>2 DEF Overtaken
    <2>4. Mirror(c) \notin agg[r][s].peers
      BY <1>1, <2>1, <2>2 DEF Allowed
    <2>5. ~MirrorLists(r) \/ Excused(c.org, c.user)
      BY <1>1, <2>1, <2>2, <2>3, <2>4 DEF MirrorInv, MirrorKnown, JoinsKnow
    <2>6. agg'[r][Mirror(c)] = agg[r][Mirror(c)]
      BY <2>2 DEF CheckVersion, TypeOK
    <2>7. Excused(c.org, c.user) => Excused(c.org, c.user)'
      BY <1>1, ExcusesStay DEF Step, Excused
    <2>8. QED
      BY <1>1, <2>5, <2>6, <2>7 DEF MirrorLists
  <1>5. QED
    BY <1>3, <1>4

LEMMA InsertKnows ==
    ASSUME TypeOK, LogInv, MirrorInv, NEW r \in Requests, InsertEvent(r)
    PROVE  MirrorKnown(r)'
  <1>1. /\ pc[r] = "insert" /\ pc'[r] = "outbox" /\ UNCHANGED <<events, cmd, turn, agg>>
        /\ tx'[r].events = tx[r].events \cup {NewEvent(r)}
    BY DEF InsertEvent, Goto, TypeOK, TxStates, db
  <1>2. RowsOfCommand(r)'
    <2>1. NewEvent(r).op = Op(cmd[r]) /\ NewEvent(r).peer = Peer(cmd[r], NewEvent(r).stream)
      BY DEF NewEvent
    <2>2. QED
      BY <1>1, <2>1 DEF MirrorInv, MirrorKnown, RowsOfCommand
  <1>3. Excused(cmd[r].org, cmd[r].user) => Excused(cmd[r].org, cmd[r].user)'
    BY <1>1, ExcusesStay DEF Step, Excused
  <1>4. MirrorLists(r)' <=> MirrorLists(r)
    BY <1>1 DEF MirrorLists
  <1>5. JoinsKnow(r)'
    BY <1>1, <1>3, <1>4 DEF MirrorInv, MirrorKnown, JoinsKnow
  <1>6. QED
    BY <1>1, <1>2, <1>5 DEF MirrorKnown, LeavesKnow, OkKnows

\* The end of a save: at the last step the mirror's row is there.
LEMMA OutboxKnows ==
    ASSUME TypeOK, LogInv, MirrorInv, NEW r \in Requests, WriteOutbox(r)
    PROVE  MirrorKnown(r)'
  <1> DEFINE c == cmd[r]
  <1>1. /\ pc[r] = "outbox" /\ Advance(r) /\ UNCHANGED <<events, cmd, agg>>
        /\ tx'[r].events = tx[r].events
    BY DEF WriteOutbox, TypeOK, TxStates, db
  <1>2. RowsOfCommand(r)'
    BY <1>1 DEF MirrorInv, MirrorKnown, RowsOfCommand
  <1>3. CASE c.kind = "update"
    BY <1>1, <1>2, <1>3, UpdateKnows, AdvanceAnswer
  <1>4. CASE c.kind # "update" /\ AtLastStep(r)
    <2>1. Target(r) = Mirror(c)
      BY <1>1, <1>4, MembershipTurn DEF AtLastStep
    <2>2. PICK e \in tx[r].events : EventId(e) = <<r, Target(r)>>
      <3>1. Ids(tx[r].events) = tx[r].outbox \cup {<<r, Target(r)>>}
        BY <1>1 DEF LogInv, Local, Pending
      <3>2. <<r, Target(r)>> \in Ids(tx[r].events)
        BY <3>1
      <3>3. QED
        BY <3>2 DEF Ids
    <2>3. e.stream = Mirror(c)
      BY <2>1, <2>2 DEF EventId
    <2>4. pc'[r] = "commit" /\ reply'[r] = "ok"
      BY <1>1, <1>4, AdvanceAnswer
    <2>5. QED
      BY <1>1, <1>2, <2>3, <2>4 DEF MirrorKnown, JoinsKnow, LeavesKnow, OkKnows
  <1>5. CASE c.kind # "update" /\ ~AtLastStep(r)
    <2>1. turn'[r] = turn[r] + 1 /\ pc'[r] \in {"load", "save"} /\ turn[r] \in 1 .. 4
      BY <1>1, <1>5, AdvanceAnswer, MembershipTurn
    <2>2. Op(c) = "join" => turn[r] \notin {1, 2}
      BY <1>1, <1>5, MembershipTurn
    <2>3. Op(c) = "leave" => turn[r] # 3
      BY <1>1, <1>5, MembershipTurn
    <2>4. Excused(c.org, c.user) => Excused(c.org, c.user)'
      BY <1>1, ExcusesStay DEF Step, Excused
    <2>5. MirrorLists(r)' <=> MirrorLists(r)
      BY <1>1 DEF MirrorLists
    <2>6. JoinsKnow(r)'
      BY <1>1, <2>1, <2>2, <2>4, <2>5 DEF MirrorInv, MirrorKnown, JoinsKnow
    <2>7. LeavesKnow(r)' /\ OkKnows(r)'
      BY <1>1, <2>1, <2>3 DEF LeavesKnow, OkKnows
    <2>8. QED
      BY <1>2, <2>6, <2>7 DEF MirrorKnown
  <1>6. QED
    BY <1>3, <1>4, <1>5

LEMMA InitMirrorInv == Init => MirrorInv
  <1> SUFFICES ASSUME Init PROVE MirrorInv
    OBVIOUS
  <1>1. \A e \in events : e.peer = NoPeer
    BY DEF Init
  <1>2. ASSUME NEW s PROVE Members(s) = {}
    <2>1. \A p \in Streams : {e \in {f \in events : f.stream = s} : e.peer = p} = {}
      BY <1>1
    <2>2. QED
      BY <2>1 DEF Members, Replay
  <1>3. MirrorUnlessPartial
    BY <1>2 DEF MirrorUnlessPartial
  <1>4. ASSUME NEW r \in Requests PROVE MirrorKnown(r)
    BY DEF Init, NoTx, MirrorKnown, RowsOfCommand, JoinsKnow, LeavesKnow, OkKnows
  <1>5. QED
    BY <1>3, <1>4 DEF MirrorInv

LEMMA NextMirrorInv ==
    TypeOK /\ LogInv /\ StateInv /\ AnswerInv /\ MirrorInv /\ [Next]_vars => MirrorInv'
  <1> SUFFICES ASSUME TypeOK, LogInv, StateInv, AnswerInv, MirrorInv, [Next]_vars
               PROVE  MirrorInv'
    OBVIOUS
  <1>1. ASSUME NEW r \in Requests, Step(r) \/ SqlError(r) \/ DeadlockAbort(r) \/ Crash(r)
        PROVE  MirrorInv'
    <2>1. MirrorUnlessPartial'
      BY <1>1, CommitKeepsMirrors, QuietKeepsMirrors
    <2>2. \A q \in Requests \ {r} : MirrorKnown(q)'
      BY <1>1, OthersKnow
    <2>3. MirrorKnown(r)'
      <3>0. /\ RowsOfCommand(r)
            /\ pc[r] \notin InTx => tx[r].events = {}
        BY DEF MirrorInv, MirrorKnown, LogInv, Local, NoTx
      <3>1. CASE ReplayRecorded(r) \/ Proceed(r) \/ Record(r) \/ RecordError(r)
        <4>1. /\ UNCHANGED <<tx, cmd>> /\ pc'[r] \in {"begin", "done"}
          BY <3>1 DEF ReplayRecorded, Proceed, Record, RecordError, Goto, TypeOK
        <4>2. RowsOfCommand(r)'
          BY <3>0, <4>1 DEF RowsOfCommand
        <4>3. QED
          BY <4>1, <4>2, OutsideKnows
      <3>2. CASE Begin(r)
        <4>1. /\ cmd' = cmd /\ turn' = turn /\ pc[r] = "begin" /\ pc'[r] \in {"load", "save"}
          BY <3>2, TargetType DEF Begin, Goto, TypeOK
        <4>2. tx'[r].events = tx[r].events
          BY <3>2 DEF Begin, TypeOK, TxStates
        <4>3. RowsOfCommand(r)' /\ turn[r] = 1
          BY <3>0, <4>1, <4>2 DEF RowsOfCommand, AnswerInv, Answered
        <4>4. QED
          BY <4>1, <4>3, OutsideKnows
      <3>3. CASE Commit(r) \/ Crash(r)
        <4>1. cmd' = cmd /\ pc'[r] \in {"record", "done"} /\ tx'[r].events = {}
          BY <3>3 DEF Commit, Crash, Goto, AfterCommit, TypeOK, NoTx
        <4>2. RowsOfCommand(r)'
          BY <4>1 DEF RowsOfCommand
        <4>3. QED
          BY <4>1, <4>2, OutsideKnows
      <3>4. CASE LoadAggregate(r)
        <4>1. CASE cmd[r].kind = "update"
          <5>1. RowsOfCommand(r)' /\ cmd' = cmd /\ Advance(r)
            BY <3>0, <3>4 DEF RowsOfCommand, LoadAggregate
          <5>2. QED
            BY <4>1, <5>1, UpdateKnows, AdvanceAnswer
        <4>2. QED
          BY <3>4, <4>1, LoadKnows
      <3>5. CASE RejectCommand(r) \/ StaleVersion(r) \/ InsertConflict(r)
                 \/ SqlError(r) \/ DeadlockAbort(r)
        BY <3>5, FailKnows
           DEF RejectCommand, StaleVersion, InsertConflict, SqlError, DeadlockAbort
      <3>6. QED
        BY <1>1, <3>1, <3>2, <3>3, <3>4, <3>5, SkipKnows, CheckVersionKnows, InsertKnows,
           OutboxKnows DEF Step
    <2>4. QED
      BY <2>1, <2>2, <2>3 DEF MirrorInv
  <1>2. CASE UNCHANGED <<db, tx, cmd, pc, turn, agg, reply>>
    <2>1. /\ events' = events /\ tx' = tx /\ cmd' = cmd /\ pc' = pc /\ turn' = turn
          /\ agg' = agg /\ reply' = reply
      BY <1>2 DEF db
    <2>2. /\ \A o, u : Excused(o, u)' <=> Excused(o, u)
          /\ \A s : Members(s)' = Members(s)
      BY <2>1 DEF Excused, Partial, Committed, Members
    <2>3. MirrorUnlessPartial'
      BY <2>2 DEF MirrorInv, MirrorUnlessPartial, Excused
    <2>4. ASSUME NEW r \in Requests PROVE MirrorKnown(r)'
      <3>1. (Overtaken(r)' <=> Overtaken(r)) /\ (MirrorLists(r)' <=> MirrorLists(r))
        BY <2>1 DEF Overtaken, MirrorLists
      <3>2. QED
        BY <2>1, <2>2, <3>1
           DEF MirrorInv, MirrorKnown, RowsOfCommand, JoinsKnow, LeavesKnow, OkKnows
    <2>5. QED
      BY <2>3, <2>4 DEF MirrorInv
  <1>3. QED
    BY <1>1, <1>2 DEF Next, Expire, Finished, vars, db

\* The two sides of every membership agree, whatever commands run concurrently,
\* fail or crash, unless a command on that very pair reported failure after its
\* first aggregate was saved.
THEOREM MirrorsAgree == Spec => []MirrorUnlessPartial
  <1>1. Spec => []MirrorInv
    BY Invariance, States, Answers, InitMirrorInv, NextMirrorInv, PTL DEF Spec
  <1>2. MirrorInv => MirrorUnlessPartial
    BY DEF MirrorInv
  <1>3. QED
    BY <1>1, <1>2, PTL

=============================================================================
