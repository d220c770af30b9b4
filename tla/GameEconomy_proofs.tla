--------------------------- MODULE GameEconomy_proofs ---------------------------
(***************************************************************************)
(* Proofs about GameEconomy, for any set of requests, players, sessions    *)
(* and amounts, and any number of rebuilds and deaths.                     *)
(***************************************************************************)
EXTENDS GameEconomy, FiniteSetTheorems, SequenceTheorems, WellFoundedInduction, TLAPS

USE EconomyAssumption

(***************************************************************************)
(* The inductive invariants.                                               *)
(***************************************************************************)

\* Types, the log's included, and what a request knows by the time it needs it.
Aggregates == {"WalletAggregate", "SessionAggregate", "ScoreAggregate", "LeaderboardAggregate"}
Streams == Aggregates \X (Players \cup Sessions \cup {NoRow})
Events == [type : Appends, stream : Streams, version : Nat \ {0}, player : Players, amount : Nat]

NeedsSession == {"extend", "SessionStarted", "SessionEnded", "ScoreVerified"}

Asked(r) ==
    /\ pc[r] # "idle" => req[r].player \in Players
    /\ pc[r] \in NeedsSession => req[r].session \in Sessions

\* A session that was created has a player, and a request extends only such a one.
Owned ==
    /\ \A s \in Sessions : session[s] # NoSession => session[s].player \in Players
    /\ \A r \in Requests : pc[r] = "extend" => session[req[r].session].player \in Players

TypeInv == TypeOK /\ log \in Seq(Events) /\ (\A r \in Requests : Asked(r)) /\ Owned

\* A stream's versions are 1 to the number of its rows, in the order of the ids,
\* and a request is about to insert one of them, which then meets the unique
\* index, or the next.
RowsIn(lg, stream) == {i \in DOMAIN lg : lg[i].stream = stream}

Consecutive(lg) ==
    /\ \A stream \in Streams :
          {lg[i].version : i \in RowsIn(lg, stream)} = 1..Cardinality(RowsIn(lg, stream))
    /\ \A i \in DOMAIN lg : lg[i].version = Cardinality({j \in RowsIn(lg, lg[i].stream) : j <= i})

VersionsInv ==
    /\ Consecutive(log)
    /\ \A r \in Requests : version[r] # 0 =>
          pc[r] \in Appends /\ version[r] \in 1..Cardinality(Rows(StreamOf(r))) + 1

\* A read that was outdated before it was acted on stays on record: the request
\* never comes back to that label, and keeps its player.
Later(label) ==
    CASE label = "debit" -> {"MinutesPurchased", "lookup", "extend", "create", "SessionStarted", "ok"}
      [] label = "create" -> {"SessionStarted", "ok"}
      [] label = "place" -> {"LeaderboardUpdated", "reward", "RewardDeposited", "ok"}

StaleStays == \A r \in Requests, label \in {"debit", "create", "place"} :
    <<r, label>> \in stale => pc[r] \in {label} \cup Later(label)

\* What a request read still holds when it acts on it, or it is on record as stale.
DebitInv ==
    /\ NoOverdraft
    /\ \A r \in Requests : pc[r] = "debit" =>
          \/ CanPay(req[r].player, req[r].amount)
          \/ <<r, "debit">> \in stale

SessionInv ==
    /\ \A p \in Players : ActedOnStale("create", p) \/ \A s, t \in Active(p) : s = t
    /\ \A r \in Requests : pc[r] = "create" =>
          Active(req[r].player) = {} \/ <<r, "create">> \in stale

PlaceInv == \A r \in Requests : pc[r] = "place" =>
    \/ best[req[r].player] = seen[r] /\ Beats(req[r].amount, seen[r])
    \/ <<r, "place">> \in stale

(***************************************************************************)
(* Type correctness.                                                       *)
(***************************************************************************)

SessionRecords == [status : {"none", "active", "ended"}, player : Players \cup {NoRow}, minutes : Nat]
RequestRecords == [player : Players \cup {NoRow}, session : Sessions \cup {NoRow}, amount : Nat]

\* TypeInv in the parts that the actions disturb separately.
TablesOK ==
    /\ wallet \in [Players -> Int \cup {NoRow}]
    /\ session \in [Sessions -> SessionRecords]
    /\ best \in [Players -> Nat \cup {NoRow}]

LogOK == log \in Seq(Events) /\ position \in [Projectors -> 0..Len(log)]

RequestsOK ==
    /\ pc \in [Requests -> Labels] /\ req \in [Requests -> RequestRecords]
    /\ seen \in [Requests -> Nat \cup {NoRow}] /\ version \in [Requests -> Nat]
    /\ stopped \subseteq Requests /\ stale \subseteq Requests \X {"debit", "create", "place"}
    /\ \A r \in Requests : Asked(r)

BoundsOK == rebuilds \in [Projectors -> Nat] /\ faults \in Nat

LEMMA TypeParts == TypeInv <=> TablesOK /\ LogOK /\ RequestsOK /\ BoundsOK /\ Owned
  <1>1. ASSUME log \in Seq(Events)
        PROVE  \A i \in DOMAIN log : /\ log[i].type \in Appends /\ log[i].version \in Nat \ {0}
                                     /\ log[i].player \in Players /\ log[i].amount \in Nat
    <2>1. \A i \in DOMAIN log : log[i] \in Events
      BY <1>1, ElementOfSeq, LenProperties
    <2>2. QED
      BY <2>1 DEF Events
  <1>2. QED
    BY <1>1 DEF TypeInv, TypeOK, TablesOK, LogOK, RequestsOK, BoundsOK, SessionRecords, RequestRecords

LEMMA NoRowApart == NoRow \notin Int /\ NoRow \notin Players /\ NoRow \notin Sessions /\ NoRow \notin Requests
  OBVIOUS

LEMMA CostType == \A m \in Nat : Cost(m) \in Nat
  <1>1. \A x, y \in Nat : x * y \in Nat
    OBVIOUS
  <1>2. QED
    BY <1>1 DEF Cost

LEMMA RewardType == \A s \in Nat : Reward(s) \in Nat
  <1>1. \A s \in Nat : s \div 10 \in Nat
    OBVIOUS
  <1>2. QED
    BY <1>1 DEF Reward

LEMMA Amounts ==
    /\ \A a \in Deposits : a \in Nat
    /\ \A m \in Minutes : m \in Nat
    /\ \A s \in Scores : s \in Nat
  OBVIOUS

\* What a request knows.
LEMMA RequestType ==
    ASSUME RequestsOK, NEW r \in Requests
    PROVE  /\ req[r] \in RequestRecords /\ pc[r] \in Labels
           /\ req[r].player \in Players \cup {NoRow} /\ req[r].session \in Sessions \cup {NoRow}
           /\ req[r].amount \in Nat
           /\ version[r] \in Nat /\ seen[r] \in Nat \cup {NoRow}
           /\ pc[r] # "idle" => req[r].player \in Players
           /\ pc[r] \in NeedsSession => req[r].session \in Sessions
  BY DEF RequestsOK, RequestRecords, Asked

LEMMA CreditEffect ==
    ASSUME TablesOK, NEW p \in Players, NEW amount \in Nat, Credit(p, amount)
    PROVE  /\ wallet' \in [Players -> Int \cup {NoRow}]
           /\ wallet'[p] = IF wallet[p] = NoRow THEN amount ELSE wallet[p] + amount
           /\ wallet'[p] \in Int
           /\ \A q \in Players \ {p} : wallet'[q] = wallet[q]
  <1>1. wallet[p] = NoRow \/ wallet[p] \in Int
    BY DEF TablesOK
  <1>2. (IF wallet[p] = NoRow THEN amount ELSE wallet[p] + amount) \in Int
    BY <1>1
  <1>3. wallet' = [wallet EXCEPT ![p] = IF wallet[p] = NoRow THEN amount ELSE wallet[p] + amount]
    BY DEF Credit
  <1>4. QED
    BY <1>2, <1>3 DEF TablesOK

\* A change of one session leaves the others alone.
LEMMA SessionEffect ==
    ASSUME TablesOK, NEW s \in Sessions, NEW record \in SessionRecords,
           session' = [session EXCEPT ![s] = record]
    PROVE  /\ session' \in [Sessions -> SessionRecords] /\ session'[s] = record
           /\ \A t \in Sessions \ {s} : session'[t] = session[t]
  BY DEF TablesOK

LEMMA ExtendEffect ==
    ASSUME TablesOK, NEW s \in Sessions, NEW n \in Nat,
           session' = [session EXCEPT ![s].minutes = @ + n]
    PROVE  /\ session' \in [Sessions -> SessionRecords]
           /\ session'[s].status = session[s].status /\ session'[s].player = session[s].player
           /\ \A t \in Sessions \ {s} : session'[t] = session[t]
  <1> DEFINE old == session[s]
             new == [old EXCEPT !.minutes = @ + n]
  <1>1. old \in SessionRecords
    BY DEF TablesOK
  <1>2. new \in SessionRecords /\ new.status = old.status /\ new.player = old.player
    BY <1>1 DEF SessionRecords
  <1>3. session' = [session EXCEPT ![s] = new]
    OBVIOUS
  <1> HIDE DEF new
  <1>4. QED
    BY <1>2, <1>3, SessionEffect

LEMMA EndEffect ==
    ASSUME TablesOK, NEW s \in Sessions, session' = [session EXCEPT ![s].status = "ended"]
    PROVE  /\ session' \in [Sessions -> SessionRecords]
           /\ session'[s].status = "ended" /\ session'[s].player = session[s].player
           /\ \A t \in Sessions \ {s} : session'[t] = session[t]
  <1> DEFINE old == session[s]
             new == [old EXCEPT !.status = "ended"]
  <1>1. old \in SessionRecords
    BY DEF TablesOK
  <1>2. new \in SessionRecords /\ new.status = "ended" /\ new.player = old.player
    BY <1>1 DEF SessionRecords
  <1>3. session' = [session EXCEPT ![s] = new]
    OBVIOUS
  <1> HIDE DEF new
  <1>4. QED
    BY <1>2, <1>3, SessionEffect

LEMMA CreateEffect ==
    ASSUME TablesOK, NEW s \in Sessions, NEW p \in Players, NEW n \in Nat,
           session' = [session EXCEPT ![s] = [status |-> "active", player |-> p, minutes |-> n]]
    PROVE  /\ session' \in [Sessions -> SessionRecords]
           /\ session'[s].status = "active" /\ session'[s].player = p
           /\ \A t \in Sessions \ {s} : session'[t] = session[t]
  <1> DEFINE new == [status |-> "active", player |-> p, minutes |-> n]
  <1>1. new \in SessionRecords /\ new.status = "active" /\ new.player = p
    BY DEF SessionRecords
  <1> HIDE DEF new
  <1>2. QED
    BY <1>1, SessionEffect DEF new

\* An event of the log, as the projectors find it.
LEMMA EventType ==
    ASSUME LogOK, NEW i \in DOMAIN log
    PROVE  /\ log[i] \in Events /\ i \in 1..Len(log) /\ log[i].player \in Players
           /\ log[i].amount \in Nat /\ log[i].version \in Nat \ {0} /\ log[i].stream \in Streams
  <1>1. log[i] \in Events /\ i \in 1..Len(log)
    BY ElementOfSeq, LenProperties DEF LogOK
  <1>2. QED
    BY <1>1 DEF Events

LEMMA RestartEffect ==
    ASSUME NEW x \in Projectors, Restart(x)
    PROVE  /\ rebuilds' = [rebuilds EXCEPT ![x] = @ + 1]
           /\ position' = [position EXCEPT ![x] = 0] /\ faults' = faults
  BY Zenon DEF Restart

LEMMA TablesNext ==
    ASSUME TablesOK, LogOK, RequestsOK, [Next]_vars
    PROVE  TablesOK'
  <1>1. ASSUME UNCHANGED tables PROVE TablesOK'
    BY <1>1 DEF TablesOK, tables
  <1>2. ASSUME NEW p \in Players, NEW a \in Nat, Credit(p, a), UNCHANGED <<session, best>>
        PROVE  TablesOK'
    BY <1>2, CreditEffect DEF TablesOK
  <1>3. ASSUME NEW r \in Requests, Call(r) PROVE TablesOK'
    <2>1. ASSUME NEW p \in Players, NEW a \in Deposits, Deposit(r, p, a) PROVE TablesOK'
      BY <1>2, <2>1, Amounts DEF Deposit
    <2>2. ASSUME NEW p \in Players, NEW m \in Minutes, CheckBalance(r, p, m) PROVE TablesOK'
      BY <1>1, <2>2 DEF CheckBalance
    <2>3. ASSUME NEW s \in Sessions, NEW n \in Scores, EndSession(r, s, n) PROVE TablesOK'
      BY <2>3, EndEffect DEF EndSession, TablesOK
    <2>4. QED
      BY <1>3, <2>1, <2>2, <2>3 DEF Call
  <1>4. ASSUME NEW r \in Requests, Debit(r) PROVE TablesOK'
    <2> DEFINE p == req[r].player
    <2>1. p \in Players /\ req[r].amount \in Nat /\ UNCHANGED <<session, best>>
      BY <1>4, RequestType DEF Debit, At
    <2>2. Cost(req[r].amount) \in Nat
      BY <2>1, CostType
    <2>3. CASE wallet[p] = NoRow
      BY <1>1, <1>4, <2>3 DEF Debit, tables
    <2>4. CASE wallet[p] # NoRow
      <3>1. wallet' = [wallet EXCEPT ![p] = wallet[p] - Cost(req[r].amount)]
        BY <1>4, <2>4 DEF Debit
      <3>2. wallet[p] \in Int
        BY <2>1, <2>4 DEF TablesOK
      <3>3. wallet[p] - Cost(req[r].amount) \in Int
        BY <2>2, <3>2
      <3>4. wallet' \in [Players -> Int \cup {NoRow}]
        BY <3>1, <3>3 DEF TablesOK
      <3>5. QED
        BY <2>1, <3>4 DEF TablesOK
    <2>5. QED
      BY <2>3, <2>4
  <1>5. ASSUME NEW r \in Requests, ExtendSession(r) PROVE TablesOK'
    <2>1. req[r].session \in Sessions /\ req[r].amount \in Nat /\ UNCHANGED <<wallet, best>>
      BY <1>5, RequestType DEF ExtendSession, At, NeedsSession
    <2>2. session' \in [Sessions -> SessionRecords]
      BY <1>5, <2>1, ExtendEffect DEF ExtendSession
    <2>3. QED
      BY <2>1, <2>2 DEF TablesOK
  <1>6. ASSUME NEW r \in Requests, NEW s \in Sessions, CreateSession(r, s) PROVE TablesOK'
    <2>1. req[r].player \in Players /\ req[r].amount \in Nat /\ UNCHANGED <<wallet, best>>
      BY <1>6, RequestType DEF CreateSession, At
    <2>2. session' \in [Sessions -> SessionRecords]
      BY <1>6, <2>1, CreateEffect DEF CreateSession
    <2>3. QED
      BY <2>1, <2>2 DEF TablesOK
  <1>7. ASSUME NEW r \in Requests, PlaceScore(r) PROVE TablesOK'
    <2>1. req[r].player \in Players /\ req[r].amount \in Nat /\ UNCHANGED <<wallet, session>>
      BY <1>7, RequestType DEF PlaceScore, At
    <2>2. best' = best \/ best' = [best EXCEPT ![req[r].player] = req[r].amount]
      BY <1>7 DEF PlaceScore
    <2>3. QED
      BY <2>1, <2>2 DEF TablesOK
  <1>8. ASSUME NEW r \in Requests, PayReward(r) PROVE TablesOK'
    <2>1. req[r].player \in Players /\ req[r].amount \in Nat
      BY <1>8, RequestType DEF PayReward, At
    <2>2. Reward(req[r].amount) \in Nat
      BY <2>1, RewardType
    <2>3. QED
      BY <1>2, <1>8, <2>1, <2>2 DEF PayReward
  <1>9. CASE ProjectWallet
    BY <1>2, <1>9, EventType DEF ProjectWallet, Ahead
  <1>10. CASE ProjectBoard
    BY <1>10, EventType DEF ProjectBoard, Ahead, TablesOK
  <1>11. CASE RebuildWallet
    BY <1>11 DEF RebuildWallet, TablesOK
  <1>12. CASE RebuildBoard
    BY <1>12 DEF RebuildBoard, TablesOK
  <1>13. ASSUME NEW r \in Requests, \/ ReadVersion(r) \/ InsertEvent(r) \/ InsertConflict(r)
                                    \/ FindSession(r) \/ CompareScore(r) \/ Die(r)
         PROVE  TablesOK'
    BY <1>1, <1>13 DEF ReadVersion, InsertEvent, InsertConflict, FindSession, CompareScore, Die
  <1>14. CASE UNCHANGED vars
    BY <1>1, <1>14 DEF vars
  <1>15. ASSUME NEW r \in Requests, Continue(r) PROVE TablesOK'
    BY <1>4, <1>5, <1>6, <1>7, <1>8, <1>13, <1>15 DEF Continue
  <1>16. QED
    BY <1>3, <1>9, <1>10, <1>11, <1>12, <1>13, <1>14, <1>15 DEF Next

\* A request at an append has an event to insert, into a stream of its own kind.
LEMMA StreamType ==
    ASSUME RequestsOK, NEW r \in Requests, pc[r] \in Appends
    PROVE  StreamOf(r) \in Streams
  <1>1. req[r].player \in Players
    BY RequestType DEF Appends
  <1>2. CASE pc[r] \in {"WalletDeposited", "MinutesPurchased", "RewardDeposited"}
    <2>1. StreamOf(r) = WalletStream(req[r].player)
      BY <1>2 DEF StreamOf
    <2>2. QED
      BY <1>1, <2>1 DEF WalletStream, Streams, Aggregates
  <1>3. CASE pc[r] \in {"SessionStarted", "SessionEnded"}
    <2>1. StreamOf(r) = SessionStream(req[r].session) /\ req[r].session \in Sessions
      BY <1>3, RequestType DEF StreamOf, NeedsSession
    <2>2. QED
      BY <2>1 DEF SessionStream, Streams, Aggregates
  <1>4. CASE pc[r] = "ScoreVerified"
    <2>1. StreamOf(r) = <<"ScoreAggregate", req[r].session>> /\ req[r].session \in Sessions
      BY <1>4, RequestType DEF StreamOf, NeedsSession
    <2>2. QED
      BY <2>1 DEF Streams, Aggregates
  <1>5. CASE pc[r] = "LeaderboardUpdated"
    <2>1. StreamOf(r) = <<"LeaderboardAggregate", NoRow>>
      BY <1>5 DEF StreamOf
    <2>2. QED
      BY <2>1 DEF Streams, Aggregates
  <1>6. QED
    BY <1>2, <1>3, <1>4, <1>5 DEF Appends

LEMMA EventOfType ==
    ASSUME RequestsOK, NEW r \in Requests, pc[r] \in Appends, version[r] # 0
    PROVE  EventOf(r) \in Events /\ EventOf(r).stream = StreamOf(r) /\ EventOf(r).version = version[r]
  <1>1. /\ req[r].player \in Players /\ req[r].amount \in Nat /\ version[r] \in Nat \ {0}
        /\ StreamOf(r) \in Streams
    BY RequestType, StreamType DEF Appends
  <1>2. AmountOf(r) \in Nat
    <2>1. Cost(req[r].amount) \in Nat /\ Reward(req[r].amount) \in Nat
      BY <1>1, CostType, RewardType
    <2>2. AmountOf(r) \in {Cost(req[r].amount), Reward(req[r].amount), req[r].amount}
      BY DEF AmountOf
    <2>3. QED
      BY <1>1, <2>1, <2>2
  <1>3. (IF pc[r] = "RewardDeposited" THEN "WalletDeposited" ELSE pc[r]) \in Appends
    BY DEF Appends
  <1>4. QED
    BY <1>1, <1>2, <1>3 DEF EventOf, Events

LEMMA InsertEffect ==
    ASSUME LogOK, RequestsOK, NEW r \in Requests, InsertEvent(r)
    PROVE  /\ log' \in Seq(Events) /\ Len(log') = Len(log) + 1 /\ Len(log) \in Nat
           /\ log' = Append(log, EventOf(r))
           /\ EventOf(r) \in Events /\ EventOf(r).stream = StreamOf(r) /\ EventOf(r).version = version[r]
  <1>1. /\ EventOf(r) \in Events /\ log' = Append(log, EventOf(r)) /\ log \in Seq(Events)
        /\ EventOf(r).stream = StreamOf(r) /\ EventOf(r).version = version[r]
    BY EventOfType DEF InsertEvent, LogOK
  <1>2. QED
    BY <1>1, AppendProperties, LenProperties

LEMMA LogNext ==
    ASSUME TablesOK, LogOK, RequestsOK, [Next]_vars
    PROVE  LogOK'
  <1>1. Len(log) \in Nat /\ DOMAIN log = 1..Len(log)
    BY LenProperties DEF LogOK
  <1>2. ASSUME UNCHANGED <<log, position>> PROVE LogOK'
    BY <1>2 DEF LogOK
  <1>3. ASSUME NEW r \in Requests, InsertEvent(r) PROVE LogOK'
    <2>1. log' \in Seq(Events) /\ Len(log') = Len(log) + 1 /\ position' = position
      BY <1>3, InsertEffect DEF InsertEvent
    <2>2. QED
      BY <1>1, <2>1 DEF LogOK
  <1>4. ASSUME NEW x \in Projectors, NEW i \in DOMAIN log, position' = [position EXCEPT ![x] = i], log' = log
        PROVE  LogOK'
    BY <1>1, <1>4 DEF LogOK
  <1>5. CASE ProjectWallet \/ ProjectBoard
    BY <1>4, <1>5 DEF ProjectWallet, ProjectBoard, Ahead, Advance, Projectors
  <1>6. ASSUME NEW x \in Projectors, Restart(x), log' = log PROVE LogOK'
    BY <1>1, <1>6, RestartEffect DEF LogOK
  <1>7. CASE RebuildWallet \/ RebuildBoard
    BY <1>6, <1>7 DEF RebuildWallet, RebuildBoard, Projectors
  <1>8. CASE UNCHANGED vars
    BY <1>2, <1>8 DEF vars
  <1>9. ASSUME NEW r \in Requests, Call(r) \/ Die(r) PROVE LogOK'
    BY <1>2, <1>9 DEF Call, Deposit, CheckBalance, EndSession, Die
  <1>10. ASSUME NEW r \in Requests, Continue(r) PROVE LogOK'
    BY <1>2, <1>3, <1>10 DEF Continue, ReadVersion, InsertConflict, Debit, FindSession, ExtendSession,
                             CreateSession, CompareScore, PlaceScore, PayReward
  <1>11. QED
    BY <1>5, <1>7, <1>8, <1>9, <1>10 DEF Next

\* A request goes on to a label for which it has been asked enough,
LEMMA GotoEffect ==
    ASSUME RequestsOK, NEW r \in Requests, NEW label \in Labels, Goto(r, label), req' = req,
           pc[r] # "idle", label \in NeedsSession => req[r].session \in Sessions
    PROVE  /\ pc' \in [Requests -> Labels] /\ pc'[r] = label
           /\ \A q \in Requests \ {r} : pc'[q] = pc[q]
           /\ \A q \in Requests : Asked(q)'
  <1>1. /\ pc' \in [Requests -> Labels] /\ pc'[r] = label
        /\ \A q \in Requests \ {r} : pc'[q] = pc[q]
    BY DEF RequestsOK, Goto
  <1>2. Asked(r)'
    BY <1>1, RequestType DEF Asked
  <1>3. ASSUME NEW q \in Requests \ {r} PROVE Asked(q)'
    BY <1>1 DEF RequestsOK, Asked
  <1>4. QED
    BY <1>1, <1>2, <1>3

\* and one that is asked something has it from then on.
LEMMA AskEffect ==
    ASSUME RequestsOK, NEW r \in Requests, NEW label \in Labels, Goto(r, label),
           NEW p \in Players, NEW s \in Sessions \cup {NoRow}, NEW n \in Nat, Ask(r, p, s, n),
           label \in NeedsSession => s \in Sessions
    PROVE  /\ pc' \in [Requests -> Labels] /\ pc'[r] = label
           /\ \A q \in Requests \ {r} : pc'[q] = pc[q] /\ req'[q] = req[q]
           /\ req' \in [Requests -> RequestRecords]
           /\ req'[r].player = p /\ req'[r].session = s /\ req'[r].amount = n
           /\ \A q \in Requests : Asked(q)'
  <1> DEFINE new == [player |-> p, session |-> s, amount |-> n]
  <1>1. new \in RequestRecords /\ new.player = p /\ new.session = s /\ new.amount = n
    BY DEF RequestRecords
  <1>2. req' = [req EXCEPT ![r] = new]
    BY DEF Ask
  <1> HIDE DEF new
  <1>3. /\ pc' \in [Requests -> Labels] /\ pc'[r] = label /\ req' \in [Requests -> RequestRecords]
        /\ req'[r] = new /\ \A q \in Requests \ {r} : pc'[q] = pc[q] /\ req'[q] = req[q]
    BY <1>1, <1>2 DEF RequestsOK, Goto
  <1>4. Asked(r)'
    BY <1>1, <1>3 DEF Asked
  <1>5. ASSUME NEW q \in Requests \ {r} PROVE Asked(q)'
    BY <1>3 DEF RequestsOK, Asked
  <1>6. QED
    BY <1>1, <1>3, <1>4, <1>5

LEMMA OutdateEffect ==
    ASSUME RequestsOK, NEW label \in {"debit", "create", "place"}, NEW r, NEW p,
           Outdate(r, label, p) \/ OutdateAll(label)
    PROVE  stale' \subseteq Requests \X {"debit", "create", "place"} /\ stale \subseteq stale'
  BY DEF Outdate, OutdateAll, RequestsOK

\* Where an insert leads.
LEMMA AfterType ==
    ASSUME RequestsOK, NEW r \in Requests, pc[r] \in Appends
    PROVE  /\ After(r) \in {"lookup", "ScoreVerified", "compare", "reward", "ok"}
           /\ After(r) = "ScoreVerified" => pc[r] = "SessionEnded"
           /\ pc[r] = "SessionEnded" => After(r) = "ScoreVerified"
           /\ pc[r] \notin {"MinutesPurchased", "SessionEnded", "ScoreVerified", "LeaderboardUpdated"}
                => After(r) = "ok"
           /\ pc[r] = "MinutesPurchased" => After(r) = "lookup"
           /\ pc[r] = "ScoreVerified" => After(r) = "compare"
           /\ pc[r] = "LeaderboardUpdated" => After(r) \in {"reward", "ok"}
  <1>1. AfterBoard(r) \in {"reward", "ok"}
    BY DEF AfterBoard
  <1>2. QED
    BY <1>1 DEF After, Appends

(***************************************************************************)
(* Versions.                                                               *)
(***************************************************************************)

LEMMA RowsFinite ==
    ASSUME NEW lg \in Seq(Events), NEW stream
    PROVE  /\ IsFiniteSet(RowsIn(lg, stream)) /\ Cardinality(RowsIn(lg, stream)) \in Nat
           /\ RowsIn(lg, stream) \subseteq 1..Len(lg) /\ Len(lg) \in Nat
  <1>1. RowsIn(lg, stream) \subseteq 1..Len(lg) /\ Len(lg) \in Nat
    BY LenProperties DEF RowsIn
  <1>2. IsFiniteSet(1..Len(lg))
    BY <1>1, FS_Interval
  <1>3. QED
    BY <1>1, <1>2, FS_Subset, FS_CardinalityType

\* The last version of a stream is the number of its rows.
LEMMA NextVersionCounts ==
    ASSUME LogOK, Consecutive(log), NEW stream \in Streams
    PROVE  NextVersion(stream) = Cardinality(Rows(stream)) + 1 /\ NextVersion(stream) \in Nat \ {0}
  <1> DEFINE n == Cardinality(Rows(stream))
             S == {log[i].version : i \in Rows(stream)} \cup {0}
  <1>1. Rows(stream) = RowsIn(log, stream)
    BY DEF Rows, RowsIn
  <1>2. n \in Nat
    BY <1>1, RowsFinite DEF LogOK
  <1>3. S = 1..n \cup {0}
    BY <1>1 DEF Consecutive
  <1>4. NextVersion(stream) = Max(S) + 1
    BY DEF NextVersion
  <1> HIDE DEF n, S
  <1>5. n \in S /\ \A y \in S : n >= y
    BY <1>2, <1>3
  <1>6. Max(S) \in S /\ \A y \in S : Max(S) >= y
    BY <1>5 DEF Max
  <1>7. Max(S) = n
    BY <1>2, <1>3, <1>5, <1>6
  <1>8. QED
    BY <1>2, <1>4, <1>7 DEF n

\* A row with the next version is appended.
LEMMA AppendKeeps ==
    ASSUME NEW lg \in Seq(Events), Consecutive(lg), NEW e \in Events,
           e.version = Cardinality(RowsIn(lg, e.stream)) + 1
    PROVE  /\ Append(lg, e) \in Seq(Events) /\ Consecutive(Append(lg, e))
           /\ RowsIn(Append(lg, e), e.stream) = RowsIn(lg, e.stream) \cup {Len(lg) + 1}
           /\ Cardinality(RowsIn(Append(lg, e), e.stream)) = Cardinality(RowsIn(lg, e.stream)) + 1
           /\ \A stream : stream # e.stream => RowsIn(Append(lg, e), stream) = RowsIn(lg, stream)
  <1> DEFINE new == Append(lg, e)
             n == Len(lg)
             s == e.stream
  <1>1. /\ new \in Seq(Events) /\ Len(new) = n + 1 /\ n \in Nat
        /\ DOMAIN lg = 1..n /\ DOMAIN new = 1..(n + 1)
        /\ \A i \in 1..n : new[i] = lg[i]
        /\ new[n + 1] = e
    BY AppendProperties, LenProperties
  <1> HIDE DEF new, n
  <1>2. RowsIn(new, s) = RowsIn(lg, s) \cup {n + 1} /\ n + 1 \notin RowsIn(lg, s)
    BY <1>1 DEF RowsIn
  <1>3. \A stream : stream # s => RowsIn(new, stream) = RowsIn(lg, stream)
    BY <1>1 DEF RowsIn
  <1>4. \A stream : RowsIn(lg, stream) \subseteq 1..n /\ IsFiniteSet(RowsIn(lg, stream))
                    /\ Cardinality(RowsIn(lg, stream)) \in Nat
    BY RowsFinite DEF n
  <1>5. Cardinality(RowsIn(new, s)) = Cardinality(RowsIn(lg, s)) + 1
    BY <1>2, <1>4, FS_AddElement
  <1>6. ASSUME NEW stream \in Streams
        PROVE  {new[i].version : i \in RowsIn(new, stream)} = 1..Cardinality(RowsIn(new, stream))
    <2>1. {lg[i].version : i \in RowsIn(lg, stream)} = 1..Cardinality(RowsIn(lg, stream))
      BY DEF Consecutive
    <2>2. {new[i].version : i \in RowsIn(lg, stream)} = {lg[i].version : i \in RowsIn(lg, stream)}
      BY <1>1, <1>4
    <2>3. CASE stream # s
      <3>1. RowsIn(new, stream) = RowsIn(lg, stream)
        BY <1>3, <2>3
      <3> HIDE DEF s
      <3>2. {new[i].version : i \in RowsIn(new, stream)} = {lg[i].version : i \in RowsIn(lg, stream)}
        BY <2>2, <3>1
      <3>3. QED
        BY <2>1, <3>1, <3>2
    <2>4. CASE stream = s
      <3> DEFINE k == Cardinality(RowsIn(lg, s))
      <3>1. {new[i].version : i \in RowsIn(new, s)} = {new[i].version : i \in RowsIn(lg, s)} \cup {k + 1}
        BY <1>1, <1>2
      <3>2. {new[i].version : i \in RowsIn(new, s)} = 1..k \cup {k + 1} /\ k \in Nat
        BY <1>4, <2>1, <2>2, <2>4, <3>1
      <3> HIDE DEF k
      <3>3. 1..k \cup {k + 1} = 1..(k + 1)
        BY <3>2
      <3>4. QED
        BY <1>5, <2>4, <3>2, <3>3 DEF k
    <2>5. QED
      BY <2>3, <2>4
  <1>7. ASSUME NEW i \in 1..(n + 1)
        PROVE  new[i].version = Cardinality({j \in RowsIn(new, new[i].stream) : j <= i})
    <2>1. CASE i \in 1..n
      <3>1. new[i] = lg[i] /\ new[i].version = Cardinality({j \in RowsIn(lg, lg[i].stream) : j <= i})
        BY <1>1, <2>1 DEF Consecutive
      <3>2. {j \in RowsIn(new, lg[i].stream) : j <= i} = {j \in RowsIn(lg, lg[i].stream) : j <= i}
        BY <1>1, <1>2, <1>3, <2>1
      <3>3. QED
        BY <3>1, <3>2
    <2>2. CASE i = n + 1
      <3>1. {j \in RowsIn(new, s) : j <= i} = RowsIn(new, s)
        BY <1>1, <1>2, <1>4, <2>2
      <3>2. QED
        BY <1>1, <1>5, <2>2, <3>1
    <2>3. QED
      BY <1>1, <2>1, <2>2
  <1>8. Consecutive(new)
    BY <1>1, <1>6, <1>7 DEF Consecutive
  <1>9. QED
    BY <1>1, <1>2, <1>3, <1>5, <1>8 DEF new, n

\* What a step leaves of a request's append.
LEMMA VersionsNext ==
    ASSUME TablesOK, LogOK, RequestsOK, Owned, VersionsInv, [Next]_vars
    PROVE  VersionsInv'
  <1>1. ASSUME log' = log, NEW r \in Requests, version'[r] # 0, version'[r] = version[r],
               pc'[r] = pc[r], req'[r] = req[r]
        PROVE  pc'[r] \in Appends /\ version'[r] \in 1..Cardinality(Rows(StreamOf(r)))' + 1
    <2>1. pc[r] \in Appends /\ version[r] \in 1..Cardinality(Rows(StreamOf(r))) + 1
      BY <1>1 DEF VersionsInv
    <2>2. Rows(StreamOf(r))' = Rows(StreamOf(r))
      BY <1>1 DEF Rows, StreamOf
    <2>3. QED
      BY <1>1, <2>1, <2>2
  <1>2. ASSUME log' = log, \A r \in Requests : \/ version'[r] = 0
                                               \/ version'[r] = version[r] /\ pc'[r] = pc[r] /\ req'[r] = req[r]
        PROVE  VersionsInv'
    BY <1>1, <1>2 DEF VersionsInv
  <1>3. \A r \in Requests : pc[r] \notin Appends => version[r] = 0
    BY DEF VersionsInv
  <1>4. ASSUME NEW r \in Requests, pc[r] \notin Appends, log' = log, version' = version,
               \A q \in Requests \ {r} : pc'[q] = pc[q] /\ req'[q] = req[q]
        PROVE  VersionsInv'
    BY <1>2, <1>3, <1>4
  <1>5. ASSUME NEW r \in Requests, Call(r) PROVE VersionsInv'
    <2>1. pc[r] = "idle" /\ log' = log /\ version' = version
      BY <1>5 DEF Call, Deposit, CheckBalance, EndSession
    <2>2. \A q \in Requests \ {r} : pc'[q] = pc[q] /\ req'[q] = req[q]
      BY <1>5 DEF Call, Deposit, CheckBalance, EndSession, Goto, Ask, RequestsOK
    <2>3. QED
      BY <1>4, <2>1, <2>2 DEF Appends
  <1>6. ASSUME NEW r \in Requests, \/ Debit(r) \/ FindSession(r) \/ ExtendSession(r) \/ CompareScore(r)
                                   \/ PlaceScore(r) \/ PayReward(r) \/ \E s \in Sessions : CreateSession(r, s)
        PROVE  VersionsInv'
    <2>1. pc[r] \notin Appends /\ log' = log /\ version' = version
      BY <1>6 DEF Debit, FindSession, ExtendSession, CompareScore, PlaceScore, PayReward, CreateSession,
                  At, Appends
    <2>2. \A q \in Requests \ {r} : pc'[q] = pc[q] /\ req'[q] = req[q]
      BY <1>6 DEF Debit, FindSession, ExtendSession, CompareScore, PlaceScore, PayReward, CreateSession,
                  Goto, Ask, RequestsOK
    <2>3. QED
      BY <1>4, <2>1, <2>2
  <1>7. ASSUME NEW r \in Requests, ReadVersion(r) PROVE VersionsInv'
    <2>1. /\ pc[r] \in Appends /\ version' = [version EXCEPT ![r] = NextVersion(StreamOf(r))]
          /\ log' = log /\ pc' = pc /\ req' = req
      BY <1>7 DEF ReadVersion
    <2>2. StreamOf(r) \in Streams
      BY <2>1, StreamType
    <2>3. version'[r] = Cardinality(Rows(StreamOf(r))) + 1 /\ version'[r] \in Nat \ {0}
      BY <2>1, <2>2, NextVersionCounts DEF VersionsInv, RequestsOK
    <2>4. Rows(StreamOf(r))' = Rows(StreamOf(r)) /\ Cardinality(Rows(StreamOf(r))) \in Nat
      <3>1. Rows(StreamOf(r))' = Rows(StreamOf(r))
        BY <2>1 DEF Rows, StreamOf
      <3>2. Cardinality(RowsIn(log, StreamOf(r))) \in Nat
        BY RowsFinite DEF LogOK
      <3>3. QED
        BY <3>1, <3>2 DEF Rows, RowsIn
    <2>5. version'[r] \in 1..Cardinality(Rows(StreamOf(r)))' + 1 /\ pc'[r] \in Appends
      BY <2>1, <2>3, <2>4
    <2>6. \A q \in Requests \ {r} : version'[q] = version[q]
      BY <2>1 DEF RequestsOK
    <2>7. QED
      BY <1>1, <2>1, <2>5, <2>6 DEF VersionsInv
  <1>8. ASSUME NEW r \in Requests, InsertEvent(r) PROVE VersionsInv'
    <2> DEFINE e == EventOf(r)
               s == StreamOf(r)
               n == Cardinality(Rows(s))
    <2>1. /\ pc[r] \in Appends /\ version[r] # 0 /\ ~ Taken(r) /\ log' = Append(log, e)
          /\ version' = [version EXCEPT ![r] = 0] /\ Goto(r, After(r)) /\ req' = req
      BY <1>8 DEF InsertEvent
    <2>2. e \in Events /\ e.stream = s /\ e.version = version[r] /\ s \in Streams
      BY <2>1, EventOfType, StreamType
    <2>3. Rows(s) = RowsIn(log, s) /\ n \in Nat
      <3>1. Cardinality(RowsIn(log, s)) \in Nat
        BY RowsFinite DEF LogOK
      <3>2. QED
        BY <3>1 DEF Rows, RowsIn
    <2>4. version[r] = n + 1
      <3>1. {log[i].version : i \in Rows(s)} = 1..n
        BY <2>2, <2>3 DEF VersionsInv, Consecutive
      <3>2. version[r] \notin {log[i].version : i \in Rows(s)}
        BY <2>1 DEF Taken
      <3>3. version[r] \in 1..(n + 1)
        BY <2>1 DEF VersionsInv
      <3> HIDE DEF n, s
      <3>4. QED
        BY <2>3, <3>1, <3>2, <3>3
    <2>5. /\ Consecutive(log') /\ \A stream \in Streams : stream # s => RowsIn(log', stream) = RowsIn(log, stream)
          /\ Cardinality(RowsIn(log', s)) = n + 1
      <3>1. log \in Seq(Events) /\ Consecutive(log) /\ e.version = Cardinality(RowsIn(log, e.stream)) + 1
        BY <2>2, <2>3, <2>4 DEF LogOK, VersionsInv
      <3> HIDE DEF e, s, n
      <3>2. /\ Consecutive(Append(log, e))
            /\ Cardinality(RowsIn(Append(log, e), e.stream)) = Cardinality(RowsIn(log, e.stream)) + 1
            /\ \A stream : stream # e.stream => RowsIn(Append(log, e), stream) = RowsIn(log, stream)
        BY <2>2, <3>1, AppendKeeps
      <3>3. QED
        BY <2>1, <2>2, <2>3, <3>2 DEF n
    <2>6. \A q \in Requests \ {r} : pc'[q] = pc[q] /\ version'[q] = version[q]
      BY <2>1 DEF Goto, RequestsOK
    <2>7. ASSUME NEW q \in Requests, version'[q] # 0
          PROVE  pc'[q] \in Appends /\ version'[q] \in 1..Cardinality(Rows(StreamOf(q)))' + 1
      <3>1. q # r
        BY <2>1, <2>7 DEF RequestsOK
      <3>2. pc'[q] = pc[q] /\ version'[q] = version[q] /\ pc[q] \in Appends
            /\ version[q] \in 1..Cardinality(Rows(StreamOf(q))) + 1
        BY <2>6, <2>7, <3>1 DEF VersionsInv
      <3>3. StreamOf(q) \in Streams /\ StreamOf(q)' = StreamOf(q)
        <4>1. StreamOf(q)' = StreamOf(q)
          BY <2>1, <3>2 DEF StreamOf
        <4>2. QED
          BY <3>2, <4>1, StreamType
      <3>4. Cardinality(RowsIn(log, StreamOf(q))) \in Nat
        BY RowsFinite DEF LogOK
      <3>5. \/ Cardinality(RowsIn(log', StreamOf(q))) = Cardinality(RowsIn(log, StreamOf(q)))
            \/ Cardinality(RowsIn(log', StreamOf(q))) = Cardinality(RowsIn(log, StreamOf(q))) + 1
        BY <2>3, <2>5, <3>3
      <3>6. /\ Rows(StreamOf(q)) = RowsIn(log, StreamOf(q))
            /\ Rows(StreamOf(q))' = RowsIn(log', StreamOf(q))
        BY <3>3 DEF Rows, RowsIn
      <3>7. QED
        BY <3>2, <3>4, <3>5, <3>6
    <2>8. QED
      BY <2>5, <2>7 DEF VersionsInv
  <1>9. ASSUME NEW r \in Requests, InsertConflict(r) \/ Die(r) PROVE VersionsInv'
    BY <1>2, <1>9 DEF InsertConflict, Die
  <1>10. CASE ProjectWallet \/ ProjectBoard \/ RebuildWallet \/ RebuildBoard \/ UNCHANGED vars
    BY <1>2, <1>10 DEF ProjectWallet, ProjectBoard, RebuildWallet, RebuildBoard, vars, request
  <1>11. QED
    BY <1>5, <1>6, <1>7, <1>8, <1>9, <1>10 DEF Next, Continue

LEMMA RequestsNext ==
    ASSUME TablesOK, LogOK, RequestsOK, Owned, Consecutive(log), [Next]_vars
    PROVE  RequestsOK'
  <1>1. ASSUME UNCHANGED <<request, stale>> PROVE RequestsOK'
    BY <1>1 DEF RequestsOK, request, Asked
  <1>2. ASSUME NEW r \in Requests, Call(r) PROVE RequestsOK'
    <2>1. ASSUME NEW p \in Players, NEW s \in Sessions \cup {NoRow}, NEW n \in Nat, Ask(r, p, s, n),
                 NEW label \in Labels, Goto(r, label), label \in NeedsSession => s \in Sessions,
                 UNCHANGED <<seen, version, stopped, stale>>
          PROVE  RequestsOK'
      BY <2>1, AskEffect DEF RequestsOK
    <2>2. ASSUME NEW p \in Players, NEW a \in Deposits, Deposit(r, p, a) PROVE RequestsOK'
      BY <2>1, <2>2, Amounts DEF Deposit, Labels, Appends, NeedsSession
    <2>3. ASSUME NEW p \in Players, NEW m \in Minutes, CheckBalance(r, p, m) PROVE RequestsOK'
      BY <2>1, <2>3, Amounts DEF CheckBalance, Labels, NeedsSession
    <2>4. ASSUME NEW s \in Sessions, NEW n \in Scores, EndSession(r, s, n) PROVE RequestsOK'
      <3>1. Ask(r, session[s].player, s, n) /\ Goto(r, "SessionEnded")
            /\ UNCHANGED <<seen, version, stopped, stale>>
        BY <2>4 DEF EndSession
      <3>2. session[s].player \in Players
        BY <2>4 DEF EndSession, Owned
      <3>3. QED
        BY <2>1, <3>1, <3>2, Amounts DEF Labels, Appends
    <2>5. QED
      BY <1>2, <2>2, <2>3, <2>4 DEF Call
  <1>3. ASSUME NEW r \in Requests, NEW label \in Labels, Goto(r, label), req' = req, pc[r] # "idle",
               label \in NeedsSession => req[r].session \in Sessions,
               seen' \in [Requests -> Nat \cup {NoRow}], version' \in [Requests -> Nat], stopped' = stopped,
               stale' \subseteq Requests \X {"debit", "create", "place"}
        PROVE  RequestsOK'
    BY <1>3, GotoEffect DEF RequestsOK
  <1>4. ASSUME NEW r \in Requests, Stop(r), pc' = pc, req' = req, stale' = stale, version' = version,
               seen' \in [Requests -> Nat \cup {NoRow}]
        PROVE  RequestsOK'
    BY <1>4 DEF Stop, RequestsOK, Asked
  <1>5. ASSUME NEW r \in Requests, ReadVersion(r) PROVE RequestsOK'
    <2>1. NextVersion(StreamOf(r)) \in Nat
      BY <1>5, StreamType, NextVersionCounts DEF ReadVersion
    <2>2. version' \in [Requests -> Nat]
      BY <1>5, <2>1 DEF ReadVersion, RequestsOK
    <2>3. QED
      BY <1>5, <2>2 DEF ReadVersion, RequestsOK, Asked
  <1>6. ASSUME NEW r \in Requests, InsertEvent(r) PROVE RequestsOK'
    <2>1. pc[r] \in Appends /\ Goto(r, After(r)) /\ version' = [version EXCEPT ![r] = 0]
          /\ UNCHANGED <<req, seen, stopped, stale>>
      BY <1>6 DEF InsertEvent
    <2>2. After(r) \in Labels /\ pc[r] # "idle"
          /\ (After(r) \in NeedsSession => req[r].session \in Sessions)
      BY <2>1, AfterType, RequestType DEF Labels, Appends, NeedsSession
    <2>3. version' \in [Requests -> Nat]
      BY <2>1 DEF RequestsOK
    <2>4. QED
      BY <1>3, <2>1, <2>2, <2>3 DEF RequestsOK
  <1>7. ASSUME NEW r \in Requests, InsertConflict(r) \/ Die(r) PROVE RequestsOK'
    BY <1>4, <1>7 DEF InsertConflict, Die, RequestsOK
  <1>8. ASSUME NEW r \in Requests, Debit(r) PROVE RequestsOK'
    <2>1. pc[r] = "debit" /\ UNCHANGED <<req, seen, version>>
      BY <1>8 DEF Debit, At
    <2>2. CASE wallet[req[r].player] = NoRow
      BY <1>4, <1>8, <2>1, <2>2 DEF Debit, RequestsOK
    <2>3. CASE wallet[req[r].player] # NoRow
      <3>1. Outdate(r, "debit", req[r].player) /\ Goto(r, "MinutesPurchased") /\ stopped' = stopped
        BY <1>8, <2>3 DEF Debit
      <3>2. stale' \subseteq Requests \X {"debit", "create", "place"}
        BY <3>1, OutdateEffect
      <3>3. QED
        BY <1>3, <2>1, <3>1, <3>2 DEF RequestsOK, Labels, Appends, NeedsSession
    <2>4. QED
      BY <2>2, <2>3
  <1>9. ASSUME NEW r \in Requests, FindSession(r) PROVE RequestsOK'
    <2>1. pc[r] = "lookup" /\ UNCHANGED <<seen, version, stopped, stale>>
      BY <1>9 DEF FindSession, At
    <2>2. CASE Goto(r, "create") /\ UNCHANGED req
      BY <1>3, <2>1, <2>2 DEF RequestsOK, Labels, NeedsSession
    <2>3. ASSUME NEW s \in Sessions, Ask(r, req[r].player, s, req[r].amount), Goto(r, "extend")
          PROVE  RequestsOK'
      <3>1. req[r].player \in Players /\ req[r].amount \in Nat /\ "extend" \in Labels
        BY <2>1, RequestType DEF Labels
      <3>2. QED
        BY <2>1, <2>3, <3>1, AskEffect DEF RequestsOK
    <2>4. QED
      BY <1>9, <2>2, <2>3 DEF FindSession, Active
  <1>10. ASSUME NEW r \in Requests, ExtendSession(r) PROVE RequestsOK'
    BY <1>3, <1>10 DEF ExtendSession, At, RequestsOK, Labels, NeedsSession
  <1>11. ASSUME NEW r \in Requests, NEW s \in Sessions, CreateSession(r, s) PROVE RequestsOK'
    <2>1. /\ pc[r] = "create" /\ Ask(r, req[r].player, s, req[r].amount) /\ Goto(r, "SessionStarted")
          /\ Outdate(r, "create", req[r].player) /\ UNCHANGED <<seen, version, stopped>>
      BY <1>11 DEF CreateSession, At
    <2>2. stale' \subseteq Requests \X {"debit", "create", "place"}
      BY <2>1, OutdateEffect
    <2>3. req[r].player \in Players /\ req[r].amount \in Nat /\ "SessionStarted" \in Labels
      BY <2>1, RequestType DEF Labels, Appends
    <2>4. QED
      BY <2>1, <2>2, <2>3, AskEffect DEF RequestsOK
  <1>12. ASSUME NEW r \in Requests, CompareScore(r) PROVE RequestsOK'
    <2>1. pc[r] = "compare" /\ UNCHANGED <<req, version, stopped, stale>> /\ req[r].player \in Players
      BY <1>12, RequestType DEF CompareScore, At
    <2>2. AfterBoard(r) \in {"reward", "ok"}
      BY DEF AfterBoard
    <2>3. CASE Beats(req[r].amount, best[req[r].player])
      <3>1. Goto(r, "place") /\ seen' = [seen EXCEPT ![r] = best[req[r].player]]
        BY <1>12, <2>3 DEF CompareScore
      <3>2. seen' \in [Requests -> Nat \cup {NoRow}]
        BY <2>1, <3>1 DEF RequestsOK, TablesOK
      <3>3. QED
        BY <1>3, <2>1, <3>1, <3>2 DEF RequestsOK, Labels, NeedsSession
    <2>4. CASE ~ Beats(req[r].amount, best[req[r].player])
      <3>1. Goto(r, AfterBoard(r)) /\ seen' = seen
        BY <1>12, <2>4 DEF CompareScore
      <3>2. QED
        BY <1>3, <2>1, <2>2, <3>1 DEF RequestsOK, Labels, NeedsSession
    <2>5. QED
      BY <2>3, <2>4
  <1>13. ASSUME NEW r \in Requests, PlaceScore(r) PROVE RequestsOK'
    <2>1. pc[r] = "place" /\ UNCHANGED <<req, version>> /\ seen' = [seen EXCEPT ![r] = NoRow]
      BY <1>13 DEF PlaceScore, At
    <2>2. seen' \in [Requests -> Nat \cup {NoRow}]
      BY <2>1 DEF RequestsOK
    <2>3. CASE (seen[r] = NoRow) # (best[req[r].player] = NoRow)
      BY <1>4, <1>13, <2>1, <2>2, <2>3 DEF PlaceScore, RequestsOK
    <2>4. CASE ~ ((seen[r] = NoRow) # (best[req[r].player] = NoRow))
      <3>1. Outdate(r, "place", req[r].player) /\ Goto(r, "LeaderboardUpdated") /\ stopped' = stopped
        BY <1>13, <2>4 DEF PlaceScore
      <3>2. stale' \subseteq Requests \X {"debit", "create", "place"}
        BY <3>1, OutdateEffect
      <3>3. QED
        BY <1>3, <2>1, <2>2, <3>1, <3>2 DEF RequestsOK, Labels, Appends, NeedsSession
    <2>5. QED
      BY <2>3, <2>4
  <1>14. ASSUME NEW r \in Requests, PayReward(r) PROVE RequestsOK'
    BY <1>3, <1>14 DEF PayReward, At, RequestsOK, Labels, Appends, NeedsSession
  <1>15. ASSUME NEW r \in Requests, Continue(r) PROVE RequestsOK'
    BY <1>5, <1>6, <1>7, <1>8, <1>9, <1>10, <1>11, <1>12, <1>13, <1>14, <1>15 DEF Continue
  <1>16. ASSUME UNCHANGED request, stale' \subseteq Requests \X {"debit", "create", "place"}
         PROVE  RequestsOK'
    BY <1>16 DEF RequestsOK, request, Asked
  <1>17. CASE ProjectBoard
    <2>1. PICK p : Outdate(NoRow, "place", p)
      BY <1>17 DEF ProjectBoard
    <2>2. QED
      BY <1>16, <1>17, <2>1, OutdateEffect DEF ProjectBoard
  <1>18. CASE RebuildWallet \/ RebuildBoard
    BY <1>16, <1>18, OutdateEffect DEF RebuildWallet, RebuildBoard
  <1>19. CASE ProjectWallet \/ UNCHANGED vars
    BY <1>1, <1>19 DEF ProjectWallet, vars
  <1>20. QED
    BY <1>2, <1>7, <1>15, <1>17, <1>18, <1>19 DEF Next

LEMMA BoundsNext ==
    ASSUME BoundsOK, [Next]_vars
    PROVE  BoundsOK'
  <1>1. ASSUME UNCHANGED bounds PROVE BoundsOK'
    BY <1>1 DEF BoundsOK, bounds
  <1>2. ASSUME NEW r \in Requests, Die(r) PROVE BoundsOK'
    BY <1>2 DEF Die, BoundsOK
  <1>3. ASSUME NEW x \in Projectors, Restart(x) PROVE BoundsOK'
    BY <1>3, RestartEffect DEF BoundsOK
  <1>4. CASE RebuildWallet \/ RebuildBoard
    BY <1>3, <1>4 DEF RebuildWallet, RebuildBoard, Projectors
  <1>5. CASE ProjectWallet \/ ProjectBoard \/ UNCHANGED vars
    BY <1>1, <1>5 DEF ProjectWallet, ProjectBoard, Advance, vars, bounds
  <1>6. ASSUME NEW r \in Requests, Call(r) PROVE BoundsOK'
    BY <1>1, <1>6 DEF Call, Deposit, CheckBalance, EndSession
  <1>7. ASSUME NEW r \in Requests, Continue(r) PROVE BoundsOK'
    BY <1>1, <1>7 DEF Continue, ReadVersion, InsertEvent, InsertConflict, Debit, FindSession,
                       ExtendSession, CreateSession, CompareScore, PlaceScore, PayReward
  <1>8. QED
    BY <1>2, <1>4, <1>5, <1>6, <1>7 DEF Next

(***************************************************************************)
(* The course of a request.                                                *)
(***************************************************************************)

\* Which label may follow which.
Follows ==
    { <<"idle", "WalletDeposited">>, <<"WalletDeposited", "ok">>,
      <<"idle", "debit">>, <<"debit", "MinutesPurchased">>, <<"MinutesPurchased", "lookup">>,
      <<"lookup", "extend">>, <<"extend", "ok">>,
      <<"lookup", "create">>, <<"create", "SessionStarted">>, <<"SessionStarted", "ok">>,
      <<"idle", "SessionEnded">>, <<"SessionEnded", "ScoreVerified">>, <<"ScoreVerified", "compare">>,
      <<"compare", "place">>, <<"compare", "reward">>, <<"compare", "ok">>,
      <<"place", "LeaderboardUpdated">>, <<"LeaderboardUpdated", "reward">>,
      <<"LeaderboardUpdated", "ok">>, <<"reward", "RewardDeposited">>, <<"RewardDeposited", "ok">> }

\* What a step may do to a request.
Course(r) ==
    /\ pc'[r] = pc[r] \/ <<pc[r], pc'[r]>> \in Follows
    /\ pc[r] # "idle" => req'[r].player = req[r].player
    /\ pc'[r] = pc[r] => req'[r] = req[r]

LEMMA OneRequestMoves ==
    ASSUME RequestsOK, NEW r \in Requests, Call(r) \/ Continue(r) \/ Die(r)
    PROVE  \A q \in Requests \ {r} : pc'[q] = pc[q] /\ req'[q] = req[q]
  <1>1. ASSUME Call(r) PROVE \A q \in Requests \ {r} : pc'[q] = pc[q] /\ req'[q] = req[q]
    BY <1>1 DEF Call, Deposit, CheckBalance, EndSession, Goto, Ask, RequestsOK
  <1>2. ASSUME Continue(r) PROVE \A q \in Requests \ {r} : pc'[q] = pc[q] /\ req'[q] = req[q]
    BY <1>2 DEF Continue, ReadVersion, InsertEvent, InsertConflict, Debit, FindSession, ExtendSession,
                CreateSession, CompareScore, PlaceScore, PayReward, Goto, Ask, RequestsOK
  <1>3. QED
    BY <1>1, <1>2 DEF Die

LEMMA Courses ==
    ASSUME RequestsOK, [Next]_vars
    PROVE  \A r \in Requests : Course(r)
  <1>1. ASSUME UNCHANGED <<pc, req>>, NEW r \in Requests PROVE Course(r)
    BY <1>1 DEF Course
  <1>2. ASSUME NEW r \in Requests, Call(r) \/ Continue(r) \/ Die(r), Course(r)
        PROVE  \A q \in Requests : Course(q)
    BY <1>2, OneRequestMoves DEF Course
  <1>3. ASSUME NEW r \in Requests, NEW label \in Labels, Goto(r, label), <<pc[r], label>> \in Follows,
               pc[r] = "idle" \/ req' = req \/ \E s, n : Ask(r, req[r].player, s, n)
        PROVE  Course(r)
    <2>1. pc'[r] = label /\ pc[r] \in Labels
      BY <1>3 DEF Goto, RequestsOK
    <2>2. label # pc[r]
      BY <1>3 DEF Follows
    <2>3. pc[r] # "idle" => req'[r].player = req[r].player
      BY <1>3 DEF Ask, RequestsOK
    <2>4. QED
      BY <1>3, <2>1, <2>2, <2>3 DEF Course
  <1>4. ASSUME NEW r \in Requests, Call(r) PROVE Course(r)
    <2>1. pc[r] = "idle" /\ (Goto(r, "WalletDeposited") \/ Goto(r, "debit") \/ Goto(r, "SessionEnded"))
      BY <1>4 DEF Call, Deposit, CheckBalance, EndSession
    <2>2. QED
      BY <1>3, <2>1 DEF Follows, Labels, Appends
  <1>5. ASSUME NEW r \in Requests, InsertEvent(r) PROVE Course(r)
    <2>1. pc[r] \in Appends /\ Goto(r, After(r)) /\ req' = req
      BY <1>5 DEF InsertEvent
    <2>2. After(r) \in Labels
      BY <2>1, AfterType DEF Labels, Appends
    <2>3. <<pc[r], After(r)>> \in Follows
      BY <2>1, AfterType DEF Follows, Appends
    <2>4. QED
      BY <1>3, <2>1, <2>2, <2>3
  <1>6. ASSUME NEW r \in Requests, Debit(r) PROVE Course(r)
    <2>1. pc[r] = "debit" /\ req' = req /\ (Goto(r, "MinutesPurchased") \/ pc' = pc)
      BY <1>6 DEF Debit, At
    <2>2. QED
      BY <1>1, <1>3, <2>1 DEF Follows, Labels, Appends
  <1>7. ASSUME NEW r \in Requests, FindSession(r) PROVE Course(r)
    <2>1. /\ pc[r] = "lookup"
          /\ \/ Goto(r, "create") /\ req' = req
             \/ Goto(r, "extend") /\ \E s, n : Ask(r, req[r].player, s, n)
      BY <1>7 DEF FindSession, At
    <2>2. QED
      BY <1>3, <2>1 DEF Follows, Labels
  <1>8. ASSUME NEW r \in Requests, ExtendSession(r) PROVE Course(r)
    BY <1>3, <1>8 DEF ExtendSession, At, Follows, Labels
  <1>9. ASSUME NEW r \in Requests, NEW s \in Sessions, CreateSession(r, s) PROVE Course(r)
    <2>1. /\ pc[r] = "create" /\ Goto(r, "SessionStarted")
          /\ \E t, n : Ask(r, req[r].player, t, n)
      BY <1>9 DEF CreateSession, At
    <2>2. QED
      BY <1>3, <2>1 DEF Follows, Labels, Appends
  <1>10. ASSUME NEW r \in Requests, CompareScore(r) PROVE Course(r)
    <2>1. pc[r] = "compare" /\ req' = req /\ (Goto(r, "place") \/ Goto(r, "reward") \/ Goto(r, "ok"))
      BY <1>10 DEF CompareScore, At, AfterBoard
    <2>2. QED
      BY <1>3, <2>1 DEF Follows, Labels
  <1>11. ASSUME NEW r \in Requests, PlaceScore(r) PROVE Course(r)
    <2>1. pc[r] = "place" /\ req' = req /\ (Goto(r, "LeaderboardUpdated") \/ pc' = pc)
      BY <1>11 DEF PlaceScore, At
    <2>2. QED
      BY <1>1, <1>3, <2>1 DEF Follows, Labels, Appends
  <1>12. ASSUME NEW r \in Requests, PayReward(r) PROVE Course(r)
    BY <1>3, <1>12 DEF PayReward, At, Follows, Labels, Appends
  <1>13. ASSUME NEW r \in Requests, ReadVersion(r) \/ InsertConflict(r) \/ Die(r) PROVE Course(r)
    BY <1>1, <1>13 DEF ReadVersion, InsertConflict, Die
  <1>14. ASSUME NEW r \in Requests, Continue(r) PROVE Course(r)
    BY <1>5, <1>6, <1>7, <1>8, <1>9, <1>10, <1>11, <1>12, <1>13, <1>14 DEF Continue
  <1>15. CASE ProjectWallet \/ ProjectBoard \/ RebuildWallet \/ RebuildBoard \/ UNCHANGED vars
    BY <1>1, <1>15 DEF ProjectWallet, ProjectBoard, RebuildWallet, RebuildBoard, vars, request
  <1>16. QED
    BY <1>2, <1>4, <1>13, <1>14, <1>15 DEF Next

\* What is on record as stale stays there,
LEMMA StaleGrows ==
    ASSUME RequestsOK, [Next]_vars
    PROVE  stale \subseteq stale'
  <1>1. ASSUME NEW r \in Requests, Call(r) \/ Continue(r) \/ Die(r) PROVE stale \subseteq stale'
    BY <1>1 DEF Call, Deposit, CheckBalance, EndSession, Continue, ReadVersion, InsertEvent, InsertConflict,
                Debit, FindSession, ExtendSession, CreateSession, CompareScore, PlaceScore, PayReward, Die,
                Outdate
  <1>2. CASE ProjectWallet \/ ProjectBoard \/ RebuildWallet \/ RebuildBoard \/ UNCHANGED vars
    BY <1>2 DEF ProjectWallet, ProjectBoard, RebuildWallet, RebuildBoard, vars, Outdate, OutdateAll
  <1>3. QED
    BY <1>1, <1>2 DEF Next

\* and what comes there is a request that stays at its label in that step.
LEMMA NewlyStale ==
    ASSUME RequestsOK, [Next]_vars, NEW r \in Requests, NEW label \in {"debit", "create", "place"},
           <<r, label>> \in stale', <<r, label>> \notin stale
    PROVE  pc[r] = label /\ pc'[r] = label
  <1>1. ASSUME NEW q, NEW l, NEW p, Outdate(q, l, p) PROVE l = label /\ r # q /\ pc[r] = label
    BY <1>1 DEF Outdate
  <1>2. ASSUME NEW l, OutdateAll(l), pc' = pc PROVE pc[r] = label /\ pc'[r] = label
    BY <1>2 DEF OutdateAll
  <1>3. stale' # stale
    OBVIOUS
  <1>4. ASSUME NEW q \in Requests, Call(q) \/ Continue(q) \/ Die(q) PROVE pc[r] = label /\ pc'[r] = label
    <2>1. \E l, p : Outdate(q, l, p)
      BY <1>3, <1>4 DEF Call, Deposit, CheckBalance, EndSession, Continue, ReadVersion, InsertEvent,
                        InsertConflict, Debit, FindSession, ExtendSession, CreateSession, CompareScore,
                        PlaceScore, PayReward, Die
    <2>2. QED
      BY <1>1, <1>4, <2>1, OneRequestMoves
  <1>5. CASE ProjectBoard
    <2>1. pc' = pc /\ \E p : Outdate(NoRow, "place", p)
      BY <1>5 DEF ProjectBoard, request
    <2>2. QED
      BY <1>1, <2>1
  <1>6. CASE RebuildWallet \/ RebuildBoard
    BY <1>2, <1>6 DEF RebuildWallet, RebuildBoard, request
  <1>7. CASE ProjectWallet \/ UNCHANGED vars
    BY <1>3, <1>7 DEF ProjectWallet, vars
  <1>8. QED
    BY <1>4, <1>5, <1>6, <1>7 DEF Next

LEMMA StaleNext ==
    ASSUME RequestsOK, StaleStays, [Next]_vars
    PROVE  StaleStays'
  <1> SUFFICES ASSUME NEW r \in Requests, NEW label \in {"debit", "create", "place"}, <<r, label>> \in stale'
               PROVE  pc'[r] \in {label} \cup Later(label)
    BY DEF StaleStays
  <1>1. CASE <<r, label>> \notin stale
    BY <1>1, NewlyStale
  <1>2. CASE <<r, label>> \in stale
    <2>1. pc[r] \in {label} \cup Later(label)
      BY <1>2 DEF StaleStays
    <2>2. pc'[r] = pc[r] \/ <<pc[r], pc'[r]>> \in Follows
      BY Courses DEF Course
    <2>3. CASE label = "debit"
      BY <2>1, <2>2, <2>3 DEF Later, Follows
    <2>4. CASE label = "create"
      BY <2>1, <2>2, <2>4 DEF Later, Follows
    <2>5. CASE label = "place"
      BY <2>1, <2>2, <2>5 DEF Later, Follows
    <2>6. QED
      BY <2>3, <2>4, <2>5
  <1>3. QED
    BY <1>1, <1>2

LEMMA ActedStays ==
    ASSUME RequestsOK, StaleStays, [Next]_vars, NEW label \in {"debit", "create", "place"},
           NEW p \in Players, ActedOnStale(label, p)
    PROVE  ActedOnStale(label, p)'
  <1>1. PICK r \in Requests : <<r, label>> \in stale /\ pc[r] # label /\ req[r].player = p
    BY DEF ActedOnStale
  <1>2. <<r, label>> \in stale'
    BY <1>1, StaleGrows
  <1>3. pc[r] \in Later(label)
    BY <1>1 DEF StaleStays
  <1>4. Course(r)
    BY Courses
  <1>5. pc[r] # "idle" /\ pc'[r] # label
    <2>1. CASE label = "debit"
      BY <1>3, <1>4, <2>1 DEF Later, Follows, Course
    <2>2. CASE label = "create"
      BY <1>3, <1>4, <2>2 DEF Later, Follows, Course
    <2>3. CASE label = "place"
      BY <1>3, <1>4, <2>3 DEF Later, Follows, Course
    <2>4. QED
      BY <2>1, <2>2, <2>3
  <1>6. QED
    BY <1>1, <1>2, <1>4, <1>5 DEF ActedOnStale, Course

\* The step that brings a request to a label is the one that leads there.
LEMMA ArrivesAt ==
    ASSUME RequestsOK, [Next]_vars, NEW r \in Requests, pc'[r] # pc[r]
    PROVE  /\ Call(r) \/ Continue(r)
           /\ pc'[r] = "debit" => \E p \in Players, m \in Minutes : CheckBalance(r, p, m)
           /\ pc'[r] \in {"extend", "create"} => FindSession(r)
           /\ pc'[r] = "place" => CompareScore(r)
  <1>1. Call(r) \/ Continue(r)
    <2>1. CASE ProjectWallet \/ ProjectBoard \/ RebuildWallet \/ RebuildBoard \/ UNCHANGED vars
      BY <2>1 DEF ProjectWallet, ProjectBoard, RebuildWallet, RebuildBoard, vars, request
    <2>2. ASSUME NEW q \in Requests, Call(q) \/ Continue(q) \/ Die(q) PROVE Call(r) \/ Continue(r)
      <3>1. q = r
        BY <2>2, OneRequestMoves
      <3>2. ~ Die(r)
        BY DEF Die
      <3>3. QED
        BY <2>2, <3>1, <3>2
    <2>3. QED
      BY <2>1, <2>2 DEF Next
  <1>2. CASE Call(r)
    BY <1>2 DEF Call, Deposit, CheckBalance, EndSession, Goto, RequestsOK
  <1>3. CASE Continue(r)
    <2>1. CASE InsertEvent(r)
      <3>1. pc'[r] = After(r) /\ pc[r] \in Appends
        BY <2>1 DEF InsertEvent, Goto, RequestsOK
      <3>2. QED
        BY <1>1, <3>1, AfterType
    <2>2. CASE \/ Debit(r) \/ ExtendSession(r) \/ PlaceScore(r) \/ PayReward(r)
               \/ \E s \in Sessions : CreateSession(r, s)
      BY <1>1, <2>2 DEF Debit, ExtendSession, PlaceScore, PayReward, CreateSession, Goto, RequestsOK
    <2>3. CASE FindSession(r) \/ CompareScore(r)
      BY <1>1, <2>3 DEF FindSession, CompareScore, Goto, RequestsOK, AfterBoard
    <2>4. CASE ReadVersion(r) \/ InsertConflict(r)
      BY <2>4 DEF ReadVersion, InsertConflict
    <2>5. QED
      BY <1>3, <2>1, <2>2, <2>3, <2>4 DEF Continue
  <1>4. QED
    BY <1>1, <1>2, <1>3

\* What a step may do to the sessions.
LEMMA SessionMoves ==
    ASSUME TablesOK, RequestsOK, [Next]_vars
    PROVE  \/ session' = session
           \/ \E r \in Requests, s \in Sessions :
                 /\ CreateSession(r, s) /\ req[r].player \in Players /\ pc[r] = "create"
                 /\ session[s] = NoSession
                 /\ session'[s].status = "active" /\ session'[s].player = req[r].player
                 /\ \A t \in Sessions \ {s} : session'[t] = session[t]
           \/ \E s \in Sessions :
                 /\ session[s] # NoSession
                       \/ \E r \in Requests : pc[r] = "extend" /\ req[r].session = s
                 /\ session'[s].player = session[s].player
                 /\ session'[s].status \in {session[s].status, "ended"}
                 /\ \A t \in Sessions \ {s} : session'[t] = session[t]
  <1>1. ASSUME NEW r \in Requests, NEW s \in Sessions, CreateSession(r, s)
        PROVE  /\ req[r].player \in Players /\ pc[r] = "create" /\ session[s] = NoSession
               /\ session'[s].status = "active" /\ session'[s].player = req[r].player
               /\ \A t \in Sessions \ {s} : session'[t] = session[t]
    <2>1. req[r].player \in Players /\ req[r].amount \in Nat /\ pc[r] = "create" /\ session[s] = NoSession
      BY <1>1, RequestType DEF CreateSession, At
    <2>2. QED
      BY <1>1, <2>1, CreateEffect DEF CreateSession
  <1>2. ASSUME NEW r \in Requests, ExtendSession(r)
        PROVE  \E s \in Sessions :
                 /\ pc[r] = "extend" /\ req[r].session = s
                 /\ session'[s].player = session[s].player
                 /\ session'[s].status = session[s].status
                 /\ \A t \in Sessions \ {s} : session'[t] = session[t]
    <2>1. req[r].session \in Sessions /\ req[r].amount \in Nat /\ pc[r] = "extend"
      BY <1>2, RequestType DEF ExtendSession, At, NeedsSession
    <2>2. QED
      BY <1>2, <2>1, ExtendEffect DEF ExtendSession
  <1>3. ASSUME NEW r \in Requests, NEW s \in Sessions, NEW n \in Scores, EndSession(r, s, n)
        PROVE  /\ session[s] # NoSession /\ session'[s].player = session[s].player
               /\ session'[s].status = "ended"
               /\ \A t \in Sessions \ {s} : session'[t] = session[t]
    BY <1>3, EndEffect DEF EndSession
  <1>4. ASSUME NEW r \in Requests, NEW p \in Players,
               (\E a \in Deposits : Deposit(r, p, a)) \/ (\E m \in Minutes : CheckBalance(r, p, m))
        PROVE  session' = session
    BY <1>4 DEF Deposit, CheckBalance, tables
  <1>5. ASSUME NEW r \in Requests, \/ ReadVersion(r) \/ InsertEvent(r) \/ InsertConflict(r) \/ Debit(r)
                                   \/ FindSession(r) \/ CompareScore(r) \/ PlaceScore(r) \/ PayReward(r)
                                   \/ Die(r)
        PROVE  session' = session
    BY <1>5 DEF ReadVersion, InsertEvent, InsertConflict, Debit, FindSession, CompareScore, PlaceScore,
                PayReward, Die, tables
  <1>6. CASE ProjectWallet \/ ProjectBoard \/ RebuildWallet \/ RebuildBoard \/ UNCHANGED vars
    BY <1>6 DEF ProjectWallet, ProjectBoard, RebuildWallet, RebuildBoard, vars, tables
  <1>7. ASSUME NEW r \in Requests, NEW s \in Sessions, NEW n \in Scores, EndSession(r, s, n)
        PROVE  \E t \in Sessions :
                 /\ session[t] # NoSession
                 /\ session'[t].player = session[t].player
                 /\ session'[t].status = "ended"
                 /\ \A u \in Sessions \ {t} : session'[u] = session[u]
    BY <1>3, <1>7
  <1>8. QED
    BY <1>1, <1>2, <1>4, <1>5, <1>6, <1>7 DEF Next, Call, Continue

LEMMA OwnedNext ==
    ASSUME TablesOK, RequestsOK, Owned, [Next]_vars
    PROVE  Owned'
  <1>1. ASSUME NEW s \in Sessions
        PROVE  /\ session'[s].player \in Players \/ session'[s] = session[s]
               /\ session[s].player \in Players => session'[s].player \in Players
    <2>1. CASE session' = session
      BY <2>1
    <2>2. ASSUME NEW r \in Requests, NEW t \in Sessions, req[r].player \in Players,
                 session'[t].player = req[r].player, \A u \in Sessions \ {t} : session'[u] = session[u]
          PROVE  /\ session'[s].player \in Players \/ session'[s] = session[s]
                 /\ session[s].player \in Players => session'[s].player \in Players
      BY <2>2
    <2>3. ASSUME NEW t \in Sessions,
                 session[t] # NoSession \/ \E r \in Requests : pc[r] = "extend" /\ req[r].session = t,
                 session'[t].player = session[t].player, \A u \in Sessions \ {t} : session'[u] = session[u]
          PROVE  /\ session'[s].player \in Players \/ session'[s] = session[s]
                 /\ session[s].player \in Players => session'[s].player \in Players
      <3>1. session'[t].player \in Players
        BY <2>3 DEF Owned
      <3>2. QED
        BY <2>3, <3>1
    <2>4. QED
      BY <2>1, <2>2, <2>3, SessionMoves
  <1>2. ASSUME NEW s \in Sessions, session'[s] # NoSession PROVE session'[s].player \in Players
    BY <1>1, <1>2 DEF Owned
  <1>3. ASSUME NEW r \in Requests, pc'[r] = "extend" PROVE session'[req'[r].session].player \in Players
    <2>1. CASE pc'[r] = pc[r]
      <3>1. req'[r] = req[r] /\ req[r].session \in Sessions
        BY <1>3, <2>1, Courses, RequestType DEF Course, NeedsSession
      <3>2. session[req[r].session].player \in Players
        BY <1>3, <2>1 DEF Owned
      <3>3. QED
        BY <1>1, <3>1, <3>2
    <2>2. CASE pc'[r] # pc[r]
      <3>1. FindSession(r) /\ session' = session /\ req[r].player \in Players
        BY <1>3, <2>2, ArrivesAt, RequestType DEF FindSession, At, tables
      <3>2. PICK s \in Sessions : s \in Active(req[r].player) /\ Ask(r, req[r].player, s, req[r].amount)
        BY <1>3, <3>1 DEF FindSession, Goto, RequestsOK, Active
      <3>3. req'[r].session = s
        BY <3>2 DEF Ask, RequestsOK
      <3>4. QED
        BY <3>1, <3>2, <3>3 DEF Active
    <2>3. QED
      BY <2>1, <2>2
  <1>4. QED
    BY <1>2, <1>3 DEF Owned

(***************************************************************************)
(* One active session.                                                     *)
(***************************************************************************)

LEMMA SessionInvNext ==
    ASSUME TablesOK, RequestsOK, Owned, StaleStays, SessionInv, [Next]_vars
    PROVE  SessionInv'
  <1> DEFINE after(p) == {s \in Sessions : session'[s].status = "active" /\ session'[s].player = p}
  <1>1. \A p \in Players : ActedOnStale("create", p) => ActedOnStale("create", p)'
    BY ActedStays
  <1>2. stale \subseteq stale'
    BY StaleGrows
  \* A request at "create" was there before, or has just found no session.
  <1>3. ASSUME NEW q \in Requests, pc'[q] = "create"
        PROVE  /\ req'[q] = req[q] /\ req[q].player \in Players
               /\ \/ pc[q] = "create"
                  \/ session' = session /\ Active(req[q].player) = {}
    <2>1. CASE pc'[q] = pc[q]
      <3>1. req'[q] = req[q]
        BY <2>1, Courses DEF Course
      <3>2. QED
        BY <1>3, <2>1, <3>1, RequestType
    <2>2. CASE pc'[q] # pc[q]
      <3>1. FindSession(q)
        BY <1>3, <2>2, ArrivesAt
      <3>2. pc[q] = "lookup" /\ Active(req[q].player) = {} /\ req' = req /\ session' = session
        BY <1>3, <3>1 DEF FindSession, Goto, RequestsOK, tables, At
      <3>3. QED
        BY <3>2, RequestType
    <2>3. QED
      BY <2>1, <2>2
  <1>4. ASSUME NEW q \in Requests, pc'[q] = "create"
        PROVE  \/ session' = session /\ Active(req[q].player) = {}
               \/ pc[q] = "create" /\ (Active(req[q].player) = {} \/ <<q, "create">> \in stale')
    BY <1>2, <1>3, <1>4 DEF SessionInv
  <1>5. ASSUME \A p \in Players : ActedOnStale("create", p)' \/ \A s, t \in after(p) : s = t,
               \A q \in Requests : pc'[q] = "create" =>
                  after(req[q].player) = {} \/ <<q, "create">> \in stale'
        PROVE  SessionInv'
    BY <1>3, <1>5 DEF SessionInv, Active
  <1>6. ASSUME \A p \in Players : after(p) \subseteq Active(p) PROVE SessionInv'
    <2>1. ASSUME NEW p \in Players PROVE ActedOnStale("create", p)' \/ \A s, t \in after(p) : s = t
      BY <1>1, <1>6 DEF SessionInv
    <2>2. ASSUME NEW q \in Requests, pc'[q] = "create"
          PROVE  after(req[q].player) = {} \/ <<q, "create">> \in stale'
      <3> HIDE DEF after
      <3>1. after(req[q].player) \subseteq Active(req[q].player)
        BY <1>3, <1>6, <2>2
      <3>2. QED
        BY <1>4, <2>2, <3>1
    <2> HIDE DEF after
    <2>3. QED
      BY <1>5, <2>1, <2>2
  <1>7. CASE session' = session
    BY <1>6, <1>7 DEF Active
  <1>8. ASSUME NEW s \in Sessions, session'[s].player = session[s].player,
               session'[s].status \in {session[s].status, "ended"},
               \A t \in Sessions \ {s} : session'[t] = session[t]
        PROVE  SessionInv'
    <2>1. ASSUME NEW p \in Players, NEW t \in after(p) PROVE t \in Active(p)
      <3>1. CASE t = s
        BY <1>8, <2>1, <3>1 DEF Active
      <3>2. CASE t # s
        BY <1>8, <2>1, <3>2 DEF Active
      <3>3. QED
        BY <3>1, <3>2
    <2>2. QED
      BY <1>6, <2>1
  <1>9. ASSUME NEW r \in Requests, NEW s \in Sessions, CreateSession(r, s), req[r].player \in Players,
               pc[r] = "create", session'[s].status = "active", session'[s].player = req[r].player,
               session[s] = NoSession, \A t \in Sessions \ {s} : session'[t] = session[t]
        PROVE  SessionInv'
    <2> DEFINE player == req[r].player
    <2>1. Outdate(r, "create", player) /\ pc'[r] = "SessionStarted"
      BY <1>9 DEF CreateSession, Goto, RequestsOK
    <2>2. session' # session
      BY <1>9 DEF NoSession
    <2>3. after(player) = Active(player) \cup {s} /\ \A p \in Players \ {player} : after(p) \subseteq Active(p)
      <3>1. \A p : after(p) \subseteq Active(p) \cup {s}
        BY <1>9 DEF Active
      <3>2. s \in after(player) /\ \A p : p # player => s \notin after(p)
        BY <1>9
      <3>3. Active(player) \subseteq after(player)
        <4>1. ASSUME NEW t \in Active(player) PROVE t \in after(player)
          <5>1. CASE t = s
            BY <3>2, <5>1
          <5>2. CASE t # s
            BY <1>9, <5>2 DEF Active
          <5>3. QED
            BY <5>1, <5>2
        <4>2. QED
          BY <4>1
      <3> HIDE DEF after
      <3>4. QED
        BY <3>1, <3>2, <3>3
    <2>4. ASSUME NEW p \in Players PROVE ActedOnStale("create", p)' \/ \A t, u \in after(p) : t = u
      <3>1. CASE p # player
        <4>1. after(p) \subseteq Active(p)
          BY <2>3, <3>1
        <4> HIDE DEF after
        <4>2. QED
          BY <1>1, <4>1 DEF SessionInv
      <3>2. CASE p = player /\ <<r, "create">> \in stale
        <4>1. <<r, "create">> \in stale' /\ req'[r].player = player
          BY <1>2, <1>9, <3>2, Courses DEF Course
        <4>2. QED
          BY <2>1, <3>2, <4>1 DEF ActedOnStale
      <3>3. CASE p = player /\ Active(player) = {}
        <4> HIDE DEF after
        <4>1. QED
          BY <2>3, <3>3
      <3>4. QED
        BY <1>9, <3>1, <3>2, <3>3 DEF SessionInv
    <2>5. ASSUME NEW q \in Requests, pc'[q] = "create"
          PROVE  after(req[q].player) = {} \/ <<q, "create">> \in stale'
      <3>1. q # r
        BY <2>1, <2>5
      <3>2. pc[q] = "create" /\ req[q].player \in Players
        BY <1>3, <2>2, <2>5
      <3>3. CASE req[q].player = player
        BY <2>1, <3>1, <3>2, <3>3 DEF Outdate
      <3>4. CASE req[q].player # player
        <4>1. after(req[q].player) \subseteq Active(req[q].player)
          BY <2>3, <3>2, <3>4
        <4> HIDE DEF after
        <4>2. QED
          BY <1>4, <2>2, <2>5, <4>1
      <3>5. QED
        BY <3>3, <3>4
    <2> HIDE DEF after
    <2>6. QED
      BY <1>5, <2>4, <2>5
  <1> HIDE DEF after
  <1>10. QED
    BY <1>7, <1>8, <1>9, SessionMoves

(***************************************************************************)
(* No overdraft.                                                           *)
(***************************************************************************)

\* What a step may do to a wallet.
Credited(p) ==
    /\ wallet'[p] \in Int
    /\ IF wallet[p] = NoRow THEN wallet'[p] >= 0 ELSE wallet'[p] >= wallet[p]

Debited(p) == \E r \in Requests :
    /\ pc[r] = "debit" /\ req[r].player = p /\ wallet[p] # NoRow
    /\ wallet'[p] = wallet[p] - Cost(req[r].amount)
    /\ pc'[r] # "debit" /\ req'[r].player = p /\ Outdate(r, "debit", p)

LEMMA WalletMoves ==
    ASSUME TablesOK, LogOK, RequestsOK, [Next]_vars, NEW p \in Players
    PROVE  \/ wallet'[p] = wallet[p]
           \/ Credited(p) \/ Debited(p)
           \/ wallet'[p] = NoRow /\ OutdateAll("debit") /\ pc' = pc
  <1>1. ASSUME NEW q \in Players, NEW a \in Nat, Credit(q, a)
        PROVE  wallet'[p] = wallet[p] \/ Credited(p)
    <2>1. CASE p = q
      <3>1. wallet'[p] = (IF wallet[p] = NoRow THEN a ELSE wallet[p] + a) /\ wallet'[p] \in Int
        BY <1>1, <2>1, CreditEffect
      <3>2. wallet[p] = NoRow \/ wallet[p] \in Int
        BY DEF TablesOK
      <3>3. QED
        BY <3>1, <3>2 DEF Credited
    <2>2. CASE p # q
      BY <1>1, <2>2, CreditEffect
    <2>3. QED
      BY <2>1, <2>2
  <1>2. ASSUME NEW r \in Requests, Debit(r) PROVE wallet'[p] = wallet[p] \/ Debited(p)
    <2>1. pc[r] = "debit" /\ req[r].player \in Players /\ req' = req
      BY <1>2, RequestType DEF Debit, At
    <2>2. CASE wallet[req[r].player] = NoRow \/ req[r].player # p
      BY <1>2, <2>2 DEF Debit, TablesOK
    <2>3. CASE wallet[req[r].player] # NoRow /\ req[r].player = p
      <3>1. /\ wallet' = [wallet EXCEPT ![p] = @ - Cost(req[r].amount)]
            /\ Outdate(r, "debit", p) /\ Goto(r, "MinutesPurchased")
        BY <1>2, <2>3 DEF Debit
      <3>2. wallet'[p] = wallet[p] - Cost(req[r].amount) /\ pc'[r] = "MinutesPurchased"
        BY <3>1 DEF TablesOK, RequestsOK, Goto
      <3>3. QED
        BY <2>1, <2>3, <3>1, <3>2 DEF Debited
    <2>4. QED
      BY <2>2, <2>3
  <1>3. ASSUME NEW r \in Requests, PayReward(r) PROVE wallet'[p] = wallet[p] \/ Credited(p)
    <2>1. req[r].player \in Players /\ req[r].amount \in Nat
      BY <1>3, RequestType DEF PayReward, At
    <2>2. Reward(req[r].amount) \in Nat
      BY <2>1, RewardType
    <2>3. QED
      BY <1>1, <1>3, <2>1, <2>2 DEF PayReward
  <1>4. ASSUME NEW r \in Requests, NEW q \in Players, NEW a \in Deposits, Deposit(r, q, a)
        PROVE  wallet'[p] = wallet[p] \/ Credited(p)
    BY <1>1, <1>4, Amounts DEF Deposit
  <1>5. CASE ProjectWallet
    BY <1>1, <1>5, EventType DEF ProjectWallet, Ahead
  <1>6. CASE RebuildWallet
    BY <1>6 DEF RebuildWallet, request
  <1>7. ASSUME NEW r \in Requests, NEW q \in Players, \E m \in Minutes : CheckBalance(r, q, m)
        PROVE  wallet' = wallet
    BY <1>7 DEF CheckBalance, tables
  <1>8. ASSUME NEW r \in Requests, \E s \in Sessions, n \in Scores : EndSession(r, s, n)
        PROVE  wallet' = wallet
    BY <1>8 DEF EndSession
  <1>9. ASSUME NEW r \in Requests, \/ ReadVersion(r) \/ InsertEvent(r) \/ InsertConflict(r) \/ FindSession(r)
                                   \/ ExtendSession(r) \/ CompareScore(r) \/ PlaceScore(r) \/ Die(r)
                                   \/ \E s \in Sessions : CreateSession(r, s)
        PROVE  wallet' = wallet
    BY <1>9 DEF ReadVersion, InsertEvent, InsertConflict, FindSession, ExtendSession, CompareScore,
                PlaceScore, CreateSession, Die, tables
  <1>10. CASE ProjectBoard \/ RebuildBoard \/ UNCHANGED vars
    BY <1>10 DEF ProjectBoard, RebuildBoard, vars, tables
  <1>11. QED
    BY <1>2, <1>3, <1>4, <1>5, <1>6, <1>7, <1>8, <1>9, <1>10 DEF Next, Call, Continue

LEMMA DebitInvNext ==
    ASSUME TablesOK, LogOK, RequestsOK, StaleStays, DebitInv, [Next]_vars
    PROVE  DebitInv'
  <1>1. \A p \in Players : ActedOnStale("debit", p) => ActedOnStale("debit", p)'
    BY ActedStays
  <1>2. stale \subseteq stale'
    BY StaleGrows
  <1>3. ASSUME NEW p \in Players, wallet'[p] # NoRow
        PROVE  wallet'[p] >= 0 \/ ActedOnStale("debit", p)'
    <2>1. /\ wallet[p] = NoRow \/ wallet[p] \in Int
          /\ wallet[p] # NoRow => wallet[p] >= 0 \/ ActedOnStale("debit", p)
      BY DEF TablesOK, DebitInv, NoOverdraft
    <2>2. CASE wallet'[p] = wallet[p]
      BY <1>1, <1>3, <2>1, <2>2
    <2>3. CASE Credited(p)
      BY <1>1, <2>1, <2>3 DEF Credited
    <2>4. CASE Debited(p)
      <3>1. PICK r \in Requests :
               /\ pc[r] = "debit" /\ req[r].player = p /\ wallet[p] # NoRow
               /\ wallet'[p] = wallet[p] - Cost(req[r].amount)
               /\ pc'[r] # "debit" /\ req'[r].player = p
        BY <2>4 DEF Debited
      <3>2. CASE <<r, "debit">> \in stale
        BY <1>2, <3>1, <3>2 DEF ActedOnStale
      <3>3. CASE CanPay(p, req[r].amount)
        <4>1. Cost(req[r].amount) \in Nat /\ wallet[p] \in Int /\ wallet[p] >= Cost(req[r].amount)
          BY <2>1, <3>1, <3>3, CostType, RequestType DEF CanPay
        <4>2. QED
          BY <3>1, <4>1
      <3>4. QED
        BY <3>1, <3>2, <3>3 DEF DebitInv
    <2>5. QED
      BY <1>3, <2>2, <2>3, <2>4, WalletMoves
  <1>4. ASSUME NEW q \in Requests, pc'[q] = "debit"
        PROVE  \/ wallet'[req'[q].player] # NoRow /\ wallet'[req'[q].player] >= Cost(req'[q].amount)
               \/ <<q, "debit">> \in stale'
    <2>1. CASE pc'[q] # pc[q]
      <3>1. PICK p \in Players, m \in Minutes : CheckBalance(q, p, m)
        BY <1>4, <2>1, ArrivesAt
      <3>2. req'[q].player = p /\ req'[q].amount = m /\ wallet' = wallet
        BY <3>1 DEF CheckBalance, Ask, RequestsOK, tables
      <3>3. QED
        BY <3>1, <3>2 DEF CheckBalance, CanPay
    <2>2. CASE pc'[q] = pc[q]
      <3> DEFINE p == req[q].player
                 c == Cost(req[q].amount)
      <3>1. req'[q] = req[q] /\ pc[q] = "debit" /\ p \in Players /\ c \in Nat
        BY <1>4, <2>2, Courses, RequestType, CostType DEF Course
      <3>2. CASE <<q, "debit">> \in stale
        BY <1>2, <3>2
      <3>3. CASE wallet[p] # NoRow /\ wallet[p] >= c
        <4>1. wallet[p] \in Int
          BY <3>1, <3>3 DEF TablesOK
        <4>2. CASE wallet'[p] = wallet[p]
          BY <3>1, <3>3, <4>2
        <4>3. CASE Credited(p)
          <5> HIDE DEF c
          <5>1. wallet'[p] \in Int /\ wallet'[p] >= wallet[p]
            BY <3>3, <4>3 DEF Credited
          <5>2. wallet'[p] # NoRow /\ wallet'[p] >= c
            BY <3>1, <3>3, <4>1, <5>1
          <5>3. QED
            BY <3>1, <5>2 DEF c
        <4>4. CASE Debited(p)
          <5>1. PICK r \in Requests : pc'[r] # "debit" /\ Outdate(r, "debit", p)
            BY <4>4 DEF Debited
          <5>2. q # r
            BY <1>4, <5>1
          <5>3. QED
            BY <3>1, <5>1, <5>2 DEF Outdate
        <4>5. CASE OutdateAll("debit")
          BY <3>1, <4>5 DEF OutdateAll
        <4>6. QED
          BY <3>1, <4>2, <4>3, <4>4, <4>5, WalletMoves
      <3>4. QED
        BY <3>1, <3>2, <3>3 DEF DebitInv, CanPay
    <2>3. QED
      BY <2>1, <2>2
  <1>5. QED
    BY <1>3, <1>4 DEF DebitInv, NoOverdraft, CanPay, Cost

(***************************************************************************)
(* The leaderboard.                                                        *)
(***************************************************************************)

\* What a step may do to a player's place.
Placed(p) == \E r \in Requests :
    /\ pc[r] = "place" /\ req[r].player = p /\ ((seen[r] = NoRow) <=> (best[p] = NoRow))
    /\ best'[p] = req[r].amount /\ pc'[r] # "place" /\ Outdate(r, "place", p)

LEMMA PlaceMoves ==
    ASSUME TablesOK, LogOK, RequestsOK, BoundsOK, [Next]_vars, NEW p \in Players
    PROVE  \/ best'[p] = best[p]
           \/ Placed(p)
           \/ Outdate(NoRow, "place", p) /\ pc' = pc /\ position' # position
           \/ OutdateAll("place") /\ pc' = pc /\ rebuilds' # rebuilds
  <1>1. ASSUME NEW r \in Requests, PlaceScore(r) PROVE best'[p] = best[p] \/ Placed(p)
    <2>1. pc[r] = "place" /\ req[r].player \in Players
      BY <1>1, RequestType DEF PlaceScore, At
    <2>2. CASE (seen[r] = NoRow) # (best[req[r].player] = NoRow)
      BY <1>1, <2>2 DEF PlaceScore
    <2>3. CASE ~ ((seen[r] = NoRow) # (best[req[r].player] = NoRow))
      <3>1. /\ best' = [best EXCEPT ![req[r].player] = req[r].amount]
            /\ Outdate(r, "place", req[r].player) /\ pc'[r] = "LeaderboardUpdated"
        BY <1>1, <2>3 DEF PlaceScore, Goto, RequestsOK
      <3>2. QED
        BY <2>1, <2>3, <3>1 DEF Placed, TablesOK
    <2>4. QED
      BY <2>2, <2>3
  <1>2. CASE ProjectBoard
    <2>1. PICK i \in DOMAIN log :
             /\ i > position["board"] /\ position' = [position EXCEPT !["board"] = i]
             /\ best' = [best EXCEPT ![log[i].player] = log[i].amount]
             /\ Outdate(NoRow, "place", log[i].player) /\ pc' = pc
      BY <1>2 DEF ProjectBoard, Ahead, Advance, request
    <2>2. position' # position
      <3>1. position'["board"] = i /\ i \in Nat /\ position["board"] \in Nat
        BY <2>1, EventType DEF LogOK, Projectors
      <3>2. QED
        BY <2>1, <3>1
    <2>3. CASE log[i].player = p
      BY <2>1, <2>2, <2>3
    <2>4. CASE log[i].player # p
      BY <2>1, <2>4 DEF TablesOK
    <2>5. QED
      BY <2>3, <2>4
  <1>3. ASSUME RebuildBoard
        PROVE  OutdateAll("place") /\ pc' = pc /\ rebuilds' # rebuilds
    <2>1. rebuilds' = [rebuilds EXCEPT !["board"] = @ + 1]
      BY <1>3, RestartEffect DEF RebuildBoard, Projectors
    <2>2. rebuilds'["board"] = rebuilds["board"] + 1 /\ rebuilds["board"] \in Nat
      BY <1>3, <2>1 DEF BoundsOK, Projectors
    <2>3. QED
      BY <1>3, <2>2 DEF RebuildBoard, request
  <1>4. ASSUME NEW r \in Requests, Call(r) PROVE best' = best
    BY <1>4 DEF Call, Deposit, CheckBalance, EndSession, tables
  <1>5. ASSUME NEW r \in Requests, \/ ReadVersion(r) \/ InsertEvent(r) \/ InsertConflict(r) \/ Debit(r)
                                   \/ FindSession(r) \/ ExtendSession(r) \/ CompareScore(r)
                                   \/ PayReward(r) \/ Die(r) \/ \E s \in Sessions : CreateSession(r, s)
        PROVE  best' = best
    BY <1>5 DEF ReadVersion, InsertEvent, InsertConflict, Debit, FindSession, ExtendSession, CompareScore,
                PayReward, CreateSession, Die, tables
  <1>6. CASE ProjectWallet \/ RebuildWallet \/ UNCHANGED vars
    BY <1>6 DEF ProjectWallet, RebuildWallet, vars, tables
  <1>7. QED
    BY <1>1, <1>2, <1>3, <1>4, <1>5, <1>6 DEF Next, Continue

\* A request that is at "place" keeps what it has compared with, unless it throws there.
LEMMA SeenStays ==
    ASSUME RequestsOK, [Next]_vars, NEW q \in Requests, pc[q] = "place", pc'[q] = "place"
    PROVE  seen'[q] = seen[q] \/ ((seen[q] = NoRow) # (best[req[q].player] = NoRow))
  <1>1. ASSUME NEW r \in Requests, CompareScore(r) PROVE seen'[q] = seen[q]
    <2>1. r # q /\ (seen' = seen \/ seen' = [seen EXCEPT ![r] = best[req[r].player]])
      BY <1>1 DEF CompareScore, At
    <2>2. QED
      BY <2>1 DEF RequestsOK
  <1>2. ASSUME NEW r \in Requests, PlaceScore(r)
        PROVE  seen'[q] = seen[q] \/ ((seen[q] = NoRow) # (best[req[q].player] = NoRow))
    <2>1. seen' = [seen EXCEPT ![r] = NoRow]
      BY <1>2 DEF PlaceScore
    <2>2. CASE r # q
      BY <2>1, <2>2 DEF RequestsOK
    <2>3. CASE r = q
      BY <1>2, <2>3 DEF PlaceScore, Goto, RequestsOK
    <2>4. QED
      BY <2>2, <2>3
  <1>3. ASSUME NEW r \in Requests, \/ ReadVersion(r) \/ InsertEvent(r) \/ InsertConflict(r) \/ Debit(r)
                                   \/ FindSession(r) \/ ExtendSession(r) \/ PayReward(r) \/ Die(r)
                                   \/ \E s \in Sessions : CreateSession(r, s)
        PROVE  seen' = seen
    BY <1>3 DEF ReadVersion, InsertEvent, InsertConflict, Debit, FindSession, ExtendSession,
                PayReward, CreateSession, Die
  <1>4. ASSUME NEW r \in Requests, Call(r) PROVE seen' = seen
    BY <1>4 DEF Call, Deposit, CheckBalance, EndSession
  <1>5. CASE ProjectWallet \/ ProjectBoard \/ RebuildWallet \/ RebuildBoard \/ UNCHANGED vars
    BY <1>5 DEF ProjectWallet, ProjectBoard, RebuildWallet, RebuildBoard, vars, request
  <1>6. QED
    BY <1>1, <1>2, <1>3, <1>4, <1>5 DEF Next, Continue

LEMMA PlaceInvNext ==
    ASSUME TablesOK, LogOK, RequestsOK, BoundsOK, PlaceInv, [Next]_vars
    PROVE  PlaceInv'
  <1>1. stale \subseteq stale'
    BY StaleGrows
  <1> SUFFICES ASSUME NEW q \in Requests, pc'[q] = "place"
               PROVE  \/ best'[req'[q].player] = seen'[q] /\ Beats(req'[q].amount, seen'[q])
                      \/ <<q, "place">> \in stale'
    BY DEF PlaceInv, Beats
  <1>2. CASE pc'[q] # pc[q]
    <2>1. CompareScore(q)
      BY <1>2, ArrivesAt
    <2>2. CASE Beats(req[q].amount, best[req[q].player])
      BY <2>1, <2>2 DEF CompareScore, RequestsOK, tables
    <2>3. CASE ~ Beats(req[q].amount, best[req[q].player])
      BY <2>1, <2>3 DEF CompareScore, RequestsOK, Goto, AfterBoard
    <2>4. QED
      BY <2>2, <2>3
  <1>3. CASE pc'[q] = pc[q]
    <2> DEFINE p == req[q].player
    <2>1. req'[q] = req[q] /\ pc[q] = "place" /\ p \in Players
      BY <1>3, Courses, RequestType DEF Course
    <2>2. CASE <<q, "place">> \in stale
      BY <1>1, <2>2
    <2>3. CASE best[p] = seen[q] /\ Beats(req[q].amount, seen[q])
      <3>1. seen'[q] = seen[q]
        BY <2>1, <2>3, SeenStays
      <3>2. CASE best'[p] = best[p]
        BY <2>1, <2>3, <3>1, <3>2
      <3>3. CASE Placed(p)
        <4>1. PICK r \in Requests : pc'[r] # "place" /\ Outdate(r, "place", p)
          BY <3>3 DEF Placed
        <4>2. QED
          BY <2>1, <4>1 DEF Outdate
      <3>4. CASE Outdate(NoRow, "place", p)
        BY <2>1, <3>4, NoRowApart DEF Outdate
      <3>5. CASE OutdateAll("place")
        BY <2>1, <3>5 DEF OutdateAll
      <3>6. QED
        BY <2>1, <3>2, <3>3, <3>4, <3>5, PlaceMoves
    <2>4. QED
      BY <2>1, <2>2, <2>3 DEF PlaceInv
  <1>4. QED
    BY <1>2, <1>3

(***************************************************************************)
(* Sums.  SumFunctionOnSet is defined by a recursive function on the       *)
(* subsets, which takes an element that it chooses first.  That any        *)
(* element might go first is shown by a smallest counterexample.           *)
(***************************************************************************)

LEMMA SmallestOne ==
    ASSUME NEW S, IsFiniteSet(S), NEW Bad \in SUBSET SUBSET S, Bad # {}
    PROVE  \E T \in Bad : \A U \in Bad : U \subseteq T => U = T
  <1> DEFINE N == {Cardinality(T) : T \in Bad}
             R == OpToRel(<, Nat)
  <1>1. \A T \in Bad : IsFiniteSet(T) /\ Cardinality(T) \in Nat
    BY FS_Subset, FS_CardinalityType
  <1>2. N \subseteq Nat /\ N # {}
    BY <1>1
  <1>3. IsWellFoundedOn(R, Nat)
    BY NatLessThanWellFounded
  <1> HIDE DEF N, R
  <1>4. PICK n \in N : \A k \in N : ~ (<<k, n>> \in R)
    BY <1>2, <1>3, WFMin
  <1>5. \A k \in N : ~ (k < n)
    BY <1>2, <1>4 DEF OpToRel, R
  <1>6. PICK T \in Bad : Cardinality(T) = n
    BY DEF N
  <1>7. ASSUME NEW U \in Bad, U \subseteq T PROVE U = T
    <2>1. Cardinality(U) \in N
      BY DEF N
    <2>2. Cardinality(U) <= Cardinality(T) /\ (Cardinality(T) = Cardinality(U) => T = U)
      BY <1>1, <1>7, FS_Subset
    <2>3. Cardinality(U) \in Nat /\ Cardinality(T) \in Nat /\ ~ (Cardinality(U) < Cardinality(T))
      BY <1>1, <1>5, <1>6, <2>1
    <2>4. Cardinality(T) = Cardinality(U)
      BY <2>2, <2>3
    <2>5. QED
      BY <2>2, <2>4
  <1>8. QED
    BY <1>7

\* What a sum over the subsets of S does, whichever element goes first.
IsSum(g, f, S) ==
    /\ g \in [SUBSET S -> Int] /\ g[{}] = 0
    /\ \A s \in SUBSET S : \A x \in s : g[s] = f[x] + g[s \ {x}]

\* What the definition of SumFunctionOnSet says.
Recurs(g, f, S) ==
    g = [s \in SUBSET S |-> IF s = {} THEN 0
                            ELSE f[CHOOSE x \in s : TRUE] + g[s \ {CHOOSE x \in s : TRUE}]]

LEMMA SumExists ==
    ASSUME NEW S, IsFiniteSet(S), NEW f, \A x \in S : f[x] \in Int
    PROVE  \E g : IsSum(g, f, S)
  <1> DEFINE Bad == {T \in SUBSET S : ~ \E g : IsSum(g, f, T)}
  <1> SUFFICES ASSUME Bad # {} PROVE FALSE
    OBVIOUS
  <1>1. PICK T \in Bad : \A U \in Bad : U \subseteq T => U = T
    <2>1. Bad \in SUBSET SUBSET S
      OBVIOUS
    <2> HIDE DEF Bad
    <2>2. QED
      BY <2>1, SmallestOne
  <1>2. CASE T = {}
    <2> DEFINE g == [s \in SUBSET T |-> 0]
    <2>1. IsSum(g, f, T)
      BY <1>2 DEF IsSum
    <2>2. QED
      BY <2>1
  <1>3. CASE T # {}
    <2>1. PICK x \in T : TRUE
      BY <1>3
    <2>2. T \ {x} \notin Bad /\ T \ {x} \in SUBSET S
      BY <1>1, <2>1
    <2>3. PICK h : IsSum(h, f, T \ {x})
      BY <2>2
    <2>4. /\ h \in [SUBSET (T \ {x}) -> Int] /\ h[{}] = 0
          /\ \A s \in SUBSET (T \ {x}) : \A y \in s : h[s] = f[y] + h[s \ {y}]
      BY <2>3 DEF IsSum
    <2>5. f[x] \in Int /\ \A y \in T : f[y] \in Int
      OBVIOUS
    <2> DEFINE g == [s \in SUBSET T |-> IF x \in s THEN f[x] + h[s \ {x}] ELSE h[s]]
    <2>6. ASSUME NEW s \in SUBSET T
          PROVE  /\ x \in s => g[s] = f[x] + h[s \ {x}] /\ s \ {x} \in SUBSET (T \ {x})
                 /\ x \notin s => g[s] = h[s] /\ s \in SUBSET (T \ {x})
      OBVIOUS
    <2>7. g \in [SUBSET T -> Int]
      BY <2>4, <2>5
    <2>8. g[{}] = 0
      BY <2>4
    <2> HIDE DEF g
    <2>9. ASSUME NEW s \in SUBSET T, NEW y \in s PROVE g[s] = f[y] + g[s \ {y}]
      <3>1. s \ {y} \in SUBSET T /\ y \in T
        OBVIOUS
      <3>2. CASE x \in s /\ x = y
        BY <2>6, <3>1, <3>2
      <3>3. CASE x \in s /\ x # y
        <4>1. (s \ {y}) \ {x} = (s \ {x}) \ {y} /\ x \in s \ {y}
          BY <3>3
        <4>2. g[s] = f[x] + h[s \ {x}] /\ g[s \ {y}] = f[x] + h[(s \ {y}) \ {x}]
          BY <2>6, <3>1, <3>3, <4>1
        <4>3. s \ {x} \in SUBSET (T \ {x}) /\ y \in s \ {x} /\ (s \ {x}) \ {y} \in SUBSET (T \ {x})
          BY <3>3
        <4>4. h[s \ {x}] = f[y] + h[(s \ {x}) \ {y}] /\ h[(s \ {x}) \ {y}] \in Int
          BY <2>4, <4>3
        <4>5. PICK k \in Int : k = h[(s \ {x}) \ {y}]
          BY <4>4
        <4>6. g[s] = f[x] + (f[y] + k) /\ g[s \ {y}] = f[x] + k
          BY <4>1, <4>2, <4>4, <4>5
        <4>7. QED
          BY <2>5, <3>1, <4>6
      <3>4. CASE x \notin s
        <4>1. g[s] = h[s] /\ g[s \ {y}] = h[s \ {y}] /\ s \in SUBSET (T \ {x})
          BY <2>6, <3>1, <3>4
        <4>2. QED
          BY <2>4, <4>1
      <3>5. QED
        BY <3>2, <3>3, <3>4
    <2>10. IsSum(g, f, T)
      BY <2>7, <2>8, <2>9 DEF IsSum
    <2>11. QED
      BY <2>10
  <1>4. QED
    BY <1>2, <1>3

LEMMA SumRecurs ==
    ASSUME NEW S, NEW f, NEW g, IsSum(g, f, S)
    PROVE  Recurs(g, f, S)
  <1> DEFINE pick(s) == CHOOSE x \in s : TRUE
  <1>1. ASSUME NEW s \in SUBSET S
        PROVE  g[s] = IF s = {} THEN 0 ELSE f[pick(s)] + g[s \ {pick(s)}]
    <2>1. s # {} => pick(s) \in s
      OBVIOUS
    <2> HIDE DEF pick
    <2>2. QED
      BY <2>1 DEF IsSum
  <1>2. g = [s \in SUBSET S |-> g[s]]
    BY DEF IsSum
  <1> HIDE DEF pick
  <1>3. g = [s \in SUBSET S |-> IF s = {} THEN 0 ELSE f[pick(s)] + g[s \ {pick(s)}]]
    BY <1>1, <1>2
  <1>4. QED
    BY <1>3 DEF Recurs, pick

LEMMA RecursOnce ==
    ASSUME NEW S, IsFiniteSet(S), NEW f, NEW g, NEW h, Recurs(g, f, S), Recurs(h, f, S)
    PROVE  g = h
  <1> DEFINE Bad == {s \in SUBSET S : g[s] # h[s]}
             pick(s) == CHOOSE x \in s : TRUE
  <1>1. /\ g = [s \in SUBSET S |-> g[s]]
        /\ \A s \in SUBSET S : g[s] = IF s = {} THEN 0 ELSE f[pick(s)] + g[s \ {pick(s)}]
    BY DEF Recurs
  <1>2. /\ h = [s \in SUBSET S |-> h[s]]
        /\ \A s \in SUBSET S : h[s] = IF s = {} THEN 0 ELSE f[pick(s)] + h[s \ {pick(s)}]
    BY DEF Recurs
  <1>3. \A s : s # {} => pick(s) \in s
    OBVIOUS
  <1> HIDE DEF pick
  <1>4. Bad = {}
    <2> SUFFICES ASSUME Bad # {} PROVE FALSE
      OBVIOUS
    <2>1. PICK s \in Bad : \A U \in Bad : U \subseteq s => U = s
      <3>1. Bad \in SUBSET SUBSET S
        OBVIOUS
      <3> HIDE DEF Bad
      <3>2. QED
        BY <3>1, SmallestOne
    <2>2. s # {}
      BY <1>1, <1>2, <2>1
    <2>3. s \ {pick(s)} \notin Bad /\ s \ {pick(s)} \in SUBSET S
      BY <1>3, <2>1, <2>2
    <2>4. g[s \ {pick(s)}] = h[s \ {pick(s)}]
      BY <2>3
    <2>5. g[s] = h[s]
      BY <1>1, <1>2, <2>2, <2>4
    <2>6. QED
      BY <2>1, <2>5
  <1>5. \A s \in SUBSET S : g[s] = h[s]
    BY <1>4
  <1>6. [s \in SUBSET S |-> g[s]] = [s \in SUBSET S |-> h[s]]
    BY <1>5
  <1>7. QED
    BY <1>1, <1>2, <1>6

LEMMA SumIs ==
    ASSUME NEW S, IsFiniteSet(S), NEW f, NEW g, IsSum(g, f, S)
    PROVE  SumFunctionOnSet(f, S) = g[S] /\ g[S] \in Int
  <1>1. SumFunctionOnSet(f, S) = (CHOOSE h : Recurs(h, f, S))[S]
    BY DEF SumFunctionOnSet, FoldFunctionOnSet, MapThenFoldSet, Recurs
  <1>2. Recurs(g, f, S)
    BY SumRecurs
  <1>3. PICK h : h = CHOOSE i : Recurs(i, f, S)
    OBVIOUS
  <1>4. Recurs(h, f, S)
    BY <1>2, <1>3, Zenon
  <1>5. h = g
    BY <1>2, <1>4, RecursOnce
  <1>6. QED
    BY <1>1, <1>3, <1>5 DEF IsSum

LEMMA SumEmpty == \A f : SumFunctionOnSet(f, {}) = 0
  <1> TAKE f
  <1>1. IsFiniteSet({})
    BY FS_EmptySet
  <1>2. PICK g : IsSum(g, f, {})
    BY <1>1, SumExists
  <1>3. QED
    BY <1>1, <1>2, SumIs DEF IsSum

\* One more to add.
LEMMA SumAdd ==
    ASSUME NEW S, IsFiniteSet(S), NEW f, NEW x, x \notin S, \A y \in S \cup {x} : f[y] \in Int
    PROVE  /\ SumFunctionOnSet(f, S) \in Int
           /\ SumFunctionOnSet(f, S \cup {x}) = SumFunctionOnSet(f, S) + f[x]
  <1> DEFINE T == S \cup {x}
  <1>1. IsFiniteSet(T)
    BY FS_AddElement
  <1>2. PICK g : IsSum(g, f, T)
    BY <1>1, SumExists
  <1> DEFINE h == [s \in SUBSET S |-> g[s]]
  <1>3. IsSum(h, f, S)
    <2>1. SUBSET S \subseteq SUBSET T /\ {} \in SUBSET S
      OBVIOUS
    <2>2. h \in [SUBSET S -> Int] /\ h[{}] = 0
      BY <1>2, <2>1 DEF IsSum
    <2>3. ASSUME NEW s \in SUBSET S, NEW y \in s PROVE h[s] = f[y] + h[s \ {y}]
      <3>1. s \in SUBSET T /\ s \ {y} \in SUBSET S
        BY <2>1
      <3>2. g[s] = f[y] + g[s \ {y}]
        BY <1>2, <3>1 DEF IsSum
      <3>3. QED
        BY <3>1, <3>2
    <2>4. QED
      BY <2>2, <2>3 DEF IsSum
  <1>4. h[S] = g[S]
    OBVIOUS
  <1>5. g[T] = f[x] + g[T \ {x}] /\ T \ {x} = S
    BY <1>2 DEF IsSum
  <1> HIDE DEF h, T
  <1>6. SumFunctionOnSet(f, S) = g[S] /\ g[S] \in Int
    BY <1>3, <1>4, SumIs
  <1>7. SumFunctionOnSet(f, T) = g[T]
    BY <1>1, <1>2, SumIs
  <1>8. f[x] \in Int
    OBVIOUS
  <1>9. SumFunctionOnSet(f, T) = f[x] + g[S]
    BY <1>5, <1>7
  <1>10. SumFunctionOnSet(f, T) = SumFunctionOnSet(f, S) + f[x]
    BY <1>6, <1>8, <1>9
  <1>11. QED
    BY <1>6, <1>10 DEF T

\* The values outside do not matter.
LEMMA SumSame ==
    ASSUME NEW S, IsFiniteSet(S), NEW f, NEW g, \A x \in S : f[x] \in Int /\ g[x] = f[x]
    PROVE  SumFunctionOnSet(g, S) = SumFunctionOnSet(f, S)
  <1>1. PICK h : IsSum(h, f, S)
    BY SumExists
  <1>2. IsSum(h, g, S)
    BY <1>1 DEF IsSum
  <1>3. QED
    BY <1>1, <1>2, SumIs

\* What an element adds to a sum.
Part(f, x, S) == IF x \in S THEN f[x] ELSE 0

\* One element that comes, goes or has another value.
LEMMA SumMoves ==
    ASSUME NEW S, NEW T, IsFiniteSet(S), IsFiniteSet(T), NEW f, NEW g, NEW x, S \ {x} = T \ {x},
           \A y \in S : f[y] \in Int, \A y \in T : g[y] \in Int, \A y \in S \ {x} : g[y] = f[y]
    PROVE  /\ SumFunctionOnSet(f, S) \in Int /\ SumFunctionOnSet(g, T) \in Int
           /\ Part(f, x, S) \in Int /\ Part(g, x, T) \in Int
           /\ SumFunctionOnSet(g, T) = SumFunctionOnSet(f, S) - Part(f, x, S) + Part(g, x, T)
  <1> DEFINE U == S \ {x}
  <1>1. IsFiniteSet(U) /\ x \notin U
    BY FS_Subset
  <1>2. ASSUME NEW V, NEW e, V \ {x} = U, \A y \in V : e[y] \in Int
        PROVE  /\ SumFunctionOnSet(e, V) \in Int /\ SumFunctionOnSet(e, U) \in Int
               /\ SumFunctionOnSet(e, V) = SumFunctionOnSet(e, U) + Part(e, x, V)
               /\ Part(e, x, V) \in Int
    <2>1. CASE x \in V
      <3>1. V = U \cup {x} /\ e[x] \in Int
        BY <1>2, <2>1
      <3>2. \A y \in U \cup {x} : e[y] \in Int
        BY <1>2, <3>1
      <3> HIDE DEF U
      <3>3. /\ SumFunctionOnSet(e, U) \in Int
            /\ SumFunctionOnSet(e, U \cup {x}) = SumFunctionOnSet(e, U) + e[x]
        BY <1>1, <3>2, SumAdd
      <3>4. QED
        BY <2>1, <3>1, <3>3 DEF Part
    <2>2. CASE x \notin V
      <3>1. V = U
        BY <1>2, <2>2
      <3>2. PICK h : IsSum(h, e, V)
        BY <1>1, <1>2, <3>1, SumExists
      <3>3. SumFunctionOnSet(e, V) \in Int
        BY <1>1, <3>1, <3>2, SumIs
      <3>4. QED
        BY <2>2, <3>1, <3>3 DEF Part
    <2>3. QED
      BY <2>1, <2>2
  <1>3. SumFunctionOnSet(g, U) = SumFunctionOnSet(f, U)
    BY <1>1, SumSame
  <1>4. /\ SumFunctionOnSet(f, S) \in Int /\ SumFunctionOnSet(f, U) \in Int
        /\ SumFunctionOnSet(f, S) = SumFunctionOnSet(f, U) + Part(f, x, S) /\ Part(f, x, S) \in Int
    BY <1>2
  <1>5. /\ SumFunctionOnSet(g, T) \in Int
        /\ SumFunctionOnSet(g, T) = SumFunctionOnSet(g, U) + Part(g, x, T) /\ Part(g, x, T) \in Int
    BY <1>2
  <1> HIDE DEF U
  <1>6. QED
    BY <1>3, <1>4, <1>5

(***************************************************************************)
(* The balances.                                                           *)
(***************************************************************************)

RowsOf(lg, type, p, n) == {i \in 1..n : lg[i].type = type /\ lg[i].player = p}
AmountsOf(lg) == [i \in DOMAIN lg |-> lg[i].amount]
TotalOf(lg, type, p, n) == SumFunctionOnSet(AmountsOf(lg), RowsOf(lg, type, p, n))

Asking(labels, p) == {r \in Requests : pc[r] \in labels /\ req[r].player = p}
Owed(labels, p) == SumFunctionOnSet([r \in Requests |-> AmountOf(r)], Asking(labels, p))

LEMMA TotalIs == \A type, p, n : Total(type, p, n) = TotalOf(log, type, p, n)
  BY DEF Total, TotalOf, AmountsOf, RowsOf

LEMMA TotalIsNext ==
    ASSUME NEW lg, lg = log', NEW type, NEW p, NEW n
    PROVE  Total(type, p, n)' = TotalOf(lg, type, p, n)
  BY DEF Total, TotalOf, AmountsOf, RowsOf

LEMMA OwedNext ==
    ASSUME NEW labels, NEW p, NEW g, NEW S, S = Asking(labels, p)', g = [r \in Requests |-> AmountOf(r)']
    PROVE  Owed(labels, p)' = SumFunctionOnSet(g, S)
  BY DEF Owed

LEMMA UnrecordedIs ==
    ASSUME NEW p
    PROVE  /\ Unrecorded(p) = Owed({"WalletDeposited", "RewardDeposited"}, p)
                              - Owed({"MinutesPurchased"}, p)
           /\ Unrecorded(p)' = Owed({"WalletDeposited", "RewardDeposited"}, p)'
                               - Owed({"MinutesPurchased"}, p)'
  BY DEF Unrecorded, Owed, Asking

\* What a balance is, and what is to be said about it.
Balance(p) == IF wallet[p] = NoRow THEN 0 ELSE wallet[p]

Recorded(lg, p, n) == TotalOf(lg, "WalletDeposited", p, Len(lg)) + TotalOf(lg, "WalletDeposited", p, n)
                      - TotalOf(lg, "MinutesPurchased", p, Len(lg))

Accounted(p) == Balance(p) = Recorded(log, p, position["wallet"]) + Unrecorded(p)

LEMMA AccountedIs == BalanceAccounted <=> \A p \in Players : rebuilds["wallet"] = 0 => Accounted(p)
  BY TotalIs DEF BalanceAccounted, Accounted, Balance, Recorded

LEMMA AccountedIsNext ==
    BalanceAccounted' <=> \A p \in Players : rebuilds'["wallet"] = 0 => Accounted(p)'
  BY DEF BalanceAccounted, Accounted, Balance, Recorded, Total, TotalOf, AmountsOf, RowsOf

LEMMA AccountedNext ==
    ASSUME NEW p, NEW lg, lg = log', NEW n, n = position'["wallet"], NEW u, u = Unrecorded(p)',
           Balance(p)' = Recorded(lg, p, n) + u
    PROVE  Accounted(p)'
  BY DEF Accounted, Recorded, TotalOf, AmountsOf, RowsOf

\* What a row adds to a total.
Counts(e, type, p) == IF e.type = type /\ e.player = p THEN e.amount ELSE 0

\* The rows of a player, and one more.
LEMMA TotalStep ==
    ASSUME NEW lg \in Seq(Events), NEW type, NEW p, NEW n \in Nat, NEW i \in Nat, n < i, i <= Len(lg),
           \A j \in 1..Len(lg) : n < j /\ j < i => lg[j].type # type
    PROVE  /\ TotalOf(lg, type, p, n) \in Int /\ TotalOf(lg, type, p, i) \in Int
           /\ TotalOf(lg, type, p, i) = TotalOf(lg, type, p, n) + Counts(lg[i], type, p)
  <1> DEFINE S == RowsOf(lg, type, p, n)
             T == RowsOf(lg, type, p, i)
             f == AmountsOf(lg)
  <1>1. Len(lg) \in Nat /\ DOMAIN lg = 1..Len(lg) /\ \A k \in 1..Len(lg) : lg[k] \in Events
    BY LenProperties, ElementOfSeq
  <1>2. \A k \in 1..Len(lg) : f[k] = lg[k].amount /\ f[k] \in Int
    BY <1>1 DEF AmountsOf, Events
  <1>3. S \subseteq 1..n /\ T \subseteq 1..i
    BY DEF RowsOf
  <1>4. IsFiniteSet(S) /\ IsFiniteSet(T)
    <2>1. IsFiniteSet(1..n) /\ IsFiniteSet(1..i)
      BY FS_Interval
    <2>2. QED
      BY <1>3, <2>1, FS_Subset
  <1>5. S \subseteq 1..Len(lg) /\ T \subseteq 1..Len(lg)
    BY <1>1, <1>3
  <1>6. /\ i \notin S
        /\ i \in T <=> lg[i].type = type /\ lg[i].player = p
        /\ S \ {i} = T \ {i}
    BY <1>1 DEF RowsOf
  <1>7. f[i] = lg[i].amount
    BY <1>1, <1>2
  <1> HIDE DEF S, T, f
  <1>8. /\ \A y \in S : f[y] \in Int
        /\ \A y \in T : f[y] \in Int
        /\ \A y \in S \ {i} : f[y] = f[y]
    BY <1>2, <1>5
  <1>9. /\ SumFunctionOnSet(f, S) \in Int /\ SumFunctionOnSet(f, T) \in Int
        /\ SumFunctionOnSet(f, T) = SumFunctionOnSet(f, S) - Part(f, i, S) + Part(f, i, T)
        /\ Part(f, i, T) \in Int
    BY <1>4, <1>6, <1>8, SumMoves, Zenon
  <1>10. Part(f, i, S) = 0 /\ Part(f, i, T) = Counts(lg[i], type, p)
    BY <1>6, <1>7 DEF Part, Counts
  <1>11. SumFunctionOnSet(f, T) = SumFunctionOnSet(f, S) + Counts(lg[i], type, p)
    BY <1>9, <1>10
  <1>12. QED
    BY <1>9, <1>11 DEF S, T, f, TotalOf

LEMMA TotalType ==
    ASSUME NEW lg \in Seq(Events), NEW type, NEW p, NEW n \in 0..Len(lg)
    PROVE  TotalOf(lg, type, p, n) \in Int
  <1> DEFINE S == RowsOf(lg, type, p, n)
             f == AmountsOf(lg)
  <1>1. Len(lg) \in Nat /\ DOMAIN lg = 1..Len(lg) /\ \A k \in 1..Len(lg) : lg[k] \in Events
    BY LenProperties, ElementOfSeq
  <1>2. S \subseteq 1..n /\ S \subseteq 1..Len(lg)
    BY <1>1 DEF RowsOf
  <1>3. IsFiniteSet(1..n)
    BY FS_Interval
  <1>4. IsFiniteSet(S)
    BY <1>2, <1>3, FS_Subset
  <1>5. \A k \in S : f[k] \in Int
    BY <1>1, <1>2 DEF AmountsOf, Events
  <1> HIDE DEF S, f
  <1>6. PICK g : IsSum(g, f, S)
    BY <1>4, <1>5, SumExists
  <1>7. SumFunctionOnSet(f, S) \in Int
    BY <1>4, <1>6, SumIs
  <1>8. QED
    BY <1>7 DEF S, f, TotalOf

Appended(new, lg, e) == new = Append(lg, e)

LEMMA TotalAppend ==
    ASSUME NEW lg \in Seq(Events), NEW e \in Events, NEW type, NEW p, NEW new, Appended(new, lg, e),
           NEW at \in 0..Len(lg)
    PROVE  /\ TotalOf(new, type, p, at) = TotalOf(lg, type, p, at)
           /\ TotalOf(new, type, p, Len(new)) = TotalOf(lg, type, p, Len(lg)) + Counts(e, type, p)
  <1>1. /\ Len(lg) \in Nat /\ DOMAIN lg = 1..Len(lg) /\ \A k \in 1..Len(lg) : lg[k] \in Events
        /\ new \in Seq(Events) /\ Len(new) = Len(lg) + 1 /\ DOMAIN new = 1..Len(lg) + 1
        /\ \A k \in 1..Len(lg) : new[k] = lg[k]
        /\ new[Len(lg) + 1] = e
    BY LenProperties, ElementOfSeq, AppendProperties DEF Appended
  <1>2. ASSUME NEW n \in 0..Len(lg)
        PROVE  TotalOf(new, type, p, n) = TotalOf(lg, type, p, n)
    <2> DEFINE S == RowsOf(lg, type, p, n)
               f == AmountsOf(lg)
               g == AmountsOf(new)
    <2>1. RowsOf(new, type, p, n) = S /\ S \subseteq 1..n /\ S \subseteq 1..Len(lg)
      BY <1>1 DEF RowsOf
    <2>2. \A k \in S : f[k] \in Int /\ g[k] = f[k]
      BY <1>1, <2>1 DEF AmountsOf, Events
    <2>3. IsFiniteSet(1..n)
      BY FS_Interval
    <2>4. IsFiniteSet(S)
      BY <2>1, <2>3, FS_Subset
    <2> HIDE DEF S, f, g
    <2>5. SumFunctionOnSet(g, S) = SumFunctionOnSet(f, S)
      BY <2>2, <2>4, SumSame
    <2>6. QED
      BY <2>1, <2>5 DEF S, f, g, TotalOf
  <1>3. PICK n \in Nat : n = Len(lg)
    BY <1>1
  <1>4. PICK i \in Nat : i = n + 1
    BY <1>3
  <1>5. TotalOf(new, type, p, i) = TotalOf(new, type, p, n) + Counts(new[i], type, p)
    <2>1. n < i /\ i <= Len(new)
      BY <1>1, <1>3, <1>4
    <2>2. new \in Seq(Events)
      BY <1>1
    <2>3. \A j \in 1..Len(new) : n < j /\ j < i => new[j].type # type
      BY <1>4
    <2>4. QED
      BY <2>1, <2>2, <2>3, TotalStep
  <1>6. QED
    BY <1>1, <1>2, <1>3, <1>4, <1>5

\* What a request still has to record of a player's money.
Due(r, p) ==
    IF req[r].player # p THEN 0
    ELSE IF pc[r] \in {"WalletDeposited", "RewardDeposited"} THEN AmountOf(r)
    ELSE IF pc[r] = "MinutesPurchased" THEN 0 - AmountOf(r)
    ELSE 0

LEMMA AmountType ==
    /\ RequestsOK => \A r \in Requests : AmountOf(r) \in Nat
    /\ RequestsOK' => \A r \in Requests : AmountOf(r)' \in Nat
  <1>1. ASSUME NEW n \in Nat PROVE Cost(n) \in Nat /\ Reward(n) \in Nat
    BY CostType, RewardType
  <1>2. ASSUME RequestsOK, NEW r \in Requests PROVE AmountOf(r) \in Nat
    <2>1. PICK n \in Nat : n = req[r].amount
      BY <1>2 DEF RequestsOK, RequestRecords
    <2>2. AmountOf(r) \in {Cost(n), Reward(n), n}
      BY <2>1 DEF AmountOf
    <2>3. QED
      BY <1>1, <2>2
  <1>3. ASSUME RequestsOK', NEW r \in Requests PROVE AmountOf(r)' \in Nat
    <2>1. PICK n \in Nat : n = req'[r].amount
      BY <1>3 DEF RequestsOK, RequestRecords
    <2>2. AmountOf(r)' \in {Cost(n), Reward(n), n}
      BY <2>1 DEF AmountOf
    <2>3. QED
      BY <1>1, <2>2
  <1>4. QED
    BY <1>2, <1>3

Owes(r, labels, p) == IF r \in Asking(labels, p) THEN AmountOf(r) ELSE 0

LEMMA OwedMoves ==
    ASSUME RequestsOK, RequestsOK', NEW r \in Requests, NEW p, NEW labels,
           \A q \in Requests \ {r} : pc'[q] = pc[q] /\ req'[q] = req[q]
    PROVE  /\ Owed(labels, p) \in Int /\ Owed(labels, p)' \in Int
           /\ Owes(r, labels, p) \in Int /\ Owes(r, labels, p)' \in Int
           /\ Owed(labels, p)' = Owed(labels, p) - Owes(r, labels, p) + Owes(r, labels, p)'
  <1>1. PICK S : S = Asking(labels, p)
    OBVIOUS
  <1>2. PICK T : T = Asking(labels, p)'
    OBVIOUS
  <1>3. PICK f : f = [q \in Requests |-> AmountOf(q)]
    OBVIOUS
  <1>4. PICK g : g = [q \in Requests |-> AmountOf(q)']
    OBVIOUS
  <1>5. Owed(labels, p) = SumFunctionOnSet(f, S)
    BY <1>1, <1>3 DEF Owed
  <1>6. Owed(labels, p)' = SumFunctionOnSet(g, T)
    BY <1>2, <1>4, OwedNext
  <1>7. \A q \in Requests : f[q] = AmountOf(q) /\ g[q] = AmountOf(q)' /\ f[q] \in Int /\ g[q] \in Int
    <2>1. \A q \in Requests : AmountOf(q) \in Nat
      BY AmountType
    <2>2. \A q \in Requests : AmountOf(q)' \in Nat
      BY AmountType
    <2>3. QED
      BY <1>3, <1>4, <2>1, <2>2
  <1>8. \A q \in Requests \ {r} : g[q] = f[q]
    <2>1. \A q \in Requests \ {r} : AmountOf(q)' = AmountOf(q)
      BY DEF AmountOf
    <2>2. QED
      BY <1>7, <2>1
  <1>9. S \subseteq Requests /\ T \subseteq Requests
    BY <1>1, <1>2 DEF Asking
  <1>10. S \ {r} = T \ {r}
    BY <1>1, <1>2 DEF Asking
  <1>11. IsFiniteSet(S) /\ IsFiniteSet(T)
    BY <1>9, FS_Subset
  <1>12. /\ SumFunctionOnSet(f, S) \in Int /\ SumFunctionOnSet(g, T) \in Int
         /\ Part(f, r, S) \in Int /\ Part(g, r, T) \in Int
         /\ SumFunctionOnSet(g, T) = SumFunctionOnSet(f, S) - Part(f, r, S) + Part(g, r, T)
    <2>1. \A q \in S : f[q] \in Int
      BY <1>7, <1>9
    <2>2. \A q \in T : g[q] \in Int
      BY <1>7, <1>9
    <2>3. \A q \in S \ {r} : g[q] = f[q]
      BY <1>8, <1>9
    <2>4. QED
      BY <1>10, <1>11, <2>1, <2>2, <2>3, SumMoves, SMTT(30)
  <1>13. Part(f, r, S) = Owes(r, labels, p) /\ Part(g, r, T) = Owes(r, labels, p)'
    BY <1>1, <1>2, <1>7 DEF Part, Owes
  <1>14. QED
    BY <1>5, <1>6, <1>12, <1>13

LEMMA OwedType ==
    ASSUME RequestsOK, NEW p, NEW labels
    PROVE  Owed(labels, p) \in Int
  <1> DEFINE S == Asking(labels, p)
             f == [q \in Requests |-> AmountOf(q)]
  <1>1. IsFiniteSet(S) /\ S \subseteq Requests
    BY FS_Subset DEF Asking
  <1>2. \A q \in Requests : AmountOf(q) \in Nat
    BY AmountType
  <1>3. \A q \in S : f[q] \in Int
    BY <1>1, <1>2
  <1>4. Owed(labels, p) = SumFunctionOnSet(f, S)
    BY DEF Owed
  <1> HIDE DEF S, f
  <1>5. PICK g : IsSum(g, f, S)
    BY <1>1, <1>3, SumExists
  <1>6. QED
    BY <1>1, <1>4, <1>5, SumIs

LEMMA UnrecordedMoves ==
    ASSUME RequestsOK, RequestsOK', NEW r \in Requests, NEW p,
           \A q \in Requests \ {r} : pc'[q] = pc[q] /\ req'[q] = req[q]
    PROVE  /\ Unrecorded(p) \in Int /\ Unrecorded(p)' \in Int
           /\ Due(r, p) \in Int /\ Due(r, p)' \in Int
           /\ Unrecorded(p)' = Unrecorded(p) - Due(r, p) + Due(r, p)'
  <1> DEFINE money == {"WalletDeposited", "RewardDeposited"}
             spent == {"MinutesPurchased"}
             a == Owed(money, p)
             b == Owed(spent, p)
             x == Owes(r, money, p)
             y == Owes(r, spent, p)
  <1>1. a \in Int /\ a' \in Int /\ a' = a - x + x' /\ x \in Int /\ x' \in Int
    BY OwedMoves
  <1>2. b \in Int /\ b' \in Int /\ b' = b - y + y' /\ y \in Int /\ y' \in Int
    BY OwedMoves
  <1>3. AmountOf(r) \in Nat
    BY AmountType
  <1>4. AmountOf(r)' \in Nat
    BY AmountType
  <1>5. Due(r, p) = x - y
    BY <1>3 DEF Due, Asking, Owes
  <1>6. Due(r, p)' = x' - y'
    BY <1>4 DEF Due, Asking, Owes
  <1>7. Unrecorded(p) = a - b
    BY UnrecordedIs
  <1>8. Unrecorded(p)' = a' - b'
    BY UnrecordedIs
  <1> HIDE DEF a, b, x, y
  <1>9. QED
    BY <1>1, <1>2, <1>5, <1>6, <1>7, <1>8

Money == {"WalletDeposited", "RewardDeposited", "MinutesPurchased"}

LEMMA DueIs ==
    ASSUME NEW r \in Requests, NEW p
    PROVE  /\ req[r].player # p \/ pc[r] \notin Money => Due(r, p) = 0
           /\ req'[r].player # p \/ pc'[r] \notin Money => Due(r, p)' = 0
           /\ req[r].player = p /\ pc[r] \in {"WalletDeposited", "RewardDeposited"} => Due(r, p) = AmountOf(r)
           /\ req'[r].player = p /\ pc'[r] \in {"WalletDeposited", "RewardDeposited"} => Due(r, p)' = AmountOf(r)'
           /\ req[r].player = p /\ pc[r] = "MinutesPurchased" => Due(r, p) = 0 - AmountOf(r)
           /\ req'[r].player = p /\ pc'[r] = "MinutesPurchased" => Due(r, p)' = 0 - AmountOf(r)'
           /\ pc'[r] = pc[r] /\ req'[r] = req[r] => Due(r, p)' = Due(r, p)
  BY DEF Due, Money, AmountOf

LEMMA BalanceIs ==
    ASSUME NEW p \in Players
    PROVE  /\ TablesOK => Balance(p) \in Int
           /\ wallet[p] = NoRow => Balance(p) = 0
           /\ wallet[p] # NoRow => Balance(p) = wallet[p]
           /\ wallet'[p] # NoRow => Balance(p)' = wallet'[p]
           /\ wallet'[p] = wallet[p] => Balance(p)' = Balance(p)
  BY DEF Balance, TablesOK

LEMMA CreditBalance ==
    ASSUME TablesOK, NEW q \in Players, NEW amount \in Nat, Credit(q, amount), NEW p \in Players
    PROVE  /\ p = q => Balance(p)' = Balance(p) + amount
           /\ p # q => Balance(p)' = Balance(p)
  <1>1. CASE p = q
    <2>1. /\ wallet'[p] = IF wallet[p] = NoRow THEN amount ELSE wallet[p] + amount
          /\ wallet'[p] \in Int
      BY <1>1, CreditEffect
    <2>2. wallet'[p] # NoRow
      BY <2>1, NoRowApart
    <2>3. CASE wallet[p] = NoRow
      BY <1>1, <2>1, <2>2, <2>3, BalanceIs
    <2>4. CASE wallet[p] # NoRow
      BY <1>1, <2>1, <2>2, <2>4, BalanceIs
    <2>5. QED
      BY <2>3, <2>4
  <1>2. CASE p # q
    <2>1. wallet'[p] = wallet[p]
      BY <1>2, CreditEffect
    <2>2. QED
      BY <1>2, <2>1, BalanceIs
  <1>3. QED
    BY <1>1, <1>2

\* A step of a request that appends no event moves the balance and what is due together.
LEMMA DueMoves ==
    ASSUME TablesOK, RequestsOK, RequestsOK', NEW r \in Requests, NEW p \in Players,
           Call(r) \/ Continue(r) \/ Die(r), ~ InsertEvent(r)
    PROVE  Balance(p)' = Balance(p) - Due(r, p) + Due(r, p)'
  <1>1. Balance(p) \in Int
    BY BalanceIs
  <1>2. AmountOf(r) \in Nat
    BY AmountType
  <1>3. Due(r, p) \in Int
    BY <1>2, DueIs DEF Due
  <1>4. pc \in [Requests -> Labels] /\ req \in [Requests -> RequestRecords]
    BY DEF RequestsOK
  \* Neither money nor a label that owes some.
  <1>5. ASSUME wallet' = wallet, \/ pc'[r] = pc[r] /\ req'[r] = req[r]
                                 \/ pc[r] \notin Money /\ pc'[r] \notin Money
        PROVE  Balance(p)' = Balance(p) - Due(r, p) + Due(r, p)'
    <2>1. Due(r, p)' = Due(r, p)
      BY <1>5, DueIs
    <2>2. Balance(p)' = Balance(p)
      BY <1>5, BalanceIs
    <2>3. QED
      BY <1>1, <1>3, <2>1, <2>2
  <1>6. ASSUME NEW q \in Players, NEW a \in Deposits, Deposit(r, q, a)
        PROVE  Balance(p)' = Balance(p) - Due(r, p) + Due(r, p)'
    <2>1. pc[r] = "idle" /\ Credit(q, a) /\ a \in Nat
      BY <1>6, Amounts DEF Deposit
    <2>2. pc'[r] = "WalletDeposited" /\ req'[r].player = q /\ req'[r].amount = a
      BY <1>4, <1>6 DEF Deposit, Goto, Ask
    <2>3. AmountOf(r)' = a
      BY <2>2 DEF AmountOf
    <2>4. Due(r, p) = 0
      BY <2>1, DueIs DEF Money
    <2>5. CASE p = q
      <3>1. Due(r, p)' = a
        BY <2>2, <2>3, <2>5, DueIs
      <3>2. QED
        BY <1>1, <2>1, <2>4, <2>5, <3>1, CreditBalance
    <2>6. CASE p # q
      <3>1. Due(r, p)' = 0
        BY <2>2, <2>6, DueIs
      <3>2. QED
        BY <1>1, <2>1, <2>4, <2>6, <3>1, CreditBalance
    <2>7. QED
      BY <2>5, <2>6
  <1>7. ASSUME PayReward(r)
        PROVE  Balance(p)' = Balance(p) - Due(r, p) + Due(r, p)'
    <2>1. PICK a : a = Reward(req[r].amount)
      OBVIOUS
    <2>2. PICK q : q = req[r].player
      OBVIOUS
    <2>3. pc[r] = "reward" /\ Credit(q, a) /\ q \in Players /\ req[r].amount \in Nat
      BY <1>7, <2>1, <2>2, RequestType DEF PayReward, At
    <2>4. a \in Nat
      BY <2>1, <2>3, RewardType
    <2>5. pc'[r] = "RewardDeposited" /\ req' = req
      BY <1>4, <1>7 DEF PayReward, Goto
    <2>6. AmountOf(r)' = a
      BY <2>1, <2>5 DEF AmountOf
    <2>7. Due(r, p) = 0
      BY <2>3, DueIs DEF Money
    <2>8. CASE p = q
      <3>1. Due(r, p)' = a
        BY <2>2, <2>5, <2>6, <2>8, DueIs
      <3>2. QED
        BY <1>1, <2>3, <2>4, <2>7, <2>8, <3>1, CreditBalance
    <2>9. CASE p # q
      <3>1. Due(r, p)' = 0
        BY <2>2, <2>5, <2>9, DueIs
      <3>2. QED
        BY <1>1, <2>3, <2>4, <2>7, <2>9, <3>1, CreditBalance
    <2>10. QED
      BY <2>8, <2>9
  <1>8. ASSUME Debit(r)
        PROVE  Balance(p)' = Balance(p) - Due(r, p) + Due(r, p)'
    <2>1. PICK c : c = Cost(req[r].amount)
      OBVIOUS
    <2>2. PICK q : q = req[r].player
      OBVIOUS
    <2>3. pc[r] = "debit" /\ q \in Players /\ req[r].amount \in Nat /\ req' = req
      BY <1>8, <2>2, RequestType DEF Debit, At
    <2>4. c \in Nat
      BY <2>1, <2>3, CostType
    <2>5. Due(r, p) = 0
      BY <2>3, DueIs DEF Money
    <2>6. CASE wallet[q] = NoRow
      <3>1. wallet' = wallet /\ pc' = pc
        BY <1>8, <2>2, <2>6 DEF Debit
      <3>2. QED
        BY <1>5, <2>3, <3>1
    <2>7. CASE wallet[q] # NoRow
      <3>1. wallet' = [wallet EXCEPT ![q] = wallet[q] - c] /\ pc'[r] = "MinutesPurchased"
        BY <1>4, <1>8, <2>1, <2>2, <2>7 DEF Debit, Goto
      <3>2. AmountOf(r)' = c
        BY <2>1, <2>3, <3>1 DEF AmountOf
      <3>3. CASE p = q
        <4>1. wallet[p] \in Int
          BY <2>7, <3>3 DEF TablesOK
        <4>2. wallet'[p] = wallet[p] - c
          BY <3>1, <3>3 DEF TablesOK
        <4>3. wallet'[p] # NoRow
          BY <2>4, <4>1, <4>2, NoRowApart
        <4>4. Balance(p)' = Balance(p) - c
          BY <2>7, <3>3, <4>2, <4>3, BalanceIs
        <4>5. Due(r, p)' = 0 - c
          BY <2>2, <2>3, <3>1, <3>2, <3>3, DueIs
        <4>6. QED
          BY <1>1, <2>4, <2>5, <4>4, <4>5
      <3>4. CASE p # q
        <4>1. wallet'[p] = wallet[p]
          BY <3>1, <3>4 DEF TablesOK
        <4>2. Due(r, p)' = 0
          BY <2>2, <2>3, <3>4, DueIs
        <4>3. QED
          BY <1>1, <2>5, <4>1, <4>2, BalanceIs
      <3>5. QED
        BY <3>3, <3>4
    <2>8. QED
      BY <2>6, <2>7
  <1>9. ASSUME \/ \E q \in Players, m \in Minutes : CheckBalance(r, q, m)
               \/ \E s \in Sessions, n \in Scores : EndSession(r, s, n)
        PROVE  Balance(p)' = Balance(p) - Due(r, p) + Due(r, p)'
    <2>1. wallet' = wallet /\ pc[r] = "idle" /\ pc'[r] \in {"debit", "SessionEnded"}
      BY <1>4, <1>9 DEF CheckBalance, EndSession, Goto, tables
    <2>2. QED
      BY <1>5, <2>1 DEF Money
  <1>10. ASSUME ReadVersion(r) \/ InsertConflict(r) \/ Die(r)
         PROVE  Balance(p)' = Balance(p) - Due(r, p) + Due(r, p)'
    BY <1>5, <1>10 DEF ReadVersion, InsertConflict, Die, tables
  <1>11. ASSUME \/ FindSession(r) \/ ExtendSession(r) \/ CompareScore(r) \/ PlaceScore(r)
                \/ \E s \in Sessions : CreateSession(r, s)
         PROVE  Balance(p)' = Balance(p) - Due(r, p) + Due(r, p)'
    <2>1. /\ wallet' = wallet /\ pc[r] \in {"lookup", "extend", "compare", "place", "create"}
          /\ \/ pc' = pc
             \/ pc'[r] \in {"extend", "create", "ok", "place", "reward", "LeaderboardUpdated", "SessionStarted"}
      BY <1>4, <1>11 DEF FindSession, ExtendSession, CompareScore, PlaceScore, CreateSession, At, Goto,
                         AfterBoard, tables
    <2>2. pc[r] \notin Money /\ pc'[r] \notin Money
      BY <2>1 DEF Money
    <2>3. QED
      BY <1>5, <2>1, <2>2
  <1>12. QED
    BY <1>6, <1>7, <1>8, <1>9, <1>10, <1>11 DEF Call, Continue

\* What is recorded, after a row is appended and after the projector has handled one.
LEMMA RecordedAppend ==
    ASSUME NEW lg \in Seq(Events), NEW e \in Events, NEW p, NEW n \in 0..Len(lg), NEW new, Appended(new, lg, e)
    PROVE  /\ Recorded(lg, p, n) \in Int
           /\ Recorded(new, p, n) = Recorded(lg, p, n) + Counts(e, "WalletDeposited", p)
                                    - Counts(e, "MinutesPurchased", p)
  <1>1. ASSUME NEW type
        PROVE  /\ TotalOf(new, type, p, n) = TotalOf(lg, type, p, n)
               /\ TotalOf(new, type, p, Len(new)) = TotalOf(lg, type, p, Len(lg)) + Counts(e, type, p)
    BY TotalAppend
  <1>2. ASSUME NEW type
        PROVE  /\ TotalOf(lg, type, p, n) \in Int /\ TotalOf(lg, type, p, Len(lg)) \in Int
               /\ Counts(e, type, p) \in Int
    <2>1. Len(lg) \in 0..Len(lg)
      BY LenProperties
    <2>2. Counts(e, type, p) \in Int
      BY DEF Counts, Events
    <2>3. QED
      BY <2>1, <2>2, TotalType
  <1>3. QED
    BY <1>1, <1>2 DEF Recorded

LEMMA RecordedStep ==
    ASSUME NEW lg \in Seq(Events), NEW p, NEW n \in 0..Len(lg), NEW i \in 1..Len(lg), n < i,
           \A j \in 1..Len(lg) : n < j /\ j < i => lg[j].type # "WalletDeposited"
    PROVE  /\ Recorded(lg, p, n) \in Int
           /\ Recorded(lg, p, i) = Recorded(lg, p, n) + Counts(lg[i], "WalletDeposited", p)
  <1>1. Len(lg) \in Nat /\ n \in Nat /\ i \in Nat /\ i <= Len(lg) /\ lg[i] \in Events
    BY LenProperties, ElementOfSeq
  <1>2. TotalOf(lg, "WalletDeposited", p, n) \in Int
        /\ TotalOf(lg, "WalletDeposited", p, i)
             = TotalOf(lg, "WalletDeposited", p, n) + Counts(lg[i], "WalletDeposited", p)
    BY <1>1, TotalStep
  <1>3. /\ TotalOf(lg, "WalletDeposited", p, Len(lg)) \in Int
        /\ TotalOf(lg, "MinutesPurchased", p, Len(lg)) \in Int
    BY <1>1, TotalType
  <1>4. Counts(lg[i], "WalletDeposited", p) \in Int
    BY <1>1 DEF Counts, Events
  <1>5. QED
    BY <1>2, <1>3, <1>4 DEF Recorded

\* An event that is inserted is recorded as it was due.
LEMMA InsertBalances ==
    ASSUME LogOK, RequestsOK, NEW r \in Requests, InsertEvent(r), NEW p
    PROVE  /\ Counts(EventOf(r), "WalletDeposited", p) - Counts(EventOf(r), "MinutesPurchased", p) = Due(r, p)
           /\ Due(r, p)' = 0
  <1>1. pc[r] \in Appends /\ Goto(r, After(r))
    BY DEF InsertEvent
  <1>2. AmountOf(r) \in Nat
    BY AmountType
  <1>3. /\ EventOf(r).type = (IF pc[r] = "RewardDeposited" THEN "WalletDeposited" ELSE pc[r])
        /\ EventOf(r).player = req[r].player /\ EventOf(r).amount = AmountOf(r)
    BY DEF EventOf
  <1>4. Due(r, p)' = 0
    <2>1. pc'[r] \in {"lookup", "ScoreVerified", "compare", "reward", "ok"}
      BY <1>1, AfterType DEF Goto, RequestsOK
    <2>2. QED
      BY <2>1, DueIs DEF Money
  <1>5. CASE req[r].player # p \/ pc[r] \notin Money
    <2>1. Counts(EventOf(r), "WalletDeposited", p) = 0 /\ Counts(EventOf(r), "MinutesPurchased", p) = 0
      BY <1>3, <1>5 DEF Counts, Money
    <2>2. Due(r, p) = 0
      BY <1>5, DueIs
    <2>3. QED
      BY <1>4, <2>1, <2>2
  <1>6. CASE req[r].player = p /\ pc[r] \in {"WalletDeposited", "RewardDeposited"}
    <2>1. Counts(EventOf(r), "WalletDeposited", p) = AmountOf(r) /\ Counts(EventOf(r), "MinutesPurchased", p) = 0
      BY <1>3, <1>6 DEF Counts
    <2>2. Due(r, p) = AmountOf(r)
      BY <1>6, DueIs
    <2>3. QED
      BY <1>2, <1>4, <2>1, <2>2
  <1>7. CASE req[r].player = p /\ pc[r] = "MinutesPurchased"
    <2>1. Counts(EventOf(r), "WalletDeposited", p) = 0 /\ Counts(EventOf(r), "MinutesPurchased", p) = AmountOf(r)
      BY <1>3, <1>7 DEF Counts
    <2>2. Due(r, p) = 0 - AmountOf(r)
      BY <1>7, DueIs
    <2>3. QED
      BY <1>2, <1>4, <2>1, <2>2
  <1>8. QED
    BY <1>5, <1>6, <1>7 DEF Money

\* The next state is accounted for if the balance, what is recorded and what is
\* not have moved together.
LEMMA MovesTogether ==
    ASSUME NEW p, Accounted(p), NEW lg, lg = log', NEW n, n = position'["wallet"], NEW d \in Int, NEW c \in Int,
           Balance(p) \in Int, Unrecorded(p) \in Int, Recorded(log, p, position["wallet"]) \in Int,
           Balance(p)' = Balance(p) + d,
           Recorded(lg, p, n) = Recorded(log, p, position["wallet"]) + c,
           Unrecorded(p)' = Unrecorded(p) + d - c
    PROVE  Accounted(p)'
  <1>1. PICK u : u = Unrecorded(p)'
    OBVIOUS
  <1>2. PICK b : b = Balance(p)'
    OBVIOUS
  <1>3. b = Recorded(lg, p, n) + u
    BY <1>1, <1>2 DEF Accounted
  <1>4. QED
    BY <1>1, <1>2, <1>3, AccountedNext

LEMMA UnrecordedStays ==
    ASSUME UNCHANGED <<pc, req>>, NEW p
    PROVE  Unrecorded(p)' = Unrecorded(p)
  <1>1. \A r \in Requests : AmountOf(r)' = AmountOf(r)
    BY DEF AmountOf
  <1>2. [r \in Requests |-> AmountOf(r)'] = [r \in Requests |-> AmountOf(r)]
    BY <1>1
  <1>3. QED
    BY <1>2 DEF Unrecorded

LEMMA UnrecordedType ==
    ASSUME RequestsOK, NEW p
    PROVE  Unrecorded(p) \in Int
  <1>1. /\ Owed({"WalletDeposited", "RewardDeposited"}, p) \in Int
        /\ Owed({"MinutesPurchased"}, p) \in Int
    BY OwedType
  <1>2. QED
    BY <1>1, UnrecordedIs

LEMMA RecordedType ==
    ASSUME NEW lg \in Seq(Events), NEW p, NEW n \in 0..Len(lg)
    PROVE  Recorded(lg, p, n) \in Int
  <1>1. Len(lg) \in 0..Len(lg)
    BY LenProperties
  <1>2. /\ TotalOf(lg, "WalletDeposited", p, n) \in Int
        /\ TotalOf(lg, "WalletDeposited", p, Len(lg)) \in Int
        /\ TotalOf(lg, "MinutesPurchased", p, Len(lg)) \in Int
    BY <1>1, TotalType
  <1>3. QED
    BY <1>2 DEF Recorded

LEMMA AccountedStep ==
    ASSUME TablesOK, LogOK, RequestsOK, RequestsOK', BoundsOK, [Next]_vars,
           NEW p \in Players, rebuilds["wallet"] = 0 => Accounted(p), rebuilds'["wallet"] = 0
    PROVE  Accounted(p)'
  <1>1. Len(log) \in Nat /\ DOMAIN log = 1..Len(log) /\ log \in Seq(Events)
    BY LenProperties DEF LogOK
  <1>2. position \in [Projectors -> 0..Len(log)] /\ position["wallet"] \in 0..Len(log)
    BY DEF LogOK, Projectors
  <1>3. Balance(p) \in Int /\ Unrecorded(p) \in Int /\ Recorded(log, p, position["wallet"]) \in Int
    BY <1>1, <1>2, BalanceIs, UnrecordedType, RecordedType
  <1>4. PICK lg : lg = log'
    OBVIOUS
  <1>5. PICK n : n = position'["wallet"]
    OBVIOUS
  <1>6. ASSUME rebuilds' = rebuilds, NEW d \in Int, NEW c \in Int,
               Balance(p)' = Balance(p) + d,
               Recorded(lg, p, n) = Recorded(log, p, position["wallet"]) + c,
               Unrecorded(p)' = Unrecorded(p) + d - c
        PROVE  Accounted(p)'
    BY <1>3, <1>4, <1>5, <1>6, MovesTogether
  <1>7. ASSUME NEW r \in Requests, Call(r) \/ Continue(r) \/ Die(r)
        PROVE  /\ Due(r, p) \in Int /\ Due(r, p)' \in Int /\ rebuilds' = rebuilds /\ position' = position
               /\ Unrecorded(p)' = Unrecorded(p) - Due(r, p) + Due(r, p)'
    <2>1. \A q \in Requests \ {r} : pc'[q] = pc[q] /\ req'[q] = req[q]
      BY <1>7, OneRequestMoves
    <2>2. /\ Due(r, p) \in Int /\ Due(r, p)' \in Int
          /\ Unrecorded(p)' = Unrecorded(p) - Due(r, p) + Due(r, p)'
      BY <2>1, UnrecordedMoves
    <2>3. CASE Call(r) \/ Die(r)
      BY <2>2, <2>3 DEF Call, Deposit, CheckBalance, EndSession, Die, bounds
    <2>4. CASE Continue(r)
      BY <2>2, <2>4 DEF Continue, ReadVersion, InsertEvent, InsertConflict, Debit, FindSession, ExtendSession,
                        CreateSession, CompareScore, PlaceScore, PayReward, bounds
    <2>5. QED
      BY <1>7, <2>3, <2>4
  <1>8. ASSUME NEW r \in Requests, Call(r) \/ Continue(r) \/ Die(r), ~ InsertEvent(r)
        PROVE  Accounted(p)'
    <2>1. Balance(p)' = Balance(p) - Due(r, p) + Due(r, p)'
      BY <1>8, DueMoves
    <2>2. log' = log
      <3>1. CASE Call(r) \/ Die(r)
        BY <3>1 DEF Call, Deposit, CheckBalance, EndSession, Die
      <3>2. CASE Continue(r)
        BY <1>8, <3>2 DEF Continue, ReadVersion, InsertConflict, Debit, FindSession, ExtendSession,
                          CreateSession, CompareScore, PlaceScore, PayReward
      <3>3. QED
        BY <1>8, <3>1, <3>2
    <2>3. PICK d \in Int : d = Due(r, p)' - Due(r, p)
      BY <1>7, <1>8
    <2>4. Balance(p)' = Balance(p) + d /\ Unrecorded(p)' = Unrecorded(p) + d - 0
      BY <1>3, <1>7, <1>8, <2>1, <2>3
    <2>5. rebuilds' = rebuilds /\ lg = log /\ n = position["wallet"]
      BY <1>4, <1>5, <1>7, <1>8, <2>2
    <2>6. Recorded(lg, p, n) = Recorded(log, p, position["wallet"]) + 0
      BY <1>3, <2>5
    <2>7. QED
      BY <1>6, <2>4, <2>5, <2>6
  <1>9. ASSUME NEW r \in Requests, InsertEvent(r)
        PROVE  Accounted(p)'
    <2>1. Continue(r)
      BY <1>9 DEF Continue
    <2>2. log' = Append(log, EventOf(r)) /\ EventOf(r) \in Events
      BY <1>9, InsertEffect
    <2>3. PICK e \in Events : e = EventOf(r)
      BY <2>2
    <2>4. /\ Counts(e, "WalletDeposited", p) - Counts(e, "MinutesPurchased", p) = Due(r, p)
          /\ Due(r, p)' = 0
      BY <1>9, <2>3, InsertBalances
    <2>5. Counts(e, "WalletDeposited", p) \in Int /\ Counts(e, "MinutesPurchased", p) \in Int
      BY DEF Counts, Events
    <2>6. Recorded(lg, p, n) = Recorded(log, p, position["wallet"])
                               + Counts(e, "WalletDeposited", p) - Counts(e, "MinutesPurchased", p)
      <3>1. Appended(lg, log, e) /\ n = position["wallet"]
        BY <1>4, <1>5, <1>7, <2>1, <2>2, <2>3 DEF Appended
      <3>2. QED
        BY <1>1, <1>2, <3>1, RecordedAppend
    <2>7. Balance(p)' = Balance(p) + 0
      <3>1. wallet' = wallet
        BY <1>9 DEF InsertEvent, tables
      <3>2. QED
        BY <1>3, <3>1, BalanceIs
    <2>8. PICK c \in Int : c = Due(r, p)
      BY <1>7, <2>1
    <2>9. Recorded(lg, p, n) = Recorded(log, p, position["wallet"]) + c
      BY <1>3, <2>4, <2>5, <2>6, <2>8
    <2>10. Unrecorded(p)' = Unrecorded(p) + 0 - c /\ rebuilds' = rebuilds
      BY <1>3, <1>7, <2>1, <2>4, <2>8
    <2>11. QED
      BY <1>6, <2>7, <2>9, <2>10
  <1>10. CASE ProjectWallet
    <2>1. PICK i \in Ahead("wallet", "WalletDeposited") :
             /\ Advance("wallet", i) /\ Credit(log[i].player, log[i].amount)
             /\ UNCHANGED <<session, best, log, request, stale, bounds>>
      BY <1>10 DEF ProjectWallet
    <2>2. i \in 1..Len(log) /\ i > position["wallet"] /\ log[i].type = "WalletDeposited"
      BY <1>1, <2>1 DEF Ahead
    <2>3. log[i] \in Events /\ log[i].player \in Players /\ log[i].amount \in Nat
      BY <1>1, <2>2, EventType
    <2>4. \A j \in 1..Len(log) : position["wallet"] < j /\ j < i => log[j].type # "WalletDeposited"
      BY <1>1, <1>2, <2>1, <2>2 DEF Ahead, Advance
    <2>5. rebuilds' = rebuilds /\ lg = log /\ n = i /\ UNCHANGED <<pc, req>>
      BY <1>2, <1>4, <1>5, <2>1 DEF Advance, Projectors, request, bounds
    <2>6. Recorded(lg, p, n) = Recorded(log, p, position["wallet"]) + Counts(log[i], "WalletDeposited", p)
      BY <1>1, <1>2, <2>2, <2>4, <2>5, RecordedStep
    <2>7. PICK c \in Int : c = Counts(log[i], "WalletDeposited", p)
      BY <2>3 DEF Counts
    <2>8. Balance(p)' = Balance(p) + c
      <3>1. PICK q \in Players : q = log[i].player
        BY <2>3
      <3>2. PICK a \in Nat : a = log[i].amount
        BY <2>3
      <3>3. Credit(q, a)
        BY <2>1, <3>1, <3>2
      <3>4. c = IF p = q THEN a ELSE 0
        BY <2>2, <2>7, <3>1, <3>2 DEF Counts
      <3>5. QED
        BY <1>3, <3>3, <3>4, CreditBalance
    <2>9. Unrecorded(p)' = Unrecorded(p) + c - c
      BY <1>3, <2>5, UnrecordedStays
    <2>10. QED
      BY <1>6, <2>5, <2>6, <2>7, <2>8, <2>9
  <1>11. CASE ProjectBoard \/ RebuildBoard \/ UNCHANGED vars
    <2>1. UNCHANGED <<wallet, log, pc, req>>
      BY <1>11 DEF ProjectBoard, RebuildBoard, vars, tables, request
    <2>2. position'["wallet"] = position["wallet"] /\ rebuilds'["wallet"] = rebuilds["wallet"]
      BY <1>2, <1>11, RestartEffect DEF ProjectBoard, Advance, RebuildBoard, vars, bounds, BoundsOK, Projectors
    <2>3. Accounted(p)
      BY <2>2
    <2>4. Balance(p)' = Balance(p) + 0
      BY <1>3, <2>1, BalanceIs
    <2>5. Unrecorded(p)' = Unrecorded(p) + 0 - 0
      BY <1>3, <2>1, UnrecordedStays
    <2>6. Recorded(lg, p, n) = Recorded(log, p, position["wallet"]) + 0
      BY <1>3, <1>4, <1>5, <2>1, <2>2
    <2>7. QED
      BY <1>3, <1>4, <1>5, <2>3, <2>4, <2>5, <2>6, MovesTogether
  <1>12. CASE RebuildWallet
    <2>1. rebuilds'["wallet"] = rebuilds["wallet"] + 1 /\ rebuilds["wallet"] \in Nat
      BY <1>12, RestartEffect DEF RebuildWallet, BoundsOK, Projectors
    <2>2. QED
      BY <2>1
  <1>13. QED
    BY <1>8, <1>9, <1>10, <1>11, <1>12 DEF Next

\* Where a log that someone has deposited to stands before any projector has run.
LEMMA NothingRecorded == \A p : Recorded(<<>>, p, 0) = 0
  <1> TAKE p
  <1>1. \A type : RowsOf(<<>>, type, p, 0) = {}
    BY DEF RowsOf
  <1>2. \A type : TotalOf(<<>>, type, p, 0) = 0
    BY <1>1, SumEmpty DEF TotalOf
  <1>3. Len(<<>>) = 0
    OBVIOUS
  <1>4. QED
    BY <1>2, <1>3 DEF Recorded

LEMMA AccountedInit ==
    ASSUME Init, NEW p \in Players
    PROVE  Accounted(p)
  <1>1. position["wallet"] = 0 /\ \A r \in Requests : pc[r] = "idle"
    BY DEF Init, Projectors
  <1>2. Unrecorded(p) = 0
    <2>1. \A labels : "idle" \notin labels => Asking(labels, p) = {}
      BY <1>1 DEF Asking
    <2>2. /\ Owed({"WalletDeposited", "RewardDeposited"}, p) = 0
          /\ Owed({"MinutesPurchased"}, p) = 0
      BY <2>1, SumEmpty DEF Owed
    <2>3. QED
      BY <2>2, UnrecordedIs
  <1>3. ASSUME NEW b \in Int, Balance(p) = b, Recorded(log, p, 0) = b PROVE Accounted(p)
    BY <1>1, <1>2, <1>3 DEF Accounted
  <1>4. PICK nothing : nothing = <<>>
    OBVIOUS
  <1>5. nothing \in Seq(Events) /\ 0 \in 0..Len(nothing) /\ Recorded(nothing, p, 0) = 0
    BY <1>4, NothingRecorded
  <1>6. CASE Fresh
    <2>1. wallet[p] = NoRow /\ log = nothing
      BY <1>4, <1>6 DEF Fresh
    <2>2. QED
      BY <1>3, <1>5, <2>1, BalanceIs
  \* What a deposit records.
  <1>7. ASSUME NEW q \in Players, NEW d \in Nat, NEW one, one = <<Deposited(q, d)>>
        PROVE  /\ one \in Seq(Events) /\ 0 \in 0..Len(one)
               /\ Recorded(one, p, 0) = IF p = q THEN d ELSE 0
    <2>1. PICK e : e = Deposited(q, d)
      OBVIOUS
    <2>2. e \in Events
      BY <2>1 DEF Deposited, Events, Appends, Streams, Aggregates, WalletStream
    <2>3. Appended(one, nothing, e) /\ one \in Seq(Events) /\ Len(one) = 1
      BY <1>4, <1>7, <2>1, <2>2 DEF Appended
    <2>4. Recorded(one, p, 0) = Recorded(nothing, p, 0) + Counts(e, "WalletDeposited", p)
                                - Counts(e, "MinutesPurchased", p)
      BY <1>5, <2>2, <2>3, RecordedAppend
    <2>5. /\ Counts(e, "WalletDeposited", p) = IF p = q THEN d ELSE 0
          /\ Counts(e, "MinutesPurchased", p) = 0
      BY <2>1 DEF Counts, Deposited
    <2>6. QED
      BY <1>5, <2>3, <2>4, <2>5
  <1>8. ASSUME NEW q \in Players, NEW d \in Deposits, Funded(q, d)
        PROVE  Accounted(p)
    <2>1. d \in Nat
      BY Amounts
    <2>2. Recorded(log, p, 0) = IF p = q THEN d ELSE 0
      BY <1>7, <1>8, <2>1 DEF Funded
    <2>3. wallet[p] = IF p = q THEN d ELSE NoRow
      BY <1>8 DEF Funded
    <2>4. CASE p = q
      <3>1. wallet[p] = d /\ wallet[p] # NoRow
        BY <2>1, <2>3, <2>4, NoRowApart
      <3>2. QED
        BY <1>3, <2>1, <2>2, <2>4, <3>1, BalanceIs
    <2>5. CASE p # q
      BY <1>3, <2>1, <2>2, <2>3, <2>5, BalanceIs
    <2>6. QED
      BY <2>4, <2>5
  <1>9. ASSUME NEW q \in Players, NEW s \in Sessions, NEW d \in Deposits, NEW m \in Minutes, Playing(q, s, d, m)
        PROVE  Accounted(p)
    <2> DEFINE bought == [type |-> "MinutesPurchased", stream |-> WalletStream(q), version |-> 2,
                          player |-> q, amount |-> Cost(m)]
               started == [type |-> "SessionStarted", stream |-> SessionStream(s), version |-> 1,
                           player |-> q, amount |-> m]
    <2>1. PICK c : c = Cost(m)
      OBVIOUS
    <2>2. d \in Nat /\ m \in Nat /\ c \in Nat
      BY <2>1, Amounts, CostType
    <2>3. PICK one : one = <<Deposited(q, d)>>
      OBVIOUS
    <2>4. PICK e : e = bought
      OBVIOUS
    <2>5. PICK f : f = started
      OBVIOUS
    <2>6. e \in Events /\ f \in Events
      BY <2>1, <2>2, <2>4, <2>5 DEF Events, Appends, Streams, Aggregates, WalletStream, SessionStream
    <2>7. /\ Counts(e, "WalletDeposited", p) = 0
          /\ Counts(e, "MinutesPurchased", p) = IF p = q THEN c ELSE 0
          /\ Counts(f, "WalletDeposited", p) = 0 /\ Counts(f, "MinutesPurchased", p) = 0
      BY <2>1, <2>4, <2>5 DEF Counts
    <2>8. PICK two : two = Append(one, e)
      OBVIOUS
    <2>9. log = Append(two, f)
      BY <1>9, <2>3, <2>4, <2>5, <2>8 DEF Playing
    <2> HIDE DEF bought, started
    <2>10. /\ one \in Seq(Events) /\ 0 \in 0..Len(one)
           /\ Recorded(one, p, 0) = IF p = q THEN d ELSE 0
      BY <1>7, <2>2, <2>3
    <2>11. two \in Seq(Events) /\ 0 \in 0..Len(two) /\ Appended(two, one, e)
      BY <2>6, <2>8, <2>10, AppendProperties DEF Appended
    <2>12. Recorded(two, p, 0) = Recorded(one, p, 0) + 0 - (IF p = q THEN c ELSE 0)
      BY <2>6, <2>7, <2>10, <2>11, RecordedAppend
    <2>13. PICK all : all = log
      OBVIOUS
    <2>14. Appended(all, two, f)
      BY <2>9, <2>13 DEF Appended
    <2>15. Recorded(two, p, 0) \in Int /\ Recorded(all, p, 0) = Recorded(two, p, 0) + 0 - 0
      BY <2>6, <2>7, <2>11, <2>14, RecordedAppend
    <2>16. wallet[p] = IF p = q THEN d - c ELSE NoRow
      BY <1>9, <2>1 DEF Playing
    <2>17. CASE p = q
      BY <1>3, <2>2, <2>10, <2>12, <2>13, <2>15, <2>16, <2>17, NoRowApart DEF Balance
    <2>18. CASE p # q
      BY <1>3, <2>2, <2>10, <2>12, <2>13, <2>15, <2>16, <2>18, NoRowApart DEF Balance
    <2>19. QED
      BY <2>17, <2>18
  <1>10. QED
    BY <1>6, <1>8, <1>9 DEF Init

(***************************************************************************)
(* The initial states.                                                     *)
(***************************************************************************)

LEMMA NothingLogged == <<>> \in Seq(Events) /\ Consecutive(<<>>) /\ \A stream : RowsIn(<<>>, stream) = {}
  <1>1. <<>> \in Seq(Events) /\ DOMAIN <<>> = {}
    OBVIOUS
  <1>2. \A stream : RowsIn(<<>>, stream) = {}
    BY DEF RowsIn
  <1>3. Cardinality({}) = 0 /\ 1..0 = {}
    BY FS_EmptySet
  <1>4. QED
    BY <1>1, <1>2, <1>3 DEF Consecutive

\* A deposit before the first call, and a purchase after it.
LEMMA DepositLogged ==
    ASSUME NEW p \in Players, NEW d \in Nat
    PROVE  /\ <<Deposited(p, d)>> \in Seq(Events) /\ Consecutive(<<Deposited(p, d)>>)
           /\ Cardinality(RowsIn(<<Deposited(p, d)>>, WalletStream(p))) = 1
           /\ \A stream : stream # WalletStream(p) => RowsIn(<<Deposited(p, d)>>, stream) = {}
  <1> DEFINE e == Deposited(p, d)
             nothing == <<>>
             one == Append(nothing, e)
  <1>1. e \in Events /\ e.version = 1 /\ e.stream = WalletStream(p)
    BY DEF Deposited, Events, Appends, Streams, Aggregates, WalletStream
  <1>2. /\ nothing \in Seq(Events) /\ Consecutive(nothing)
        /\ \A stream : RowsIn(nothing, stream) = {}
    BY NothingLogged, Zenon
  <1>3. one = <<Deposited(p, d)>>
    OBVIOUS
  <1> HIDE DEF e, nothing
  <1>4. Cardinality(RowsIn(nothing, e.stream)) = 0
    BY <1>2, FS_EmptySet, Zenon
  <1>5. e.version = Cardinality(RowsIn(nothing, e.stream)) + 1
    BY <1>1, <1>4
  <1>6. /\ one \in Seq(Events) /\ Consecutive(one)
        /\ Cardinality(RowsIn(one, e.stream)) = Cardinality(RowsIn(nothing, e.stream)) + 1
        /\ \A stream : stream # e.stream => RowsIn(one, stream) = RowsIn(nothing, stream)
    BY <1>1, <1>2, <1>5, AppendKeeps, Zenon
  <1> HIDE DEF one
  <1>7. Cardinality(RowsIn(one, WalletStream(p))) = 1
    BY <1>1, <1>4, <1>6
  <1>8. QED
    BY <1>1, <1>2, <1>3, <1>6, <1>7, Zenon

LEMMA PurchaseLogged ==
    ASSUME NEW p \in Players, NEW s \in Sessions, NEW d \in Nat, NEW m \in Nat, Playing(p, s, d, m)
    PROVE  log \in Seq(Events) /\ Consecutive(log)
  <1> DEFINE first == <<Deposited(p, d)>>
             bought == [type |-> "MinutesPurchased", stream |-> WalletStream(p), version |-> 2,
                        player |-> p, amount |-> Cost(m)]
             started == [type |-> "SessionStarted", stream |-> SessionStream(s), version |-> 1,
                         player |-> p, amount |-> m]
  <1>1. bought \in Events /\ bought.version = 2 /\ bought.stream = WalletStream(p)
    BY CostType DEF Events, Appends, Streams, Aggregates, WalletStream
  <1>2. started \in Events /\ started.version = 1 /\ started.stream = SessionStream(s)
    BY DEF Events, Appends, Streams, Aggregates, SessionStream
  <1>3. log = Append(Append(first, bought), started)
    BY DEF Playing
  <1>4. WalletStream(p) # SessionStream(s)
    BY DEF WalletStream, SessionStream
  <1> HIDE DEF first, bought, started
  <1>5. /\ first \in Seq(Events) /\ Consecutive(first) /\ Cardinality(RowsIn(first, bought.stream)) = 1
        /\ RowsIn(first, started.stream) = {}
    BY <1>1, <1>2, <1>4, DepositLogged DEF first
  <1>6. bought.version = Cardinality(RowsIn(first, bought.stream)) + 1
    BY <1>1, <1>5
  <1>7. /\ Append(first, bought) \in Seq(Events) /\ Consecutive(Append(first, bought))
        /\ RowsIn(Append(first, bought), started.stream) = {}
    BY <1>1, <1>2, <1>4, <1>5, <1>6, AppendKeeps
  <1>8. started.version = Cardinality(RowsIn(Append(first, bought), started.stream)) + 1
    BY <1>2, <1>7, FS_EmptySet
  <1>9. QED
    BY <1>2, <1>3, <1>7, <1>8, AppendKeeps

\* All the inductive invariants together.
EconomyInv ==
    /\ TablesOK /\ LogOK /\ RequestsOK /\ BoundsOK /\ Owned
    /\ VersionsInv /\ StaleStays /\ DebitInv /\ SessionInv /\ PlaceInv

LEMMA EconomyInit == Init => EconomyInv
  <1> SUFFICES ASSUME Init PROVE EconomyInv
    OBVIOUS
  <1>1. /\ best = [p \in Players |-> NoRow] /\ position = [x \in Projectors |-> 0]
        /\ pc = [r \in Requests |-> "idle"] /\ req = [r \in Requests |-> NoRequest]
        /\ seen = [r \in Requests |-> NoRow] /\ version = [r \in Requests |-> 0]
        /\ stopped = {} /\ stale = {} /\ rebuilds = [x \in Projectors |-> 0] /\ faults = 0
    BY DEF Init
  <1>2. RequestsOK /\ BoundsOK /\ StaleStays /\ PlaceInv
    <2>1. NoRequest \in RequestRecords
      BY DEF NoRequest, RequestRecords
    <2>2. pc \in [Requests -> Labels] /\ \A r \in Requests : Asked(r)
      BY <1>1 DEF Labels, Asked, NeedsSession
    <2>3. RequestsOK
      BY <1>1, <2>1, <2>2 DEF RequestsOK
    <2>4. BoundsOK /\ StaleStays /\ PlaceInv
      BY <1>1 DEF BoundsOK, StaleStays, PlaceInv
    <2>5. QED
      BY <2>3, <2>4
  <1>3. NoSession \in SessionRecords /\ NoSession.status = "none"
    BY DEF NoSession, SessionRecords
  \* What the three kinds of initial states have in common.
  <1>4. ASSUME wallet \in [Players -> Int \cup {NoRow}],
               \A p \in Players : wallet[p] # NoRow => wallet[p] >= 0,
               session \in [Sessions -> SessionRecords],
               \A s \in Sessions : session[s] # NoSession => session[s].player \in Players,
               \A p \in Players : \A s, t \in Active(p) : s = t,
               log \in Seq(Events), Consecutive(log)
        PROVE  EconomyInv
    <2>1. Len(log) \in Nat
      BY <1>4, LenProperties
    <2>2. TablesOK /\ LogOK /\ Owned
      BY <1>1, <1>4, <2>1 DEF TablesOK, LogOK, Owned
    <2>3. VersionsInv
      BY <1>1, <1>4 DEF VersionsInv
    <2>4. DebitInv
      BY <1>1, <1>4 DEF DebitInv, NoOverdraft
    <2>5. SessionInv
      BY <1>1, <1>4 DEF SessionInv
    <2>6. QED
      BY <1>2, <2>2, <2>3, <2>4, <2>5 DEF EconomyInv
  <1>5. CASE Fresh
    BY <1>3, <1>4, <1>5, NothingLogged DEF Fresh, Active
  <1>6. ASSUME NEW p \in Players, NEW d \in Deposits, Funded(p, d) PROVE EconomyInv
    <2>1. d \in Nat /\ d >= 0 /\ d \in Int
      BY Amounts
    <2>2. log \in Seq(Events) /\ Consecutive(log)
      BY <1>6, <2>1, DepositLogged DEF Funded
    <2>3. wallet \in [Players -> Int \cup {NoRow}] /\ \A q \in Players : wallet[q] # NoRow => wallet[q] >= 0
      BY <1>6, <2>1 DEF Funded
    <2>4. session = [s \in Sessions |-> NoSession]
      BY <1>6 DEF Funded
    <2>5. QED
      BY <1>3, <1>4, <2>2, <2>3, <2>4 DEF Active
  <1>7. ASSUME NEW p \in Players, NEW s \in Sessions, NEW d \in Deposits, NEW m \in Minutes, Playing(p, s, d, m)
        PROVE  EconomyInv
    <2> DEFINE c == Cost(m)
               new == [status |-> "active", player |-> p, minutes |-> m]
    <2>1. d \in Nat /\ m \in Nat /\ c \in Nat /\ d >= c
      BY <1>7, Amounts, CostType DEF Playing
    <2>2. log \in Seq(Events) /\ Consecutive(log)
      BY <1>7, <2>1, PurchaseLogged
    <2>3. wallet = [q \in Players |-> IF q = p THEN d - c ELSE NoRow]
          /\ session = [t \in Sessions |-> IF t = s THEN new ELSE NoSession]
      BY <1>7 DEF Playing
    <2>4. new \in SessionRecords /\ new.player = p
      BY <2>1 DEF SessionRecords
    <2> HIDE DEF c, new
    <2>5. d - c \in Int /\ d - c >= 0
      BY <2>1
    <2>6. wallet \in [Players -> Int \cup {NoRow}] /\ \A q \in Players : wallet[q] # NoRow => wallet[q] >= 0
      BY <2>3, <2>5
    <2>7. /\ session \in [Sessions -> SessionRecords]
          /\ \A t \in Sessions : session[t] # NoSession => session[t].player \in Players
          /\ \A q \in Players : \A t, u \in Active(q) : t = u
      BY <1>3, <2>3, <2>4 DEF Active
    <2>8. QED
      BY <1>4, <2>2, <2>6, <2>7
  <1>8. QED
    BY <1>5, <1>6, <1>7 DEF Init

LEMMA EconomyNext == EconomyInv /\ [Next]_vars => EconomyInv'
  <1> SUFFICES ASSUME EconomyInv, [Next]_vars PROVE EconomyInv'
    OBVIOUS
  <1>1. /\ TablesOK /\ LogOK /\ RequestsOK /\ BoundsOK /\ Owned
        /\ VersionsInv /\ StaleStays /\ DebitInv /\ SessionInv /\ PlaceInv /\ Consecutive(log)
    BY DEF EconomyInv, VersionsInv
  <1>2. TablesOK' /\ LogOK' /\ RequestsOK' /\ BoundsOK' /\ Owned'
    BY <1>1, TablesNext, LogNext, RequestsNext, BoundsNext, OwnedNext
  <1>3. VersionsInv' /\ StaleStays' /\ DebitInv' /\ SessionInv' /\ PlaceInv'
    BY <1>1, VersionsNext, StaleNext, DebitInvNext, SessionInvNext, PlaceInvNext
  <1>4. QED
    BY <1>2, <1>3 DEF EconomyInv

\* The inductive invariant of the economy holds in every reachable state.
THEOREM Invariance == Spec => []EconomyInv
  BY EconomyInit, EconomyNext, PTL DEF Spec

\* economy.ts and the projectors of its tables: every variable keeps its type,
\* whatever requests throw, die or overlap; a request has a player, and a session
\* where it needs one, by the time it uses it.
THEOREM TypeCorrect == Spec => []TypeOK
  <1>1. EconomyInv => TypeOK
    BY TypeParts DEF EconomyInv, TypeInv
  <1>2. QED
    BY <1>1, Invariance, PTL

\* createEvent in economy.ts: a stream's versions count its events, without a
\* gap and none twice, although the version is read in one statement and
\* inserted in another, for any number of requests.
THEOREM VersionsCountEvents == Spec => []VersionsConsecutive
  <1>1. EconomyInv => VersionsConsecutive
    BY DEF EconomyInv, VersionsInv, Consecutive, VersionsConsecutive, Rows, RowsIn
  <1>2. QED
    BY <1>1, Invariance, PTL

\* economy.ts and the wallet projector: while no rebuild of the wallets has been
\* asked for, a balance is the deposits, the rewards and the purchases on the
\* log, the deposits and rewards the projector has added once more, and what
\* requests have moved and not recorded, whatever throws, dies or overlaps.
THEOREM BalancesAreAccounted == Spec => []BalanceAccounted
  <1>1. Init => BalanceAccounted
    BY AccountedInit, AccountedIs
  <1>2. EconomyInv /\ EconomyInv' /\ BalanceAccounted /\ [Next]_vars => BalanceAccounted'
    <2> SUFFICES ASSUME EconomyInv, EconomyInv', BalanceAccounted, [Next]_vars
                 PROVE  BalanceAccounted'
      OBVIOUS
    <2>1. TablesOK /\ LogOK /\ RequestsOK /\ RequestsOK' /\ BoundsOK
      BY DEF EconomyInv
    <2>2. \A p \in Players : rebuilds["wallet"] = 0 => Accounted(p)
      BY AccountedIs
    <2>3. ASSUME NEW p \in Players, rebuilds'["wallet"] = 0 PROVE Accounted(p)'
      BY <2>1, <2>2, <2>3, AccountedStep
    <2>4. QED
      BY <2>3, AccountedIsNext
  <1>3. QED
    BY <1>1, <1>2, Invariance, PTL DEF Spec

\* POST_purchaseMinutes in economy.ts: no purchase overdraws a wallet unless
\* another one, or a rebuild, came between its check and its decrement; credits
\* and the projector in between do no harm.
THEOREM OverdraftNeedsARace == Spec => []NoOverdraft
  <1>1. EconomyInv => NoOverdraft
    BY DEF EconomyInv, DebitInv
  <1>2. QED
    BY <1>1, Invariance, PTL

\* POST_purchaseMinutes in economy.ts: a player has one active session unless
\* two of the player's purchases both looked for it before either created it.
THEOREM SecondSessionNeedsARace == Spec => []OneActiveSession
  <1>1. ASSUME EconomyInv, NEW p \in Players, ~ ActedOnStale("create", p)
        PROVE  Cardinality(Active(p)) <= 1
    <2>1. \A s, t \in Active(p) : s = t
      BY <1>1 DEF EconomyInv, SessionInv
    <2>2. CASE Active(p) = {}
      BY <2>2, FS_EmptySet
    <2>3. CASE Active(p) # {}
      <3>1. PICK s \in Active(p) : Active(p) = {s}
        BY <2>1, <2>3
      <3>2. QED
        BY <3>1, FS_Singleton
    <2>4. QED
      BY <2>2, <2>3
  <1>2. EconomyInv => OneActiveSession
    BY <1>1 DEF OneActiveSession
  <1>3. QED
    BY <1>2, Invariance, PTL

\* POST_endSession in economy.ts: a request lowers no score on the leaderboard
\* unless it acts on an entry that changed after it was compared; otherwise only
\* the projector and a rebuild do.
THEOREM PlacesOnlyRise == Spec => ScoresOnlyRise
  <1> DEFINE Rises == \A p \in Players :
               best[p] # NoRow /\ best'[p] # best[p]
                 => \/ best'[p] # NoRow /\ best'[p] > best[p]
                    \/ position' # position \/ rebuilds' # rebuilds
                    \/ \E r \in Requests : /\ <<r, "place">> \in stale /\ req[r].player = p
                                           /\ pc[r] = "place" /\ pc'[r] # "place"
  <1>1. ASSUME EconomyInv, [Next]_vars, NEW p \in Players, best[p] # NoRow, best'[p] # best[p]
        PROVE  \/ best'[p] # NoRow /\ best'[p] > best[p]
               \/ position' # position \/ rebuilds' # rebuilds
               \/ \E r \in Requests : /\ <<r, "place">> \in stale /\ req[r].player = p
                                      /\ pc[r] = "place" /\ pc'[r] # "place"
    <2>1. TablesOK /\ LogOK /\ RequestsOK /\ BoundsOK /\ PlaceInv
      BY <1>1 DEF EconomyInv
    <2>2. CASE Placed(p)
      <3>1. PICK r \in Requests :
               /\ pc[r] = "place" /\ req[r].player = p
               /\ best'[p] = req[r].amount /\ pc'[r] # "place"
        BY <2>2 DEF Placed
      <3>2. CASE <<r, "place">> \in stale
        BY <3>1, <3>2
      <3>3. CASE best[p] = seen[r] /\ Beats(req[r].amount, seen[r])
        <4>1. req[r].amount > best[p] /\ req[r].amount \in Nat
          BY <1>1, <2>1, <3>3, RequestType DEF Beats
        <4>2. QED
          BY <3>1, <4>1
      <3>4. QED
        BY <2>1, <3>1, <3>2, <3>3 DEF PlaceInv
    <2>3. QED
      BY <1>1, <2>1, <2>2, PlaceMoves
  <1>2. EconomyInv /\ [Next]_vars => [Rises]_vars
    BY <1>1
  <1>3. QED
    BY <1>2, Invariance, PTL DEF Spec, ScoresOnlyRise

=============================================================================
