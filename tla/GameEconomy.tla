----------------------------- MODULE GameEconomy -----------------------------
(***************************************************************************)
(* The routes of the game economy, which deposit money, sell minutes and   *)
(* end sessions, beside the two projectors that write the same tables from *)
(* the events those routes append.  No route opens a transaction: each     *)
(* statement is a step, and what a request did before it throws or dies    *)
(* stays.  There is one game.                                              *)
(*                                                                         *)
(* A projector handles the log in order, each event once: how its engine   *)
(* may fail to is the subject of ProjectionEngine.                         *)
(***************************************************************************)
EXTENDS Integers, Sequences, FiniteSets, FiniteSetsExt, Functions

CONSTANTS
    Requests,        \* calls of deposit, purchaseMinutes and endSession
    Players, Sessions,
    Deposits,        \* the amounts deposited
    Minutes,         \* the numbers of minutes bought
    Scores,          \* the scores submitted
    CostPerMinute,   \* costPerMinute in the code
    MaxReward,       \* the reward's cap in the code
    NoRow,           \* there is no row, or nothing yet
    Begun,           \* do players begin with a deposit or a session?
    MaxFaults,       \* bound: requests that die
    MaxRebuilds      \* bound: rebuilds of a projector

Projectors == {"wallet", "board"}

ASSUME EconomyAssumption ==
    /\ IsFiniteSet(Requests)
    /\ Deposits \cup Minutes \cup Scores \subseteq Nat
    /\ CostPerMinute \in Nat /\ MaxReward \in Nat
    /\ NoRow \notin Int \cup Players \cup Sessions \cup Requests
    /\ Begun \in BOOLEAN /\ MaxFaults \in Nat /\ MaxRebuilds \in Nat

VARIABLES
    wallet,      \* WalletReadModel: each player's balance
    session,     \* SessionReadModel: status, player and minutes
    best,        \* LeaderboardEntry: each player's score
    log,         \* EventRecord, in the order of its ids
    position,    \* how far each projector has handled the log
    pc,          \* what each request does next
    req,         \* what it was asked: player, session, amount
    seen,        \* the leaderboard score it compared with
    version,     \* the stream version it is about to insert, 0 before it reads it
    stopped,     \* the requests that threw or died where they are
    stale,       \* history: a request's read, outdated before it acted on it
    rebuilds, faults   \* history: how many so far

tables == <<wallet, session, best>>
request == <<pc, req, seen, version, stopped>>
bounds == <<rebuilds, faults>>
vars == <<tables, log, position, request, stale, bounds>>

NoSession == [status |-> "none", player |-> NoRow, minutes |-> 0]
NoRequest == [player |-> NoRow, session |-> NoRow, amount |-> 0]

Cost(minutes) == minutes * CostPerMinute
Reward(score) == IF score \div 10 < MaxReward THEN score \div 10 ELSE MaxReward

WalletStream(p) == <<"WalletAggregate", p>>
SessionStream(s) == <<"SessionAggregate", s>>

Deposited(p, d) == [type |-> "WalletDeposited", stream |-> WalletStream(p), version |-> 1,
                    player |-> p, amount |-> d]

\* Nobody has deposited yet.
Fresh ==
    /\ wallet = [p \in Players |-> NoRow]
    /\ session = [s \in Sessions |-> NoSession]
    /\ log = <<>>

\* A player has deposited.
Funded(p, d) ==
    /\ wallet = [q \in Players |-> IF q = p THEN d ELSE NoRow]
    /\ session = [s \in Sessions |-> NoSession]
    /\ log = <<Deposited(p, d)>>

\* A player has deposited and bought a session.
Playing(p, s, d, m) ==
    /\ d >= Cost(m)
    /\ wallet = [q \in Players |-> IF q = p THEN d - Cost(m) ELSE NoRow]
    /\ session = [t \in Sessions |-> IF t = s THEN [status |-> "active", player |-> p, minutes |-> m]
                                             ELSE NoSession]
    /\ log = << Deposited(p, d),
                [type |-> "MinutesPurchased", stream |-> WalletStream(p), version |-> 2,
                 player |-> p, amount |-> Cost(m)],
                [type |-> "SessionStarted", stream |-> SessionStream(s), version |-> 1,
                 player |-> p, amount |-> m] >>

\* The first requests, or later ones while the projectors have yet to run.
Init ==
    /\ \/ Fresh
       \/ Begun /\ \E p \in Players, d \in Deposits : Funded(p, d)
       \/ Begun /\ \E p \in Players, s \in Sessions, d \in Deposits, m \in Minutes : Playing(p, s, d, m)
    /\ best = [p \in Players |-> NoRow]
    /\ position = [x \in Projectors |-> 0]
    /\ pc = [r \in Requests |-> "idle"]
    /\ req = [r \in Requests |-> NoRequest]
    /\ seen = [r \in Requests |-> NoRow]
    /\ version = [r \in Requests |-> 0]
    /\ stopped = {} /\ stale = {}
    /\ rebuilds = [x \in Projectors |-> 0] /\ faults = 0

\* upsert: a new row with the amount, or an increment.
Credit(p, amount) ==
    wallet' = [wallet EXCEPT ![p] = IF @ = NoRow THEN amount ELSE @ + amount]

At(r, label) == pc[r] = label /\ r \notin stopped
Goto(r, label) == pc' = [pc EXCEPT ![r] = label]

\* The request throws or dies: what it did stays, what was to follow is not done.
Stop(r) == stopped' = stopped \cup {r}

\* The player's other requests at a label act on what they read before.
Outdate(r, label, p) ==
    stale' = stale \cup {<<q, label>> : q \in {q \in Requests \ {r} :
                                                pc[q] = label /\ req[q].player = p}}

------------------------------------------------------------------------------
(* createEvent: the stream's last version is read, then the row inserted.  *)

\* The event a request at a label of this kind is about to append.
Appends == {"WalletDeposited", "MinutesPurchased", "SessionStarted",
            "SessionEnded", "ScoreVerified", "LeaderboardUpdated", "RewardDeposited"}

StreamOf(r) ==
    CASE pc[r] \in {"WalletDeposited", "MinutesPurchased", "RewardDeposited"} -> WalletStream(req[r].player)
      [] pc[r] \in {"SessionStarted", "SessionEnded"} -> SessionStream(req[r].session)
      [] pc[r] = "ScoreVerified" -> <<"ScoreAggregate", req[r].session>>
      [] pc[r] = "LeaderboardUpdated" -> <<"LeaderboardAggregate", NoRow>>

\* What the payload says: a sum of money, or a score.
AmountOf(r) == CASE pc[r] = "MinutesPurchased" -> Cost(req[r].amount)
                 [] pc[r] = "RewardDeposited" -> Reward(req[r].amount)
                 [] OTHER -> req[r].amount

EventOf(r) ==
    [type |-> IF pc[r] = "RewardDeposited" THEN "WalletDeposited" ELSE pc[r],
     stream |-> StreamOf(r), version |-> version[r],
     player |-> req[r].player, amount |-> AmountOf(r)]

Rows(stream) == {i \in DOMAIN log : log[i].stream = stream}
NextVersion(stream) == Max({log[i].version : i \in Rows(stream)} \cup {0}) + 1

\* After the leaderboard, the reward if there is one.
AfterBoard(r) == IF Reward(req[r].amount) > 0 THEN "reward" ELSE "ok"

After(r) == CASE pc[r] = "MinutesPurchased" -> "lookup"
              [] pc[r] = "SessionEnded" -> "ScoreVerified"
              [] pc[r] = "ScoreVerified" -> "compare"
              [] pc[r] = "LeaderboardUpdated" -> AfterBoard(r)
              [] OTHER -> "ok"

ReadVersion(r) ==
    /\ pc[r] \in Appends /\ r \notin stopped /\ version[r] = 0
    /\ version' = [version EXCEPT ![r] = NextVersion(StreamOf(r))]
    /\ UNCHANGED <<tables, log, position, pc, req, seen, stopped, stale, bounds>>

\* BUG (mutant): there is no unique index on (streamId, streamVersion).
Taken_NoIndex(r) == FALSE

\* The unique index on (streamId, streamVersion).
Taken(r) == \E i \in Rows(StreamOf(r)) : log[i].version = version[r]

InsertEvent(r) ==
    /\ pc[r] \in Appends /\ r \notin stopped /\ version[r] # 0 /\ ~Taken(r)
    /\ log' = Append(log, EventOf(r))
    /\ version' = [version EXCEPT ![r] = 0]
    /\ Goto(r, After(r))
    /\ UNCHANGED <<tables, position, req, seen, stopped, stale, bounds>>

\* BUG (mutant): the route swallows the conflict and goes on.
InsertConflict_Swallowed(r) ==
    /\ pc[r] \in Appends /\ r \notin stopped /\ version[r] # 0 /\ Taken(r)
    /\ version' = [version EXCEPT ![r] = 0]
    /\ Goto(r, After(r))
    /\ UNCHANGED <<tables, log, position, req, seen, stopped, stale, bounds>>

\* Another request has inserted this version: the route throws.
InsertConflict(r) ==
    /\ pc[r] \in Appends /\ r \notin stopped /\ version[r] # 0 /\ Taken(r)
    /\ Stop(r)
    /\ UNCHANGED <<tables, log, position, pc, req, seen, version, stale, bounds>>

------------------------------------------------------------------------------
(* The routes, from one createEvent to the next.                           *)

Ask(r, p, s, amount) ==
    req' = [req EXCEPT ![r] = [player |-> p, session |-> s, amount |-> amount]]

\* POST_deposit
Deposit(r, p, amount) ==
    /\ pc[r] = "idle"
    /\ Ask(r, p, NoRow, amount)
    /\ Credit(p, amount)
    /\ Goto(r, "WalletDeposited")
    /\ UNCHANGED <<session, best, log, position, seen, version, stopped, stale, bounds>>

\* BUG (mutant): the balance is compared with the minutes, not with their cost.
CanPay_Minutes(p, minutes) == wallet[p] # NoRow /\ wallet[p] >= minutes

CanPay(p, minutes) == wallet[p] # NoRow /\ wallet[p] >= Cost(minutes)

\* POST_purchaseMinutes reads the balance.  A call it answers with 402 changes
\* nothing, and is not a step.
CheckBalance(r, p, minutes) ==
    /\ pc[r] = "idle" /\ CanPay(p, minutes)
    /\ Ask(r, p, NoRow, minutes)
    /\ Goto(r, "debit")
    /\ UNCHANGED <<tables, log, position, seen, version, stopped, stale, bounds>>

\* The decrement is unconditional; without a row it throws.
Debit(r) ==
    LET p == req[r].player IN
    /\ At(r, "debit")
    /\ IF wallet[p] = NoRow
       THEN Stop(r) /\ UNCHANGED <<wallet, pc, stale>>
       ELSE /\ wallet' = [wallet EXCEPT ![p] = @ - Cost(req[r].amount)]
            /\ Outdate(r, "debit", p)
            /\ Goto(r, "MinutesPurchased")
            /\ UNCHANGED stopped
    /\ UNCHANGED <<session, best, log, position, req, seen, version, bounds>>

Active(p) == {s \in Sessions : session[s].status = "active" /\ session[s].player = p}

\* BUG (mutant): a session that is there is not found.
FindSession_Misses(r) ==
    /\ At(r, "lookup")
    /\ Goto(r, "create") /\ UNCHANGED req
    /\ UNCHANGED <<tables, log, position, seen, version, stopped, stale, bounds>>

\* findFirst of the player's active sessions: any of them.
FindSession(r) ==
    LET p == req[r].player IN
    /\ At(r, "lookup")
    /\ \/ \E s \in Active(p) : Ask(r, p, s, req[r].amount) /\ Goto(r, "extend")
       \/ Active(p) = {} /\ Goto(r, "create") /\ UNCHANGED req
    /\ UNCHANGED <<tables, log, position, seen, version, stopped, stale, bounds>>

\* The row found is extended whatever its status has become.
ExtendSession(r) ==
    /\ At(r, "extend")
    /\ session' = [session EXCEPT ![req[r].session].minutes = @ + req[r].amount]
    /\ Goto(r, "ok")
    /\ UNCHANGED <<wallet, best, log, position, req, seen, version, stopped, stale, bounds>>

\* A new row with a new id.
CreateSession(r, s) ==
    LET p == req[r].player IN
    /\ At(r, "create") /\ session[s] = NoSession
    /\ session' = [session EXCEPT ![s] = [status |-> "active", player |-> p, minutes |-> req[r].amount]]
    /\ Ask(r, p, s, req[r].amount)
    /\ Outdate(r, "create", p)
    /\ Goto(r, "SessionStarted")
    /\ UNCHANGED <<wallet, best, log, position, seen, version, stopped, bounds>>

\* POST_endSession ends the session it finds, ended or not; a call it answers
\* with 404 changes nothing.  (A session is never deleted, its player never changes.)
EndSession(r, s, score) ==
    /\ pc[r] = "idle" /\ session[s] # NoSession
    /\ Ask(r, session[s].player, s, score)
    /\ session' = [session EXCEPT ![s].status = "ended"]
    /\ Goto(r, "SessionEnded")
    /\ UNCHANGED <<wallet, best, log, position, seen, version, stopped, stale, bounds>>

\* BUG (mutant): any other score is placed, not only a higher one.
Beats_Differs(score, row) == row = NoRow \/ score # row

Beats(score, row) == IF row = NoRow THEN TRUE ELSE score > row

CompareScore(r) ==
    LET row == best[req[r].player] IN
    /\ At(r, "compare")
    /\ IF Beats(req[r].amount, row)
       THEN seen' = [seen EXCEPT ![r] = row] /\ Goto(r, "place")
       ELSE UNCHANGED seen /\ Goto(r, AfterBoard(r))
    /\ UNCHANGED <<tables, log, position, req, version, stopped, stale, bounds>>

\* create fails if there is a row by now, update if there is none any more.
PlaceScore(r) ==
    LET p == req[r].player IN
    /\ At(r, "place")
    /\ IF (seen[r] = NoRow) # (best[p] = NoRow)
       THEN Stop(r) /\ UNCHANGED <<best, pc, stale>>
       ELSE /\ best' = [best EXCEPT ![p] = req[r].amount]
            /\ Outdate(r, "place", p)
            /\ Goto(r, "LeaderboardUpdated")
            /\ UNCHANGED stopped
    /\ seen' = [seen EXCEPT ![r] = NoRow]
    /\ UNCHANGED <<wallet, session, log, position, req, version, bounds>>

PayReward(r) ==
    /\ At(r, "reward")
    /\ Credit(req[r].player, Reward(req[r].amount))
    /\ Goto(r, "RewardDeposited")
    /\ UNCHANGED <<session, best, log, position, req, seen, version, stopped, stale, bounds>>

Over(r) == r \in stopped \/ pc[r] \in {"idle", "ok"}

\* The process dies, or a statement fails.
Die(r) ==
    /\ ~Over(r) /\ faults < MaxFaults
    /\ faults' = faults + 1
    /\ Stop(r)
    /\ UNCHANGED <<tables, log, position, pc, req, seen, version, stale, rebuilds>>

------------------------------------------------------------------------------
(* The projectors.                                                         *)

\* The next event of a type: the others change nothing and are passed over.
Ahead(x, type) == {i \in DOMAIN log : i > position[x] /\ log[i].type = type}
Advance(x, i) == /\ \A j \in Ahead(x, log[i].type) : i <= j
                 /\ position' = [position EXCEPT ![x] = i]

\* WalletProjector handles withdrawals and debits too, which nothing appends.
ProjectWallet == \E i \in Ahead("wallet", "WalletDeposited") :
    /\ Advance("wallet", i)
    /\ Credit(log[i].player, log[i].amount)
    /\ UNCHANGED <<session, best, log, request, stale, bounds>>

\* LeaderboardProjector sets the score, higher or lower.
ProjectBoard == \E i \in Ahead("board", "ScoreVerified") :
    /\ Advance("board", i)
    /\ best' = [best EXCEPT ![log[i].player] = log[i].amount]
    /\ Outdate(NoRow, "place", log[i].player)
    /\ UNCHANGED <<wallet, session, log, request, bounds>>

\* BUG (mutant): the checkpoint is reset to the first row, not before it.
Restart_AtOne(x) ==
    /\ rebuilds["wallet"] + rebuilds["board"] < MaxRebuilds
    /\ rebuilds' = [rebuilds EXCEPT ![x] = @ + 1]
    /\ position' = [position EXCEPT ![x] = 1]
    /\ UNCHANGED faults

\* A rebuild empties the projector's table and handles the log from its start.
Restart(x) ==
    /\ rebuilds["wallet"] + rebuilds["board"] < MaxRebuilds
    /\ rebuilds' = [rebuilds EXCEPT ![x] = @ + 1]
    /\ position' = [position EXCEPT ![x] = 0]
    /\ UNCHANGED faults

OutdateAll(label) == stale' = stale \cup {<<q, label>> : q \in {q \in Requests : pc[q] = label}}

RebuildWallet ==
    /\ Restart("wallet")
    /\ wallet' = [p \in Players |-> NoRow]
    /\ OutdateAll("debit")
    /\ UNCHANGED <<session, best, log, request>>

RebuildBoard ==
    /\ Restart("board")
    /\ best' = [p \in Players |-> NoRow]
    /\ OutdateAll("place")
    /\ UNCHANGED <<wallet, session, log, request>>

------------------------------------------------------------------------------
Call(r) == \/ \E p \in Players : \/ \E a \in Deposits : Deposit(r, p, a)
                                 \/ \E m \in Minutes : CheckBalance(r, p, m)
           \/ \E s \in Sessions, score \in Scores : EndSession(r, s, score)

Continue(r) == \/ ReadVersion(r) \/ InsertEvent(r) \/ InsertConflict(r)
               \/ Debit(r) \/ FindSession(r) \/ ExtendSession(r)
               \/ \E s \in Sessions : CreateSession(r, s)
               \/ CompareScore(r) \/ PlaceScore(r) \/ PayReward(r)

Next == \/ \E r \in Requests : Call(r) \/ Continue(r) \/ Die(r)
        \/ ProjectWallet \/ ProjectBoard \/ RebuildWallet \/ RebuildBoard

Spec == Init /\ [][Next]_vars

------------------------------------------------------------------------------
(* Properties.                                                             *)

Labels == Appends \cup {"idle", "debit", "lookup", "extend", "create", "compare",
                        "place", "reward", "ok"}

\* Every variable has its type: balances may be negative, a projector is never
\* past the end of the log, and an event's version is a positive number.
TypeOK ==
    /\ wallet \in [Players -> Int \cup {NoRow}]
    /\ session \in [Sessions -> [status : {"none", "active", "ended"},
                                 player : Players \cup {NoRow}, minutes : Nat]]
    /\ best \in [Players -> Nat \cup {NoRow}]
    /\ \A i \in DOMAIN log : /\ log[i].type \in Appends /\ log[i].version \in Nat \ {0}
                             /\ log[i].player \in Players /\ log[i].amount \in Nat
    /\ position \in [Projectors -> 0..Len(log)]
    /\ pc \in [Requests -> Labels]
    /\ req \in [Requests -> [player : Players \cup {NoRow},
                             session : Sessions \cup {NoRow}, amount : Nat]]
    /\ seen \in [Requests -> Nat \cup {NoRow}]
    /\ version \in [Requests -> Nat]
    /\ stopped \subseteq Requests
    /\ stale \subseteq Requests \X {"debit", "create", "place"}
    /\ rebuilds \in [Projectors -> Nat] /\ faults \in Nat

\* Two appends of one stream never get the same version, and none is left out:
\* a stream's versions count its events, however the requests interleave.
VersionsConsecutive ==
    \A i \in DOMAIN log :
        log[i].version = Cardinality({j \in Rows(log[i].stream) : j <= i})

Total(type, p, n) ==
    SumFunctionOnSet([i \in DOMAIN log |-> log[i].amount],
                     {i \in 1..n : log[i].type = type /\ log[i].player = p})

\* The money a player's requests have moved and not yet recorded, if ever.
Unrecorded(p) ==
    LET amounts == [r \in Requests |-> AmountOf(r)]
        of(labels) == {r \in Requests : pc[r] \in labels /\ req[r].player = p}
    IN SumFunctionOnSet(amounts, of({"WalletDeposited", "RewardDeposited"}))
       - SumFunctionOnSet(amounts, of({"MinutesPurchased"}))

\* Where every unit of a balance comes from, at every moment: the recorded
\* deposits and rewards, those of them the projector has handled once more, less
\* the recorded purchases, and what requests moved without recording it, those
\* that died or lost the race for a version included.  A rebuild of the wallets
\* forgets the purchases.
BalanceAccounted ==
    \A p \in Players : rebuilds["wallet"] = 0 =>
        (IF wallet[p] = NoRow THEN 0 ELSE wallet[p])
            = Total("WalletDeposited", p, Len(log)) + Total("WalletDeposited", p, position["wallet"])
              - Total("MinutesPurchased", p, Len(log)) + Unrecorded(p)

ActedOnStale(label, p) ==
    \E r \in Requests : <<r, label>> \in stale /\ pc[r] # label /\ req[r].player = p

\* No purchase overdraws a wallet (economy.ts:86), unless another purchase or a
\* rebuild came between its check and its decrement.
NoOverdraft ==
    \A p \in Players : wallet[p] # NoRow => wallet[p] >= 0 \/ ActedOnStale("debit", p)

\* A player has one active session (economy.ts:109), unless two purchases both
\* looked for it before either created it.
OneActiveSession ==
    \A p \in Players : Cardinality(Active(p)) <= 1 \/ ActedOnStale("create", p)

\* A player's place on the leaderboard only rises (economy.ts:224), except when
\* the projector handles an event, a rebuild starts over, or a request places a
\* score it had compared with an older one.
ScoresOnlyRise ==
    [][\A p \in Players :
          best[p] # NoRow /\ best'[p] # best[p]
            => \/ best'[p] # NoRow /\ best'[p] > best[p]
               \/ position' # position \/ rebuilds' # rebuilds
               \/ \E r \in Requests : /\ <<r, "place">> \in stale /\ req[r].player = p
                                      /\ pc[r] = "place" /\ pc'[r] # "place"]_vars

==============================================================================
