-------------------------- MODULE BetaCohort_proofs --------------------------
(***************************************************************************)
(* Theorems about BetaCohort, for any number of clients, users,            *)
(* invitations and runners: the types, that a cohort's stream is always a  *)
(* history the aggregate allows, and that the table of participants agrees *)
(* with it once the projector has caught up.                               *)
(***************************************************************************)
EXTENDS BetaCohort, FiniteSetTheorems, SequenceTheorems, WellFoundedInduction, TLAPS

USE CohortAssumption

EventTypes == {"created", "pending", "accepted", "revoked"}
Events == [type : EventTypes, invitation : Keys, user : Users \cup {NoOne}]
Commands == [type : States, invitation : Keys, user : Users \cup {NoOne}]

------------------------------------------------------------------------------
(* The inductive invariants.                                               *)

\* The stream and the commands under way.
StreamOK ==
    /\ log \in Seq(Events)
    /\ expired \subseteq Invitations
    /\ event \in [Clients -> Commands]
    /\ loaded \in [Clients -> Nat] /\ (\A c \in Clients : loaded[c] <= Len(log))
    /\ sent \in Nat

\* The projector's table, its checkpoint and its runners.
ProjectorOK ==
    /\ row \in [Keys -> States \cup {"created"}]
    /\ checkpoint \in Nat /\ checkpoint <= Len(log)
    /\ busy \subseteq Runners
    /\ at \in [Runners -> Nat] /\ from \in [Runners -> Nat] /\ upto \in [Runners -> Nat]
    /\ (\A w \in Runners : from[w] <= at[w] /\ at[w] <= upto[w] /\ upto[w] <= Len(log))
    /\ absent \subseteq busy /\ (\A w \in absent : Inserts(w))
    /\ missed \subseteq Keys
    /\ overlapped \in BOOLEAN /\ faults \in Nat

\* Is e legal in the state the first n events make?
LegalAfter(e, n) ==
    /\ e.type = "created" => n = 0
    /\ e.type = "pending" => CanInvite(e.user, n) /\ Status(e.invitation, n) = "none"
    /\ e.type = "accepted" => Status(e.invitation, n) = "pending" /\ e.user \in UserOf(e.invitation, n)
    /\ e.type = "revoked" => CanRevoke(e.invitation, n)

\* Each event is legal after those before it.
AllLegal == \A k \in DOMAIN log, e \in Events : log[k] = e => LegalAfter(e, k - 1)

\* What a command will save is legal after the events it has loaded.
Decided == \A c \in Clients, e \in Commands \ {NoEvent}, n \in Nat :
               event[c] = e /\ loaded[c] = n => e \in Events /\ LegalAfter(e, n)

HistoryInv == AllLegal /\ Decided

\* How far the projector is: its runner's position, or else the checkpoint.
Done(n) == IF busy = {} THEN n = checkpoint ELSE \E w \in busy : n = at[w]

\* Unless two have overlapped, one runner at most is in a batch, which begins
\* at the checkpoint.
OneRunner ==
    ~overlapped => /\ \A v, w \in busy : v = w
                   /\ \A w \in busy : from[w] = checkpoint

\* An invitation's row has a status it had after the first n events or later.
Follows(i, n) == \E k \in n..Len(log) : row[i] = Status(i, k)

\* Unless two have overlapped, the rows follow what is handled, and may be ahead
\* of it: what was handled before a crash is handled again.
RowsFollow ==
    ~overlapped => \A n \in Nat, i \in Invitations \ missed : Done(n) => Follows(i, n)

CohortInv == StreamOK /\ ProjectorOK /\ HistoryInv /\ OneRunner /\ RowsFollow

------------------------------------------------------------------------------
(* The aggregate, replayed from a longer stream.                           *)

\* A set of positions has a last one.
LEMMA LastOne ==
    ASSUME NEW n \in Nat, NEW S \in SUBSET (1..n), S # {}
    PROVE  Max(S) \in S /\ \A k \in S : k <= Max(S)
  <1> DEFINE T == {m \in Nat : n - m \in S}
             R == OpToRel(<, Nat)
  <1>1. PICK k \in S : TRUE
    OBVIOUS
  <1>2. n - k \in T
    OBVIOUS
  <1>3. \E m \in T : \A y \in T : <<y, m>> \notin R
    <2>1. IsWellFoundedOn(R, Nat)
      BY NatLessThanWellFounded
    <2> HIDE DEF R
    <2>2. T \subseteq Nat /\ T # {}
      BY <1>2
    <2> HIDE DEF T
    <2>3. QED
      BY <2>1, <2>2, WFMin
  <1>4. PICK m \in T : \A y \in T : <<y, m>> \notin R
    BY <1>3
  <1>5. \A y \in T : ~ (y < m)
    BY <1>4 DEF OpToRel
  <1>6. n - m \in S /\ \A j \in S : n - m >= j
    <2> SUFFICES ASSUME NEW j \in S PROVE n - m >= j
      OBVIOUS
    <2>1. n - j \in T
      OBVIOUS
    <2>2. QED
      BY <1>5, <2>1
  <1>7. QED
    BY <1>6 DEF Max

\* The stream's first n events are the same once more is appended, and so is
\* all that the aggregate makes of them.
LEMMA HistoryKeeps ==
    ASSUME log \in Seq(Events), log' \in Seq(Events), Len(log) <= Len(log'),
           \A k \in 1..Len(log) : log'[k] = log[k],
           NEW n \in Nat, n <= Len(log)
    PROVE  /\ \A i : Status(i, n)' = Status(i, n) /\ About(i, n)' = About(i, n)
           /\ \A i : UserOf(i, n)' = UserOf(i, n)
           /\ \A e : LegalAfter(e, n)' <=> LegalAfter(e, n)
  <1>1. \A k \in 1..n : log'[k] = log[k]
    OBVIOUS
  <1>2. \A i : About(i, n)' = About(i, n) /\ About(i, n) \subseteq 1..n
    BY <1>1 DEF About
  <1>3. ASSUME NEW i PROVE Status(i, n)' = Status(i, n) /\ UserOf(i, n)' = UserOf(i, n)
    <2>1. CASE About(i, n) = {}
      BY <1>2, <2>1 DEF Status, UserOf
    <2>2. CASE About(i, n) # {}
      <3>1. Max(About(i, n)) \in 1..n
        BY <1>2, <2>2, LastOne
      <3>2. Status(i, n)' = Status(i, n)
        BY <1>1, <1>2, <2>2, <3>1 DEF Status
      <3>3. UserOf(i, n)' = UserOf(i, n)
        BY <1>1, <1>2 DEF UserOf
      <3>4. QED
        BY <3>2, <3>3
    <2>3. QED
      BY <2>1, <2>2
  <1>4. Participants(n)' = Participants(n) /\ AcceptedCount(n)' = AcceptedCount(n)
    <2>1. Participants(n)' = Participants(n)
      BY <1>3 DEF Participants
    <2>2. {i \in Participants(n) : Status(i, n) = "accepted"}'
             = {i \in Participants(n) : Status(i, n) = "accepted"}
      BY <1>3, <2>1
    <2>3. QED
      BY <2>1, <2>2, Zenon DEF AcceptedCount
  <1>5. \A u : CanInvite(u, n)' <=> CanInvite(u, n)
    BY <1>3, <1>4 DEF CanInvite
  <1>6. QED
    BY <1>2, <1>3, <1>5 DEF LegalAfter, CanRevoke

\* The next event about an invitation is its status, and leaves the others'.
LEMMA StatusNext ==
    ASSUME log \in Seq(Events), NEW n \in Nat, n < Len(log), NEW i
    PROVE  Status(i, n + 1) = IF log[n + 1].invitation = i THEN log[n + 1].type ELSE Status(i, n)
  <1>1. CASE log[n + 1].invitation = i
    <2> DEFINE S == About(i, n + 1)
               m == n + 1
    <2>1. m \in S /\ S \subseteq 1..m /\ m \in Nat
      BY <1>1 DEF About
    <2>2. Max(S) = m
      <3> DEFINE x == Max(S)
      <3> HIDE DEF S, m
      <3>1. x \in S /\ m <= x
        BY <2>1, LastOne
      <3> HIDE DEF x
      <3>2. x \in 1..m
        BY <2>1, <3>1
      <3>3. x = m
        BY <2>1, <3>1, <3>2
      <3>4. QED
        BY <3>3 DEF x
    <2>3. QED
      BY <1>1, <2>1, <2>2 DEF Status
  <1>2. CASE log[n + 1].invitation # i
    <2>1. About(i, n + 1) = About(i, n)
      BY <1>2 DEF About
    <2>2. QED
      BY <1>2, <2>1 DEF Status
  <1>3. QED
    BY <1>1, <1>2

\* An invitation with an event has a status.
LEMMA StatusKnown ==
    ASSUME log \in Seq(Events), NEW n \in Nat, n <= Len(log), NEW i, NEW k \in 1..n,
           log[k].invitation = i
    PROVE  Status(i, n) \in EventTypes
  <1>1. k \in About(i, n) /\ About(i, n) \subseteq 1..n
    BY DEF About
  <1>2. Max(About(i, n)) \in 1..n
    BY <1>1, LastOne
  <1>3. log[Max(About(i, n))] \in Events
    BY <1>2
  <1>4. QED
    BY <1>1, <1>3 DEF Status, Events

------------------------------------------------------------------------------
(* The stream.                                                             *)

\* Nothing is taken from the stream, and no two events are put there at once.
Grows == /\ log' \in Seq(Events) /\ Len(log) <= Len(log')
         /\ \A k \in 1..Len(log) : log'[k] = log[k]

LEMMA Unchanged ==
    ASSUME StreamOK, UNCHANGED log
    PROVE  Grows
  BY DEF StreamOK, Grows

LEMMA CommandTypes ==
    ASSUME NEW i \in Invitations, NEW u \in Users, NEW type \in {"pending", "accepted", "revoked"}
    PROVE  /\ Event(type, i, u) \in Events \cap Commands
           /\ Event(type, i, u).type = type /\ Event(type, i, u).invitation = i
           /\ Event(type, i, u).user = u
  BY DEF Event, Events, Commands, EventTypes, States, Keys

LEMMA EventFields ==
    ASSUME StreamOK, NEW k \in 1..Len(log)
    PROVE  log[k] \in Events /\ log[k].type \in EventTypes /\ log[k].invitation \in Keys
  <1>1. log[k] \in Events
    BY DEF StreamOK
  <1>2. QED
    BY <1>1 DEF Events

\* A command that is decided on is legal after what it has loaded.
LEMMA DecideKeeps ==
    ASSUME StreamOK, HistoryInv, NEW c \in Clients, NEW e \in Events \cap Commands, Decide(c, e),
           LegalAfter(e, Len(log))
    PROVE  StreamOK' /\ HistoryInv' /\ Grows
  <1>1. Grows
    BY Unchanged DEF Decide
  <1>2. StreamOK'
    BY <1>1 DEF StreamOK, Decide, Grows
  <1>3. \A x, n : LegalAfter(x, n)' <=> LegalAfter(x, n)
    BY DEF Decide, LegalAfter, CanInvite, CanRevoke, AcceptedCount, Participants, UserOf, Status, About
  <1>4. AllLegal'
    BY <1>3 DEF HistoryInv, AllLegal, Decide
  <1>5. Decided'
    <2> SUFFICES ASSUME NEW d \in Clients, NEW x \in Commands \ {NoEvent}, NEW n \in Nat,
                        event'[d] = x, loaded'[d] = n
                 PROVE  x \in Events /\ LegalAfter(x, n)'
      BY DEF Decided
    <2>1. CASE d = c
      <3>1. x = e /\ n = Len(log)
        BY <2>1 DEF Decide, StreamOK
      <3>2. QED
        BY <3>1, <1>3
    <2>2. CASE d # c
      <3>1. event[d] = x /\ loaded[d] = n
        BY <2>2 DEF Decide, StreamOK
      <3>2. QED
        BY <3>1, <1>3 DEF HistoryInv, Decided
    <2>3. QED
      BY <2>1, <2>2
  <1>6. QED
    BY <1>1, <1>2, <1>4, <1>5 DEF HistoryInv

\* An id that createId returns is nobody's yet.
LEMMA InviteKeeps ==
    ASSUME StreamOK, HistoryInv, NEW c \in Clients, NEW i \in Invitations, NEW u \in Users,
           Invite(c, i, u)
    PROVE  StreamOK' /\ HistoryInv' /\ Grows
  <1> DEFINE e == Event("pending", i, u)
  <1>1. e \in Events \cap Commands /\ e.type = "pending" /\ e.invitation = i /\ e.user = u
    BY CommandTypes
  <1>2. Status(i, Len(log)) = "none"
    <2>1. About(i, Len(log)) = {}
      BY DEF Invite, Drawn, About, StreamOK
    <2>2. QED
      BY <2>1 DEF Status
  <1> HIDE DEF e
  <1>3. LegalAfter(e, Len(log))
    BY <1>1, <1>2 DEF LegalAfter, Invite
  <1>4. Decide(c, e)
    BY DEF Invite, e
  <1>5. QED
    BY <1>1, <1>3, <1>4, DecideKeeps

LEMMA AcceptKeeps ==
    ASSUME StreamOK, HistoryInv, NEW c \in Clients, NEW i \in Invitations, NEW u \in Users,
           Accept(c, i, u)
    PROVE  StreamOK' /\ HistoryInv' /\ Grows
  <1> DEFINE e == Event("accepted", i, u)
  <1>1. e \in Events \cap Commands /\ e.type = "accepted" /\ e.invitation = i /\ e.user = u
    BY CommandTypes
  <1>2. Decide(c, e)
    BY DEF Accept
  <1> HIDE DEF e
  <1>3. LegalAfter(e, Len(log))
    BY <1>1 DEF LegalAfter, Accept, CanAccept
  <1>4. QED
    BY <1>1, <1>2, <1>3, DecideKeeps

LEMMA RevokeKeeps ==
    ASSUME StreamOK, HistoryInv, NEW c \in Clients, NEW i \in Invitations, NEW u \in Users,
           Revoke(c, i, u)
    PROVE  StreamOK' /\ HistoryInv' /\ Grows
  <1> DEFINE e == Event("revoked", i, u)
  <1>1. e \in Events \cap Commands /\ e.type = "revoked" /\ e.invitation = i /\ e.user = u
    BY CommandTypes
  <1>2. Decide(c, e)
    BY DEF Revoke
  <1> HIDE DEF e
  <1>3. LegalAfter(e, Len(log))
    BY <1>1 DEF LegalAfter, Revoke
  <1>4. QED
    BY <1>1, <1>2, <1>3, DecideKeeps

\* An event that is appended is legal after the ones below it.
LEMMA AppendKeeps ==
    ASSUME StreamOK, HistoryInv, NEW e \in Events, LegalAfter(e, Len(log)), log' = Append(log, e)
    PROVE  /\ Grows
           /\ AllLegal'
           /\ \A x : \A n \in 0..Len(log) : LegalAfter(x, n)' <=> LegalAfter(x, n)
  <1>1. Grows /\ Len(log') = Len(log) + 1 /\ log'[Len(log) + 1] = e /\ Len(log) \in Nat
    BY DEF StreamOK, Grows
  <1>2. \A n \in 0..Len(log) : \A x : LegalAfter(x, n)' <=> LegalAfter(x, n)
    BY <1>1, HistoryKeeps DEF StreamOK, Grows
  <1>3. AllLegal'
    <2> SUFFICES ASSUME NEW k \in DOMAIN log', NEW x \in Events, log'[k] = x
                 PROVE  LegalAfter(x, k - 1)'
      BY DEF AllLegal
    <2>1. k \in 1..(Len(log) + 1) /\ k - 1 \in 0..Len(log)
      BY <1>1 DEF Grows
    <2>2. LegalAfter(x, k - 1)
      <3>1. CASE k = Len(log) + 1
        <4>1. x = e /\ k - 1 = Len(log)
          BY <1>1, <3>1
        <4>2. QED
          BY <4>1
      <3>2. CASE k <= Len(log)
        <4>1. k \in DOMAIN log /\ log[k] = x
          BY <1>1, <2>1, <3>2 DEF Grows, StreamOK
        <4>2. QED
          BY <4>1 DEF HistoryInv, AllLegal
      <3>3. QED
        BY <1>1, <2>1, <3>1, <3>2
    <2>3. QED
      BY <1>2, <2>1, <2>2
  <1>4. QED
    BY <1>1, <1>2, <1>3

LEMMA SaveKeeps ==
    ASSUME StreamOK, HistoryInv, NEW c \in Clients, Save(c)
    PROVE  StreamOK' /\ HistoryInv' /\ Grows
  <1>1. event[c] \in Events /\ LegalAfter(event[c], loaded[c])
    BY DEF Save, HistoryInv, Decided, StreamOK
  <1>2. /\ Grows /\ AllLegal'
        /\ \A x : \A n \in 0..Len(log) : LegalAfter(x, n)' <=> LegalAfter(x, n)
    <2>1. CASE Current(c)
      BY <1>1, <2>1, AppendKeeps DEF Save, Current
    <2>2. CASE ~ Current(c)
      <3>1. log' = log
        BY <2>2 DEF Save
      <3>2. \A x, n : LegalAfter(x, n)' <=> LegalAfter(x, n)
        BY <3>1 DEF LegalAfter, CanInvite, CanRevoke, AcceptedCount, Participants, UserOf, Status, About
      <3>3. QED
        BY <3>1, <3>2, Unchanged DEF HistoryInv, AllLegal
    <2>3. QED
      BY <2>1, <2>2
  <1>3. NoEvent \in Commands
    BY DEF NoEvent, Commands, States, Keys
  <1>4. StreamOK'
    BY <1>2, <1>3 DEF StreamOK, Save, Grows
  <1>5. Decided'
    <2> SUFFICES ASSUME NEW d \in Clients, NEW x \in Commands \ {NoEvent}, NEW n \in Nat,
                        event'[d] = x, loaded'[d] = n
                 PROVE  x \in Events /\ LegalAfter(x, n)'
      BY DEF Decided
    <2>1. event[d] = x /\ loaded[d] = n /\ n \in 0..Len(log)
      BY DEF Save, StreamOK
    <2>2. QED
      BY <1>2, <2>1 DEF HistoryInv, Decided
  <1>6. QED
    BY <1>2, <1>4, <1>5 DEF HistoryInv

LEMMA CreateKeeps ==
    ASSUME StreamOK, HistoryInv, Create
    PROVE  StreamOK' /\ HistoryInv' /\ Grows
  <1> DEFINE e == Event("created", NoOne, NoOne)
  <1>1. e \in Events /\ LegalAfter(e, Len(log)) /\ log' = Append(log, e)
    BY DEF Create, Event, Events, EventTypes, Keys, LegalAfter
  <1> HIDE DEF e
  <1>2. /\ Grows /\ AllLegal'
        /\ \A x : \A n \in 0..Len(log) : LegalAfter(x, n)' <=> LegalAfter(x, n)
    BY <1>1, AppendKeeps
  <1>3. StreamOK'
    BY <1>2 DEF StreamOK, Create, Grows, command
  <1>4. Decided'
    <2> SUFFICES ASSUME NEW d \in Clients, NEW x \in Commands \ {NoEvent}, NEW n \in Nat,
                        event'[d] = x, loaded'[d] = n
                 PROVE  x \in Events /\ LegalAfter(x, n)'
      BY DEF Decided
    <2>1. event[d] = x /\ loaded[d] = n /\ n \in 0..Len(log)
      BY DEF Create, command, StreamOK
    <2>2. QED
      BY <1>2, <2>1 DEF HistoryInv, Decided
  <1>5. QED
    BY <1>2, <1>3, <1>4 DEF HistoryInv

\* Neither time nor the projector writes the stream.
LEMMA QuietKeeps ==
    ASSUME StreamOK, HistoryInv, UNCHANGED <<log, command>>,
           UNCHANGED expired \/ \E i \in Invitations : Expire(i)
    PROVE  StreamOK' /\ HistoryInv' /\ Grows
  <1>1. Grows
    BY Unchanged
  <1>2. StreamOK'
    BY <1>1 DEF StreamOK, Grows, command, Expire
  <1>3. \A x, n : LegalAfter(x, n)' <=> LegalAfter(x, n)
    BY DEF LegalAfter, CanInvite, CanRevoke, AcceptedCount, Participants, UserOf, Status, About
  <1>4. QED
    BY <1>1, <1>2, <1>3 DEF HistoryInv, AllLegal, Decided, command

\* Whatever step runs, the stream stays a legal history.
LEMMA StreamNext ==
    ASSUME StreamOK, HistoryInv, [Next]_vars
    PROVE  StreamOK' /\ HistoryInv' /\ Grows
  <1>1. CASE Create
    BY <1>1, CreateKeeps
  <1>2. ASSUME NEW c \in Clients, Save(c) PROVE StreamOK' /\ HistoryInv' /\ Grows
    BY <1>2, SaveKeeps
  <1>3. ASSUME NEW c \in Clients, NEW i \in Invitations, NEW u \in Users,
               Invite(c, i, u) \/ Accept(c, i, u) \/ Revoke(c, i, u)
        PROVE  StreamOK' /\ HistoryInv' /\ Grows
    BY <1>3, InviteKeeps, AcceptKeeps, RevokeKeeps
  <1>4. ASSUME NEW i \in Invitations, Expire(i) PROVE StreamOK' /\ HistoryInv' /\ Grows
    BY <1>4, QuietKeeps DEF Expire, command
  <1>5. ASSUME NEW w \in Runners, Continue(w) \/ UpdateFails(w) \/ HandleThrows(w) \/ Die(w)
        PROVE  StreamOK' /\ HistoryInv' /\ Grows
    BY <1>5, QuietKeeps DEF Continue, ReadBatch, SaveCheckpoint, FindRow, InsertRow, InsertConflict,
                            UpdateRow, UpdateFails, HandleThrows, Break, Die
  <1>6. CASE UNCHANGED vars
    BY <1>6, QuietKeeps DEF vars
  <1>7. QED
    BY <1>1, <1>2, <1>3, <1>4, <1>5, <1>6 DEF Next

\* The aggregate's own words for it.
LEMMA LegalIsLegal == StreamOK /\ AllLegal => HistoryLegal
  <1> SUFFICES ASSUME StreamOK, AllLegal, NEW k \in DOMAIN log PROVE Legal(k)
    BY DEF HistoryLegal
  <1>1. k \in 1..Len(log) /\ log[k] \in Events /\ k - 1 \in Nat
    BY DEF StreamOK
  <1>2. LegalAfter(log[k], k - 1)
    BY <1>1 DEF AllLegal
  <1>3. log[k].type \in EventTypes
    BY <1>1 DEF Events
  <1>4. CASE log[k].type = "created"
    BY <1>1, <1>2, <1>4 DEF Legal, LegalAfter
  <1>5. CASE log[k].type = "pending"
    BY <1>2, <1>5 DEF Legal, LegalAfter
  <1>6. CASE log[k].type = "accepted"
    BY <1>2, <1>6 DEF Legal, LegalAfter
  <1>7. CASE log[k].type = "revoked"
    BY <1>2, <1>7 DEF Legal, LegalAfter
  <1>8. QED
    BY <1>3, <1>4, <1>5, <1>6, <1>7 DEF EventTypes

LEMMA StreamInit == Init => StreamOK /\ HistoryInv
  <1>1. NoEvent \in Commands
    BY DEF NoEvent, Commands, States, Keys
  <1>2. QED
    BY <1>1 DEF Init, StreamOK, HistoryInv, AllLegal, Decided

\* beta-cohort-aggregate.ts, with the event store's version check: whatever
\* commands run at the same time, the stream of a cohort is a history the
\* aggregate allows, for any number of clients, users and invitations.
THEOREM HistoryIsLegal == Spec => []HistoryLegal
  <1>1. Init => StreamOK /\ HistoryInv
    BY StreamInit
  <1>2. StreamOK /\ HistoryInv /\ [Next]_vars => (StreamOK /\ HistoryInv)'
    BY StreamNext
  <1>3. StreamOK /\ HistoryInv => HistoryLegal
    BY LegalIsLegal DEF HistoryInv
  <1>4. QED
    BY <1>1, <1>2, <1>3, PTL DEF Spec

------------------------------------------------------------------------------
(* The projector's variables.                                              *)

\* The positions of a runner, in a batch of committed events.
InBatch(w) == from[w] <= at[w] /\ at[w] <= upto[w] /\ upto[w] <= Len(log)

LEMMA BatchEnd ==
    ASSUME StreamOK, ProjectorOK, checkpoint < Len(log)
    PROVE  EndOfBatch \in Nat /\ checkpoint < EndOfBatch /\ EndOfBatch <= Len(log)
  <1> DEFINE S == {Len(log), checkpoint + BatchSize}
  <1>1. Len(log) \in Nat /\ checkpoint \in Nat /\ BatchSize \in Nat \ {0}
    BY DEF StreamOK, ProjectorOK
  <1>2. \E x \in S : \A y \in S : x <= y
    BY <1>1
  <1>3. EndOfBatch \in S /\ \A y \in S : EndOfBatch <= y
    BY <1>2 DEF EndOfBatch, Min
  <1>4. QED
    BY <1>1, <1>3

\* Until it is handled a runner's event stays the same.
LEMMA NextEventKeeps ==
    ASSUME StreamOK, ProjectorOK, Grows, NEW w \in Runners, at'[w] = at[w], upto'[w] = upto[w]
    PROVE  (Inserts(w) /\ w \in busy' => Inserts(w)') /\ (Inserts(w) => NextEvent(w)' = NextEvent(w))
  <1> SUFFICES ASSUME Inserts(w) PROVE (w \in busy' => Inserts(w)') /\ NextEvent(w)' = NextEvent(w)
    OBVIOUS
  <1>1. at[w] + 1 \in 1..Len(log)
    BY DEF Inserts, Handling, StreamOK, ProjectorOK
  <1>2. NextEvent(w)' = NextEvent(w)
    BY <1>1 DEF NextEvent, Grows
  <1>3. QED
    BY <1>2 DEF Inserts, Handling

\* The clients do not touch the projector.
LEMMA ClientsKeep ==
    ASSUME StreamOK, ProjectorOK, Grows, UNCHANGED <<row, checkpoint, runner, history>>
    PROVE  ProjectorOK'
  <1>1. \A w \in Runners : Inserts(w) /\ w \in busy' => Inserts(w)'
    BY NextEventKeeps DEF runner, ProjectorOK
  <1>2. \A w \in absent' : Inserts(w)'
    BY <1>1 DEF runner, ProjectorOK
  <1>3. \A w \in Runners : InBatch(w)'
    BY DEF ProjectorOK, StreamOK, Grows, runner, InBatch
  <1>4. checkpoint' <= Len(log')
    BY DEF ProjectorOK, StreamOK, Grows
  <1>5. QED
    BY <1>2, <1>3, <1>4 DEF ProjectorOK, runner, history, InBatch

\* A runner's step leaves the others' batches alone.
LEMMA OthersKeep ==
    ASSUME StreamOK, ProjectorOK, UNCHANGED log, NEW w \in Runners,
           at' \in [Runners -> Nat], from' \in [Runners -> Nat], upto' \in [Runners -> Nat],
           \A v \in Runners \ {w} : at'[v] = at[v] /\ from'[v] = from[v] /\ upto'[v] = upto[v],
           busy' \subseteq busy \cup {w}, busy \ {w} \subseteq busy',
           absent' \subseteq absent \cup {w}, InBatch(w)', w \in absent' => Inserts(w)'
    PROVE  /\ \A v \in Runners : InBatch(v)'
           /\ \A v \in absent' : Inserts(v)'
           /\ absent' \subseteq busy' /\ busy' \subseteq Runners
  <1>1. Grows
    BY Unchanged
  <1>2. ASSUME NEW v \in Runners, v # w PROVE InBatch(v)' /\ (v \in absent' => Inserts(v)')
    <2>1. InBatch(v)'
      BY <1>2 DEF InBatch, ProjectorOK
    <2>2. ASSUME v \in absent' PROVE Inserts(v)'
      <3>1. v \in absent /\ Inserts(v) /\ v \in busy'
        BY <1>2, <2>2 DEF ProjectorOK
      <3>2. QED
        BY <1>1, <1>2, <3>1, NextEventKeeps
    <2>3. QED
      BY <2>1, <2>2
  <1>3. \A v \in absent' : v \in Runners /\ v \in busy'
    BY DEF ProjectorOK, Inserts, Handling
  <1>4. QED
    BY <1>2, <1>3 DEF ProjectorOK

\* A batch that is over leaves its runner at nothing.
LEMMA LeaveKeeps ==
    ASSUME StreamOK, ProjectorOK, UNCHANGED log, NEW w \in busy, Leave(w)
    PROVE  /\ at' \in [Runners -> Nat] /\ from' \in [Runners -> Nat] /\ upto' \in [Runners -> Nat]
           /\ \A v \in Runners : InBatch(v)'
           /\ \A v \in absent' : Inserts(v)'
           /\ absent' \subseteq busy' /\ busy' \subseteq Runners
  <1>1. w \in Runners /\ w \notin absent'
    BY DEF ProjectorOK, Leave
  <1>2. /\ at' \in [Runners -> Nat] /\ from' \in [Runners -> Nat] /\ upto' \in [Runners -> Nat]
        /\ \A v \in Runners \ {w} : at'[v] = at[v] /\ from'[v] = from[v] /\ upto'[v] = upto[v]
        /\ at'[w] = 0 /\ from'[w] = 0 /\ upto'[w] = 0
        /\ busy' \subseteq busy \cup {w} /\ busy \ {w} \subseteq busy' /\ absent' \subseteq absent \cup {w}
    BY <1>1 DEF ProjectorOK, Leave
  <1>3. InBatch(w)'
    BY <1>2 DEF InBatch, StreamOK
  <1>4. QED
    BY <1>1, <1>2, <1>3, OthersKeep

\* An event that is handled takes its runner one further.
LEMMA AdvanceKeeps ==
    ASSUME StreamOK, ProjectorOK, UNCHANGED <<log, busy, from, upto>>, NEW w \in Runners,
           Handling(w), Advance(w), absent' = absent \ {w}
    PROVE  /\ at' \in [Runners -> Nat]
           /\ \A v \in Runners : InBatch(v)'
           /\ \A v \in absent' : Inserts(v)'
           /\ absent' \subseteq busy' /\ busy' \subseteq Runners
  <1>1. /\ at' \in [Runners -> Nat] /\ at'[w] = at[w] + 1
        /\ \A v \in Runners \ {w} : at'[v] = at[v]
    BY DEF Advance, ProjectorOK
  <1>2. InBatch(w)'
    BY <1>1 DEF InBatch, Handling, ProjectorOK, StreamOK
  <1>3. QED
    BY <1>1, <1>2, OthersKeep DEF ProjectorOK

LEMMA BreakKeeps ==
    ASSUME StreamOK, ProjectorOK, NEW w \in busy, Break(w), faults' \in Nat,
           row' \in [Keys -> States \cup {"created"}]
    PROVE  ProjectorOK'
  <1>1. /\ at' \in [Runners -> Nat] /\ from' \in [Runners -> Nat] /\ upto' \in [Runners -> Nat]
        /\ \A v \in Runners : InBatch(v)'
        /\ \A v \in absent' : Inserts(v)'
        /\ absent' \subseteq busy' /\ busy' \subseteq Runners
    BY LeaveKeeps DEF Break
  <1>2. w \in Runners /\ upto[w] \in Nat /\ at[w] \in Nat /\ upto[w] <= Len(log) /\ Len(log) \in Nat
    BY DEF ProjectorOK, StreamOK
  <1>3. checkpoint' \in Nat /\ checkpoint' <= Len(log')
    BY <1>2 DEF Break, ProjectorOK
  <1>4. missed' \subseteq Keys
    <2>1. \A k \in at[w] + 1..upto[w] : log[k].invitation \in Keys
      BY <1>2, EventFields
    <2>2. QED
      BY <2>1 DEF Break, ProjectorOK
  <1>5. QED
    BY <1>1, <1>3, <1>4 DEF ProjectorOK, InBatch, Break

\* An insertion makes its row created or pending.
LEMMA InsertionType ==
    ASSUME ProjectorOK, NEW w \in Runners, Insertion(w),
           NextEvent(w).type \in {"created", "pending"}
    PROVE  row' \in [Keys -> States \cup {"created"}]
  BY DEF Insertion, ProjectorOK, States

\* Whatever a runner does, the projector's variables have their types.
LEMMA RunnerKeeps ==
    ASSUME StreamOK, ProjectorOK, NEW w \in Runners,
           Continue(w) \/ UpdateFails(w) \/ HandleThrows(w) \/ Die(w)
    PROVE  ProjectorOK'
  <1> DEFINE Batches == /\ at' \in [Runners -> Nat] /\ \A v \in Runners : InBatch(v)'
                        /\ \A v \in absent' : Inserts(v)'
                        /\ absent' \subseteq busy' /\ busy' \subseteq Runners
  <1>1. CASE ReadBatch(w)
    <2>1. /\ EndOfBatch \in Nat /\ checkpoint < EndOfBatch /\ EndOfBatch <= Len(log) /\ Len(log) \in Nat
      BY <1>1, BatchEnd DEF ReadBatch, StreamOK
    <2>2. /\ at' \in [Runners -> Nat] /\ from' \in [Runners -> Nat] /\ upto' \in [Runners -> Nat]
          /\ at'[w] = checkpoint /\ from'[w] = checkpoint /\ upto'[w] = EndOfBatch
          /\ \A v \in Runners \ {w} : at'[v] = at[v] /\ from'[v] = from[v] /\ upto'[v] = upto[v]
      BY <1>1, <2>1 DEF ReadBatch, ProjectorOK
    <2>3. InBatch(w)' /\ w \notin absent'
      BY <1>1, <2>1, <2>2 DEF InBatch, ReadBatch, ProjectorOK
    <2>4. Batches
      BY <1>1, <2>2, <2>3, OthersKeep DEF ReadBatch
    <2>5. QED
      BY <1>1, <2>2, <2>4 DEF ReadBatch, ProjectorOK, InBatch
  <1>2. CASE SaveCheckpoint(w)
    <2>1. w \in busy /\ Leave(w) /\ upto[w] \in Nat /\ upto[w] <= Len(log)
      BY <1>2 DEF SaveCheckpoint, ProjectorOK
    <2>2. Batches /\ from' \in [Runners -> Nat] /\ upto' \in [Runners -> Nat]
      BY <1>2, <2>1, LeaveKeeps DEF SaveCheckpoint
    <2>3. QED
      BY <1>2, <2>1, <2>2 DEF SaveCheckpoint, ProjectorOK, InBatch, history
  <1>3. CASE Die(w)
    <2>1. Batches /\ from' \in [Runners -> Nat] /\ upto' \in [Runners -> Nat]
      BY <1>3, LeaveKeeps DEF Die
    <2>2. QED
      BY <1>3, <2>1 DEF Die, Fault, ProjectorOK, InBatch
  <1>4. CASE FindRow(w)
    <2>1. CASE row[Key(w)] = "none"
      <3>1. absent' = absent \cup {w} /\ UNCHANGED <<log, busy, at, from, upto>> /\ Inserts(w)
        BY <1>4, <2>1 DEF FindRow
      <3>2. InBatch(w)' /\ Inserts(w)'
        BY <3>1 DEF InBatch, ProjectorOK, Inserts, Handling, NextEvent
      <3>3. w \in busy
        BY <3>1 DEF Inserts, Handling
      <3>4. Batches
        BY <3>1, <3>2, <3>3, OthersKeep DEF ProjectorOK
      <3>5. QED
        BY <1>4, <3>1, <3>4 DEF FindRow, ProjectorOK, InBatch, history
    <2>2. CASE row[Key(w)] # "none"
      <3>1. Advance(w) /\ UNCHANGED <<log, busy, from, upto>> /\ absent' = absent \ {w} /\ Handling(w)
        BY <1>4, <2>2 DEF FindRow, Inserts
      <3>2. Batches
        BY <3>1, AdvanceKeeps
      <3>3. QED
        BY <1>4, <3>1, <3>2 DEF FindRow, ProjectorOK, InBatch, history
    <2>3. QED
      BY <2>1, <2>2
  <1>5. CASE InsertRow(w)
    <2>1. Handling(w) /\ NextEvent(w).type \in {"created", "pending"}
      BY <1>5 DEF InsertRow, Insertion, ProjectorOK, Inserts
    <2>2. Batches
      BY <1>5, <2>1, AdvanceKeeps DEF InsertRow
    <2>3. row' \in [Keys -> States \cup {"created"}]
      BY <1>5, <2>1, InsertionType DEF InsertRow
    <2>4. QED
      BY <1>5, <2>2, <2>3 DEF InsertRow, ProjectorOK, InBatch, history
  <1>6. CASE InsertConflict(w)
    BY <1>6, BreakKeeps DEF InsertConflict, ProjectorOK
  <1>7. CASE UpdateRow(w)
    <2>1. Handling(w) /\ NextEvent(w).type \in {"accepted", "revoked"} /\ absent' = absent
      BY <1>7 DEF UpdateRow, Updates
    <2>2. w \notin absent
      BY <2>1 DEF ProjectorOK, Inserts
    <2>3. Batches
      BY <1>7, <2>1, <2>2, AdvanceKeeps DEF UpdateRow
    <2>4. row' \in [Keys -> States \cup {"created"}]
      BY <1>7, <2>1 DEF UpdateRow, Updated, ProjectorOK, States
    <2>5. QED
      BY <1>7, <2>3, <2>4 DEF UpdateRow, ProjectorOK, InBatch, history
  <1>8. CASE UpdateFails(w)
    <2>1. Handling(w) /\ NextEvent(w).type \in {"accepted", "revoked"} /\ absent' = absent
      BY <1>8 DEF UpdateFails, Updates
    <2>2. w \notin absent
      BY <2>1 DEF ProjectorOK, Inserts
    <2>3. Batches
      BY <1>8, <2>1, <2>2, AdvanceKeeps DEF UpdateFails
    <2>4. Key(w) \in Keys
      <3>1. at[w] + 1 \in 1..Len(log)
        BY <2>1 DEF Handling, ProjectorOK, StreamOK
      <3>2. QED
        BY <3>1, EventFields DEF Key, NextEvent
    <2>5. QED
      BY <1>8, <2>3, <2>4 DEF UpdateFails, Fault, ProjectorOK, InBatch
  <1>9. CASE HandleThrows(w)
    <2>1. w \in busy /\ Break(w) /\ faults' \in Nat
      BY <1>9 DEF HandleThrows, Inserts, Handling, Fault, ProjectorOK
    <2>2. row' \in [Keys -> States \cup {"created"}]
      BY <1>9, InsertionType DEF HandleThrows, Inserts, ProjectorOK
    <2>3. QED
      BY <2>1, <2>2, BreakKeeps
  <1>10. QED
    BY <1>1, <1>2, <1>3, <1>4, <1>5, <1>6, <1>7, <1>8, <1>9 DEF Continue

LEMMA ProjectorNext ==
    ASSUME StreamOK, HistoryInv, ProjectorOK, [Next]_vars
    PROVE  ProjectorOK'
  <1>1. Grows
    BY StreamNext
  <1>2. CASE Create \/ (\E i \in Invitations : Expire(i)) \/ UNCHANGED vars
    BY <1>1, <1>2, ClientsKeep DEF Create, Expire, vars
  <1>3. ASSUME NEW c \in Clients, Save(c) PROVE ProjectorOK'
    BY <1>1, <1>3, ClientsKeep DEF Save
  <1>4. ASSUME NEW c \in Clients, NEW i \in Invitations, NEW u \in Users,
               Invite(c, i, u) \/ Accept(c, i, u) \/ Revoke(c, i, u)
        PROVE  ProjectorOK'
    BY <1>1, <1>4, ClientsKeep DEF Invite, Accept, Revoke, Decide
  <1>5. ASSUME NEW w \in Runners, Continue(w) \/ UpdateFails(w) \/ HandleThrows(w) \/ Die(w)
        PROVE  ProjectorOK'
    BY <1>5, RunnerKeeps
  <1>6. QED
    BY <1>2, <1>3, <1>4, <1>5 DEF Next

LEMMA ProjectorInit == Init => ProjectorOK
  <1> SUFFICES ASSUME Init PROVE ProjectorOK
    OBVIOUS
  <1>1. Len(log) = 0 /\ checkpoint = 0
    BY DEF Init
  <1>2. row \in [Keys -> States \cup {"created"}]
    BY DEF Init, States
  <1>3. /\ at \in [Runners -> Nat] /\ from \in [Runners -> Nat] /\ upto \in [Runners -> Nat]
        /\ \A w \in Runners : at[w] = 0 /\ from[w] = 0 /\ upto[w] = 0
    BY DEF Init
  <1>4. busy = {} /\ absent = {} /\ missed = {} /\ overlapped \in BOOLEAN /\ faults \in Nat
    BY DEF Init
  <1>5. \A w \in Runners : from[w] <= at[w] /\ at[w] <= upto[w] /\ upto[w] <= Len(log)
    BY <1>1, <1>3
  <1>6. checkpoint \in Nat /\ checkpoint <= Len(log)
    BY <1>1
  <1>7. QED
    BY <1>2, <1>3, <1>4, <1>5, <1>6, Zenon DEF ProjectorOK

LEMMA Types == StreamOK /\ ProjectorOK => TypeOK
  <1> SUFFICES ASSUME StreamOK, ProjectorOK PROVE TypeOK
    OBVIOUS
  <1>1. /\ Len(log) \in Nat
        /\ \A k \in DOMAIN log : log[k].type \in {"created", "pending", "accepted", "revoked"}
                                 /\ log[k].invitation \in Keys /\ log[k].user \in Users \cup {NoOne}
    <2>1. \A k \in DOMAIN log : log[k] \in Events
      BY DEF StreamOK
    <2>2. QED
      BY <2>1 DEF Events, EventTypes, StreamOK
  <1>2. loaded \in [Clients -> 0..Len(log)]
    BY DEF StreamOK
  <1>3. /\ \A w \in Runners : from[w] <= at[w] /\ at[w] <= upto[w]
        /\ at \in [Runners -> 0..Len(log)] /\ from \in [Runners -> 0..Len(log)]
        /\ upto \in [Runners -> 0..Len(log)]
    <2>1. \A w \in Runners : /\ at[w] \in Nat /\ from[w] \in Nat /\ upto[w] \in Nat
                             /\ from[w] <= at[w] /\ at[w] <= upto[w] /\ upto[w] <= Len(log)
      BY DEF ProjectorOK
    <2>2. \A w \in Runners : at[w] \in 0..Len(log) /\ from[w] \in 0..Len(log) /\ upto[w] \in 0..Len(log)
      BY <1>1, <2>1
    <2>3. QED
      BY <2>1, <2>2 DEF ProjectorOK
  <1>4. /\ event \in [Clients -> [type : States, invitation : Invitations \cup {NoOne},
                                  user : Users \cup {NoOne}]]
        /\ expired \subseteq Invitations /\ sent \in Nat
    BY DEF StreamOK, Commands, Keys
  <1>5. /\ row \in [Keys -> States \cup {"created"}] /\ checkpoint \in 0..Len(log)
        /\ busy \subseteq Runners /\ absent \subseteq busy /\ missed \subseteq Keys
        /\ overlapped \in BOOLEAN /\ faults \in Nat
    BY <1>1 DEF ProjectorOK
  <1>6. QED
    BY <1>1, <1>2, <1>3, <1>4, <1>5 DEF TypeOK, Keys

\* Every variable has its type, and nobody has read past the end of the stream,
\* for any number of clients and runners and any size of the batches.
THEOREM TypeCorrect == Spec => []TypeOK
  <1> DEFINE Inv == StreamOK /\ HistoryInv /\ ProjectorOK
  <1>1. Init => Inv
    BY StreamInit, ProjectorInit
  <1>2. Inv /\ [Next]_vars => Inv'
    BY StreamNext, ProjectorNext
  <1>3. Inv => TypeOK
    BY Types
  <1> HIDE DEF Inv
  <1>4. QED
    BY <1>1, <1>2, <1>3, PTL DEF Spec

------------------------------------------------------------------------------
(* The table of participants.                                              *)

LEMMA FollowsLonger ==
    ASSUME StreamOK, Grows, UNCHANGED row, NEW i \in Invitations, NEW n \in Nat, Follows(i, n)
    PROVE  Follows(i, n)'
  <1>1. PICK k \in n..Len(log) : row[i] = Status(i, k)
    BY DEF Follows
  <1>2. k \in n..Len(log') /\ k \in Nat /\ k <= Len(log)
    BY DEF StreamOK, Grows
  <1>3. Status(i, k)' = Status(i, k)
    BY <1>2, HistoryKeeps DEF StreamOK, Grows
  <1>4. QED
    BY <1>1, <1>2, <1>3 DEF Follows

\* What follows the first n events follows the first m, if they are fewer, or
\* if the ones between are about other invitations.
LEMMA FollowsEarlier ==
    ASSUME StreamOK, NEW i, NEW n \in Nat, NEW m \in 0..n, Follows(i, n)
    PROVE  Follows(i, m)
  BY DEF Follows, StreamOK

LEMMA FollowsPast ==
    ASSUME StreamOK, NEW i, NEW n \in Nat, NEW m \in n..Len(log), Follows(i, n),
           \A k \in (n + 1)..m : log[k].invitation # i
    PROVE  Follows(i, m)
  <1>1. PICK k \in n..Len(log) : row[i] = Status(i, k)
    BY DEF Follows
  <1>2. Len(log) \in Nat
    BY DEF StreamOK
  <1>3. CASE k >= m
    BY <1>1, <1>2, <1>3 DEF Follows
  <1>4. CASE k < m
    <2>1. About(i, k) = About(i, m)
      BY <1>4 DEF About
    <2>2. Status(i, k) = Status(i, m)
      BY <1>4, <2>1 DEF Status
    <2>3. QED
      BY <1>1, <1>2, <2>2 DEF Follows
  <1>5. QED
    BY <1>2, <1>3, <1>4

\* An insertion's invitation has no status before its event.
LEMMA NewBefore ==
    ASSUME StreamOK, AllLegal, NEW n \in Nat, n < Len(log), log[n + 1].type \in {"created", "pending"}
    PROVE  Status(log[n + 1].invitation, n) = "none"
  <1>1. n + 1 \in 1..Len(log) /\ log[n + 1] \in Events
    BY EventFields DEF StreamOK
  <1>2. LegalAfter(log[n + 1], n)
    BY <1>1 DEF AllLegal, StreamOK
  <1>3. CASE log[n + 1].type = "created"
    <2>1. n = 0
      BY <1>2, <1>3 DEF LegalAfter
    <2>2. QED
      BY <2>1 DEF Status, About
  <1>4. CASE log[n + 1].type = "pending"
    BY <1>2, <1>4 DEF LegalAfter
  <1>5. QED
    BY <1>3, <1>4

\* An update's invitation has one.
LEMMA KnownBefore ==
    ASSUME StreamOK, AllLegal, NEW n \in Nat, n < Len(log), log[n + 1].type \in {"accepted", "revoked"}
    PROVE  Status(log[n + 1].invitation, n) # "none"
  <1>1. n + 1 \in 1..Len(log) /\ log[n + 1] \in Events
    BY EventFields DEF StreamOK
  <1>2. LegalAfter(log[n + 1], n)
    BY <1>1 DEF AllLegal, StreamOK
  <1>3. QED
    BY <1>2 DEF LegalAfter, CanRevoke

\* A row that is found is ahead of the insertion, and one that is not is behind
\* no update.
LEMMA FoundIsAhead ==
    ASSUME StreamOK, AllLegal, NEW n \in Nat, n < Len(log), NEW i, log[n + 1].invitation = i,
           log[n + 1].type \in {"created", "pending"}, row[i] # "none", Follows(i, n)
    PROVE  Follows(i, n + 1)
  <1>1. PICK k \in n..Len(log) : row[i] = Status(i, k)
    BY DEF Follows
  <1>2. k # n
    BY <1>1, NewBefore
  <1>3. QED
    BY <1>1, <1>2 DEF Follows, StreamOK

LEMMA UpdateFindsRow ==
    ASSUME StreamOK, AllLegal, NEW n \in Nat, n < Len(log), NEW i, log[n + 1].invitation = i,
           log[n + 1].type \in {"accepted", "revoked"}, Follows(i, n)
    PROVE  row[i] # "none"
  <1>1. PICK k \in n..Len(log) : row[i] = Status(i, k)
    BY DEF Follows
  <1>2. CASE k = n
    BY <1>1, <1>2, KnownBefore
  <1>3. CASE k # n
    <2>1. k \in Nat /\ k <= Len(log) /\ n + 1 \in 1..k
      BY <1>3 DEF StreamOK
    <2>2. Status(i, k) \in EventTypes
      BY <2>1, StatusKnown DEF StreamOK
    <2>3. QED
      BY <1>1, <2>2 DEF EventTypes
  <1>4. QED
    BY <1>2, <1>3

\* How a step leaves the projector at rest, or one runner in a batch.
LEMMA AtRest ==
    ASSUME NEW n \in Nat, busy' = {}, checkpoint' = n,
           \A i \in Invitations \ missed' : Follows(i, n)'
    PROVE  OneRunner' /\ RowsFollow'
  <1>1. OneRunner'
    BY DEF OneRunner
  <1>2. \A m \in Nat : Done(m)' => m = n
    BY DEF Done
  <1>3. RowsFollow'
    BY <1>2 DEF RowsFollow
  <1>4. QED
    BY <1>1, <1>3

LEMMA AtEvent ==
    ASSUME NEW n \in Nat, NEW w \in Runners, busy' = {w}, at'[w] = n, from'[w] = checkpoint',
           \A i \in Invitations \ missed' : Follows(i, n)'
    PROVE  OneRunner' /\ RowsFollow'
  <1>1. OneRunner'
    BY DEF OneRunner
  <1>2. \A m \in Nat : Done(m)' => m = n
    BY DEF Done
  <1>3. RowsFollow'
    BY <1>2 DEF RowsFollow
  <1>4. QED
    BY <1>1, <1>3

\* A runner that is alone.
LEMMA AloneAt ==
    ASSUME CohortInv, ~overlapped, NEW w \in busy, NEW n, n = at[w]
    PROVE  /\ busy = {w} /\ w \in Runners /\ from[w] = checkpoint /\ n \in Nat /\ checkpoint <= n
           /\ n <= upto[w] /\ upto[w] \in Nat /\ upto[w] <= Len(log) /\ Len(log) \in Nat
           /\ \A i \in Invitations \ missed : Follows(i, n)
  <1>1. /\ w \in Runners /\ n \in Nat /\ from[w] <= n /\ n <= upto[w] /\ upto[w] \in Nat
        /\ upto[w] <= Len(log) /\ Len(log) \in Nat
    BY DEF CohortInv, ProjectorOK, StreamOK
  <1>2. busy = {w} /\ from[w] = checkpoint
    BY DEF CohortInv, OneRunner
  <1>3. Done(n)
    BY <1>2 DEF Done
  <1>4. QED
    BY <1>1, <1>2, <1>3 DEF CohortInv, RowsFollow

\* A batch that is left, after all of it or in the middle, where the event it has
\* come to may have been handled.
LEMMA LeftFollows ==
    ASSUME CohortInv, ~overlapped, NEW w \in busy, NEW n, n = at[w], UNCHANGED log,
           Leave(w), NEW m \in Nat, checkpoint' = m, missed \subseteq missed',
           \/ m <= n
           \/ /\ m = upto[w]
              /\ \A k \in (n + 1)..m : log[k].invitation \in missed',
           \A i \in Invitations \ missed' :
              row'[i] = row[i] \/ (m <= n /\ n < Len(log) /\ row'[i] = Status(i, n + 1))
    PROVE  OneRunner' /\ RowsFollow'
  <1>1. /\ busy = {w} /\ n \in Nat /\ n <= upto[w] /\ upto[w] \in Nat /\ upto[w] <= Len(log)
        /\ Len(log) \in Nat /\ \A i \in Invitations \ missed : Follows(i, n)
    BY AloneAt
  <1>2. busy' = {}
    BY <1>1 DEF Leave
  <1>3. ASSUME NEW i \in Invitations \ missed' PROVE Follows(i, m)'
    <2>1. Follows(i, n) /\ StreamOK
      BY <1>1, <1>3 DEF CohortInv
    <2>2. Follows(i, m)
      <3>1. CASE m <= n
        <4>1. m \in 0..n
          BY <1>1, <3>1
        <4>2. QED
          BY <1>1, <2>1, <4>1, FollowsEarlier
      <3>2. CASE m = upto[w] /\ \A k \in (n + 1)..m : log[k].invitation \in missed'
        <4>1. m \in n..Len(log) /\ \A k \in (n + 1)..m : log[k].invitation # i
          BY <1>1, <1>3, <3>2
        <4>2. QED
          BY <1>1, <2>1, <4>1, FollowsPast
      <3>3. QED
        BY <3>1, <3>2
    <2>3. \A k : Status(i, k)' = Status(i, k)
      BY DEF Status, About
    <2>4. CASE row'[i] = row[i]
      BY <2>2, <2>3, <2>4 DEF Follows
    <2>5. CASE m <= n /\ n < Len(log) /\ row'[i] = Status(i, n + 1)
      <3>1. n + 1 \in m..Len(log')
        BY <1>1, <2>5
      <3>2. QED
        BY <2>3, <2>5, <3>1 DEF Follows
    <2>6. QED
      BY <1>3, <2>4, <2>5
  <1>4. QED
    BY <1>2, <1>3, AtRest

\* An event that is handled, or passed over with its invitation missed.
LEMMA HandledFollows ==
    ASSUME CohortInv, ~overlapped, NEW w \in busy, NEW n, n = at[w], Handling(w), Advance(w),
           UNCHANGED <<log, busy, from, checkpoint>>, missed \subseteq missed',
           NEW key, log[n + 1].invitation = key,
           \A i \in Invitations \ missed' : i # key => row'[i] = row[i],
           \/ key \in missed'
           \/ key \notin Invitations
           \/ Follows(key, n + 1) /\ UNCHANGED row
           \/ row'[key] = log[n + 1].type
    PROVE  OneRunner' /\ RowsFollow'
  <1> DEFINE m == n + 1
  <1>1. /\ busy = {w} /\ w \in Runners /\ from[w] = checkpoint /\ n \in Nat /\ n < upto[w]
        /\ upto[w] <= Len(log) /\ upto[w] \in Nat /\ Len(log) \in Nat
        /\ \A i \in Invitations \ missed : Follows(i, n)
    BY AloneAt DEF Handling
  <1>2. busy' = {w} /\ at'[w] = m /\ from'[w] = checkpoint'
    BY <1>1 DEF Advance, CohortInv, ProjectorOK
  <1>3. StreamOK /\ AllLegal /\ log \in Seq(Events)
    BY DEF CohortInv, HistoryInv, StreamOK
  <1>4. m \in Nat /\ m \in n..Len(log) /\ m <= Len(log)
    BY <1>1
  <1>5. ASSUME NEW i \in Invitations \ missed' PROVE Follows(i, m)'
    <2>1. \A k : Status(i, k)' = Status(i, k)
      BY DEF Status, About
    <2>2. CASE i # key
      <3>1. Follows(i, n) /\ \A k \in (n + 1)..m : log[k].invitation # i
        BY <1>1, <1>5, <2>2
      <3>2. Follows(i, m)
        BY <1>1, <1>3, <1>4, <3>1, FollowsPast
      <3>3. row'[i] = row[i]
        BY <1>5, <2>2
      <3>4. QED
        BY <2>1, <3>2, <3>3 DEF Follows
    <2>3. CASE i = key /\ Follows(key, n + 1) /\ UNCHANGED row
      BY <2>1, <2>3 DEF Follows
    <2>4. CASE i = key /\ row'[key] = log[n + 1].type
      <3>1. Status(i, m) = log[n + 1].type
        <4>1. n \in Nat /\ n < Len(log)
          BY <1>1
        <4>2. Status(i, n + 1) = IF log[n + 1].invitation = i THEN log[n + 1].type ELSE Status(i, n)
          BY <1>3, <4>1, StatusNext, Zenon
        <4>3. QED
          BY <2>4, <4>2
      <3>2. m \in m..Len(log')
        BY <1>1, <1>4
      <3>3. QED
        BY <2>1, <2>4, <3>1, <3>2 DEF Follows
    <2>5. QED
      BY <1>5, <2>2, <2>3, <2>4
  <1> HIDE DEF m
  <1>6. QED
    BY <1>1, <1>2, <1>4, <1>5, AtEvent

\* The key of a runner's event.
LEMMA KeyOf ==
    ASSUME CohortInv, NEW w \in busy, Handling(w), NEW n, n = at[w]
    PROVE  /\ NextEvent(w) = log[n + 1] /\ Key(w) = log[n + 1].invitation /\ Key(w) \in Keys
           /\ n \in Nat /\ n < Len(log)
  <1>1. n \in Nat /\ n < Len(log) /\ Len(log) \in Nat
    BY DEF CohortInv, ProjectorOK, StreamOK, Handling
  <1>2. n + 1 \in 1..Len(log)
    BY <1>1
  <1>3. QED
    BY <1>1, <1>2, EventFields DEF CohortInv, NextEvent, Key

LEMMA ReadFollows ==
    ASSUME CohortInv, ~overlapped', NEW w \in Runners, ReadBatch(w)
    PROVE  OneRunner' /\ RowsFollow'
  <1>1. ~overlapped /\ busy = {} /\ checkpoint \in Nat
    BY DEF ReadBatch, CohortInv, ProjectorOK
  <1>2. PICK n \in Nat : n = checkpoint
    BY <1>1
  <1>3. \A i \in Invitations \ missed : Follows(i, n)
    BY <1>1, <1>2 DEF CohortInv, RowsFollow, Done
  <1>4. \A i \in Invitations \ missed' : Follows(i, n)'
    BY <1>3, Unchanged, FollowsLonger DEF ReadBatch, CohortInv
  <1>5. busy' = {w} /\ at'[w] = n /\ from'[w] = checkpoint'
    BY <1>1, <1>2 DEF ReadBatch, CohortInv, ProjectorOK
  <1>6. QED
    BY <1>4, <1>5, AtEvent

LEMMA FindFollows ==
    ASSUME CohortInv, ~overlapped', NEW w \in Runners, FindRow(w)
    PROVE  OneRunner' /\ RowsFollow'
  <1>1. /\ ~overlapped /\ w \in busy /\ Handling(w) /\ NextEvent(w).type \in {"created", "pending"}
        /\ UNCHANGED <<log, row, checkpoint, busy, from, missed>>
    BY DEF FindRow, Inserts, Handling, history
  <1>2. PICK n : n = at[w]
    OBVIOUS
  <1>3. /\ NextEvent(w) = log[n + 1] /\ Key(w) = log[n + 1].invitation
        /\ n \in Nat /\ n < Len(log)
    BY <1>1, <1>2, KeyOf
  <1>4. busy = {w} /\ from[w] = checkpoint /\ \A i \in Invitations \ missed : Follows(i, n)
    BY <1>1, <1>2, AloneAt
  <1>5. CASE row[Key(w)] = "none"
    <2>1. at' = at
      BY <1>5 DEF FindRow
    <2>2. \A i \in Invitations \ missed' : Follows(i, n)'
      BY <1>1, <1>3, <1>4, Unchanged, FollowsLonger DEF CohortInv
    <2>3. QED
      BY <1>1, <1>2, <1>3, <1>4, <2>1, <2>2, AtEvent
  <1>6. CASE row[Key(w)] # "none"
    <2>1. Advance(w)
      BY <1>6 DEF FindRow
    <2>2. PICK key : key = Key(w)
      OBVIOUS
    <2>3. key \in missed' \/ key \notin Invitations \/ Follows(key, n + 1)
      <3>1. SUFFICES ASSUME key \in Invitations \ missed PROVE Follows(key, n + 1)
        BY <1>1
      <3>2. Follows(key, n) /\ StreamOK /\ AllLegal
        BY <1>4, <3>1 DEF CohortInv, HistoryInv
      <3>3. QED
        BY <1>1, <1>3, <1>6, <2>2, <3>2, FoundIsAhead
    <2>4. QED
      BY <1>1, <1>2, <1>3, <2>1, <2>2, <2>3, HandledFollows
  <1>7. QED
    BY <1>5, <1>6

LEMMA InsertFollows ==
    ASSUME CohortInv, ~overlapped', NEW w \in Runners, InsertRow(w)
    PROVE  OneRunner' /\ RowsFollow'
  <1>1. /\ ~overlapped /\ w \in busy /\ Handling(w) /\ Advance(w)
        /\ UNCHANGED <<log, checkpoint, busy, from, missed>>
    BY DEF InsertRow, Insertion, CohortInv, ProjectorOK, Inserts, Handling, history
  <1>2. PICK n : n = at[w]
    OBVIOUS
  <1>3. /\ NextEvent(w) = log[n + 1] /\ Key(w) = log[n + 1].invitation /\ Key(w) \in Keys
    BY <1>1, <1>2, KeyOf
  <1>4. PICK key \in Keys : key = Key(w)
    BY <1>3
  <1>5. row'[key] = log[n + 1].type /\ \A i \in Invitations \ missed' : i # key => row'[i] = row[i]
    BY <1>3, <1>4 DEF InsertRow, Insertion, CohortInv, ProjectorOK, Keys
  <1>6. QED
    BY <1>1, <1>2, <1>3, <1>4, <1>5, HandledFollows

LEMMA UpdateFollows ==
    ASSUME CohortInv, ~overlapped', NEW w \in Runners, UpdateRow(w)
    PROVE  OneRunner' /\ RowsFollow'
  <1>1. /\ ~overlapped /\ w \in busy /\ Handling(w) /\ Advance(w)
        /\ NextEvent(w).type \in {"accepted", "revoked"}
        /\ UNCHANGED <<log, checkpoint, busy, from, missed>>
    BY DEF UpdateRow, Updates, Handling, history
  <1>2. PICK n : n = at[w]
    OBVIOUS
  <1>3. /\ NextEvent(w) = log[n + 1] /\ Key(w) = log[n + 1].invitation /\ Key(w) \in Keys
        /\ n \in Nat /\ n < Len(log)
    BY <1>1, <1>2, KeyOf
  <1>4. PICK key \in Keys : key = Key(w)
    BY <1>3
  <1>5. /\ row'[key] = Updated(row[key], log[n + 1].type)
        /\ \A i \in Invitations \ missed' : i # key => row'[i] = row[i]
    BY <1>3, <1>4 DEF UpdateRow, CohortInv, ProjectorOK, Keys
  <1>6. key \in missed' \/ key \notin Invitations \/ row'[key] = log[n + 1].type
    <2>1. SUFFICES ASSUME key \in Invitations \ missed PROVE row[key] # "none"
      BY <1>1, <1>5 DEF Updated
    <2>2. Follows(key, n) /\ StreamOK /\ AllLegal
      BY <1>1, <1>2, <2>1, AloneAt DEF CohortInv, HistoryInv
    <2>3. QED
      BY <1>1, <1>3, <1>4, <2>2, UpdateFindsRow
  <1>7. QED
    BY <1>1, <1>2, <1>3, <1>4, <1>5, <1>6, HandledFollows

LEMMA UpdateFailsFollows ==
    ASSUME CohortInv, ~overlapped', NEW w \in Runners, UpdateFails(w)
    PROVE  OneRunner' /\ RowsFollow'
  <1>1. /\ ~overlapped /\ w \in busy /\ Handling(w) /\ Advance(w)
        /\ UNCHANGED <<log, row, checkpoint, busy, from>> /\ missed' = missed \cup {Key(w)}
    BY DEF UpdateFails, Updates, Handling
  <1>2. PICK n : n = at[w]
    OBVIOUS
  <1>3. PICK key : key = Key(w)
    OBVIOUS
  <1>4. log[n + 1].invitation = key
    BY <1>1, <1>2, <1>3, KeyOf
  <1>5. QED
    BY <1>1, <1>2, <1>3, <1>4, HandledFollows

LEMMA BreakFollows ==
    ASSUME CohortInv, ~overlapped', NEW w \in busy, Inserts(w), Break(w),
           Insertion(w) \/ UNCHANGED row
    PROVE  OneRunner' /\ RowsFollow'
  <1>1. ~overlapped /\ Leave(w) /\ UNCHANGED log /\ Handling(w)
    BY DEF Break, Inserts
  <1>2. PICK n : n = at[w]
    OBVIOUS
  <1>3. /\ from[w] = checkpoint /\ n \in Nat /\ checkpoint <= n /\ upto[w] \in Nat /\ checkpoint \in Nat
        /\ n < upto[w]
    BY <1>1, <1>2, AloneAt DEF CohortInv, ProjectorOK, Handling
  <1>4. /\ NextEvent(w) = log[n + 1] /\ Key(w) = log[n + 1].invitation /\ Key(w) \in Keys
        /\ n < Len(log)
    BY <1>1, <1>2, KeyOf
  <1>5. PICK key \in Keys : key = Key(w)
    BY <1>4
  <1>6. Status(key, n + 1) = log[n + 1].type
    <2>1. StreamOK /\ n \in Nat /\ n < Len(log) /\ log[n + 1].invitation = key
      BY <1>3, <1>4, <1>5 DEF CohortInv
    <2>2. Status(key, n + 1)
            = IF log[n + 1].invitation = key THEN log[n + 1].type ELSE Status(key, n)
      BY <2>1, StatusNext, Zenon DEF StreamOK
    <2>3. QED
      BY <2>1, <2>2
  <1>7. \A i \in Invitations : row'[i] = row[i] \/ (i = key /\ row'[i] = Status(i, n + 1))
    <2>1. CASE UNCHANGED row
      BY <2>1
    <2>2. CASE Insertion(w)
      BY <1>4, <1>5, <1>6, <2>2 DEF Insertion, CohortInv, ProjectorOK, Keys
    <2>3. QED
      BY <2>1, <2>2
  <1>8. CASE n > from[w]
    <2>1. PICK m \in Nat : m = upto[w]
      BY <1>3
    <2>2. checkpoint' = m /\ missed' = missed \cup {log[k].invitation : k \in (n + 1)..m}
      BY <1>2, <1>8, <2>1 DEF Break
    <2>3. missed \subseteq missed' /\ \A k \in (n + 1)..m : log[k].invitation \in missed'
      BY <2>2
    <2>4. key \in missed'
      BY <1>3, <1>4, <1>5, <2>1, <2>3
    <2>5. QED
      BY <1>1, <1>2, <1>7, <2>1, <2>2, <2>3, <2>4, LeftFollows
  <1>9. CASE ~ (n > from[w])
    <2>1. PICK m \in Nat : m = checkpoint
      BY <1>3
    <2>2. checkpoint' = m /\ missed' = missed /\ m <= n
      BY <1>2, <1>3, <1>9, <2>1 DEF Break
    <2>3. QED
      BY <1>1, <1>2, <1>4, <1>7, <2>2, LeftFollows
  <1>10. QED
    BY <1>8, <1>9

LEMMA SaveFollows ==
    ASSUME CohortInv, ~overlapped', NEW w \in Runners, SaveCheckpoint(w) \/ Die(w)
    PROVE  OneRunner' /\ RowsFollow'
  <1>1. ~overlapped /\ w \in busy /\ Leave(w) /\ UNCHANGED <<log, row, missed>>
    BY DEF SaveCheckpoint, Die, history
  <1>2. PICK n : n = at[w]
    OBVIOUS
  <1>3. /\ n \in Nat /\ checkpoint <= n /\ checkpoint \in Nat
    BY <1>1, <1>2, AloneAt DEF CohortInv, ProjectorOK
  <1>4. checkpoint' \in Nat /\ checkpoint' <= n
    BY <1>2, <1>3 DEF SaveCheckpoint, Die
  <1>5. PICK m \in Nat : m = checkpoint'
    BY <1>4
  <1>6. QED
    BY <1>1, <1>2, <1>4, <1>5, LeftFollows

LEMMA ClientsFollow ==
    ASSUME CohortInv, ~overlapped', Grows, UNCHANGED <<row, checkpoint, runner, history>>
    PROVE  OneRunner' /\ RowsFollow'
  <1>1. ~overlapped /\ UNCHANGED <<busy, at, from, missed>>
    BY DEF runner, history
  <1>2. OneRunner'
    BY <1>1 DEF CohortInv, OneRunner
  <1>3. ASSUME NEW n \in Nat, NEW i \in Invitations \ missed', Done(n)' PROVE Follows(i, n)'
    <2>1. Done(n)
      BY <1>1, <1>3 DEF Done
    <2>2. Follows(i, n)
      BY <1>1, <1>3, <2>1 DEF CohortInv, RowsFollow
    <2>3. QED
      BY <2>2, FollowsLonger DEF CohortInv
  <1>4. QED
    BY <1>2, <1>3 DEF RowsFollow

LEMMA TableNext ==
    ASSUME CohortInv, [Next]_vars
    PROVE  OneRunner' /\ RowsFollow'
  <1>1. CASE overlapped'
    BY <1>1 DEF OneRunner, RowsFollow
  <1>2. CASE ~overlapped'
    <2>1. Grows
      BY StreamNext DEF CohortInv
    <2>2. CASE Create \/ (\E i \in Invitations : Expire(i)) \/ UNCHANGED vars
      BY <1>2, <2>1, <2>2, ClientsFollow DEF Create, Expire, vars
    <2>3. ASSUME NEW c \in Clients, Save(c) PROVE OneRunner' /\ RowsFollow'
      BY <1>2, <2>1, <2>3, ClientsFollow DEF Save
    <2>4. ASSUME NEW c \in Clients, NEW i \in Invitations, NEW u \in Users,
                 Invite(c, i, u) \/ Accept(c, i, u) \/ Revoke(c, i, u)
          PROVE  OneRunner' /\ RowsFollow'
      BY <1>2, <2>1, <2>4, ClientsFollow DEF Invite, Accept, Revoke, Decide
    <2>5. ASSUME NEW w \in Runners, Continue(w) PROVE OneRunner' /\ RowsFollow'
      <3>1. CASE InsertConflict(w)
        <4>1. w \in busy
          BY <3>1 DEF InsertConflict, CohortInv, ProjectorOK
        <4>2. Inserts(w)
          BY <3>1 DEF InsertConflict, CohortInv, ProjectorOK
        <4>3. QED
          BY <1>2, <3>1, <4>1, <4>2, BreakFollows DEF InsertConflict
      <3>2. QED
        BY <1>2, <2>5, <3>1, ReadFollows, FindFollows, InsertFollows, UpdateFollows, SaveFollows
           DEF Continue
    <2>6. ASSUME NEW w \in Runners, UpdateFails(w) \/ Die(w) PROVE OneRunner' /\ RowsFollow'
      BY <1>2, <2>6, UpdateFailsFollows, SaveFollows
    <2>7. ASSUME NEW w \in Runners, HandleThrows(w) PROVE OneRunner' /\ RowsFollow'
      BY <1>2, <2>7, BreakFollows DEF HandleThrows, Inserts, Handling
    <2>8. QED
      BY <2>2, <2>3, <2>4, <2>5, <2>6, <2>7 DEF Next
  <1>3. QED
    BY <1>1, <1>2

LEMMA TableInit == Init => OneRunner /\ RowsFollow
  <1> SUFFICES ASSUME Init PROVE OneRunner /\ RowsFollow
    OBVIOUS
  <1>1. busy = {} /\ checkpoint = 0 /\ Len(log) = 0
    BY DEF Init
  <1>2. ASSUME NEW i \in Invitations PROVE Follows(i, 0)
    <2>1. row[i] = "none" /\ Status(i, 0) = "none"
      BY DEF Init, Keys, Status, About
    <2>2. QED
      BY <1>1, <2>1 DEF Follows
  <1>3. QED
    BY <1>1, <1>2 DEF OneRunner, RowsFollow, Done

\* At rest at the end of the stream there is one status left to follow.
LEMMA Converged == CohortInv => ReadModelConverges
  <1> SUFFICES ASSUME CohortInv, busy = {}, checkpoint = Len(log), ~overlapped,
                      NEW i \in Invitations \ missed
               PROVE  row[i] = Status(i, Len(log))
    BY DEF ReadModelConverges
  <1>1. PICK n \in Nat : n = Len(log)
    BY DEF CohortInv, StreamOK
  <1>2. Follows(i, n)
    BY <1>1 DEF CohortInv, RowsFollow, Done
  <1>3. \A k \in n..Len(log) : k = n
    BY <1>1
  <1>4. QED
    BY <1>1, <1>2, <1>3 DEF Follows

\* beta-cohort-projector.ts: once the projector has caught up, the table of
\* participants shows each invitation's last status, whatever was handled again
\* after crashes, unless two runners overlapped or a failure passed an event of
\* the invitation over.
THEOREM TheTableConverges == Spec => []ReadModelConverges
  <1>1. Init => CohortInv
    BY StreamInit, ProjectorInit, TableInit DEF CohortInv
  <1>2. CohortInv /\ [Next]_vars => CohortInv'
    <2> SUFFICES ASSUME CohortInv, [Next]_vars PROVE CohortInv'
      OBVIOUS
    <2>1. StreamOK' /\ HistoryInv' /\ ProjectorOK'
      BY StreamNext, ProjectorNext DEF CohortInv
    <2>2. OneRunner' /\ RowsFollow'
      BY TableNext
    <2>3. QED
      BY <2>1, <2>2 DEF CohortInv
  <1>3. CohortInv => ReadModelConverges
    BY Converged
  <1>4. QED
    BY <1>1, <1>2, <1>3, PTL DEF Spec
==============================================================================
