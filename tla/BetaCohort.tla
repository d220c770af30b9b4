------------------------------ MODULE BetaCohort ------------------------------
(***************************************************************************)
(* One beta cohort: the commands that invite participants, accept and      *)
(* revoke invitations, on an aggregate rehydrated from its event stream,   *)
(* and the projector that turns the stream into the CohortParticipant      *)
(* table, where accept and revoke look up an invitation's cohort.          *)
(*                                                                         *)
(* How a command's transaction is committed is the subject of              *)
(* CommandPipeline: here a save is one step, which appends if the stream   *)
(* is as it was loaded.  The projector's batches are run by a loop and by  *)
(* the route that triggers one; ProjectionEngine has their rebuilds, and   *)
(* rows that are committed out of order.                                   *)
(***************************************************************************)
EXTENDS Naturals, Sequences, FiniteSets, FiniteSetsExt

CONSTANTS
    Clients,           \* whoever sends commands, one at a time each
    Users,             \* whoever may be invited
    Invitations,       \* the ids createId may return
    MaxParticipants,   \* the cohort's maxParticipants
    Runners,           \* whoever runs the projector's batches
    Loops,             \* the runners that poll for ever
    BatchSize,         \* config projections.batchSize
    RevokeWired,       \* is RevokeInvitationHandler given its cohortLookup?
    NoOne,             \* no user, no invitation
    MaxCommands,       \* bound: commands that get as far as a save
    MaxFaults          \* bound: runners that die and statements that fail

ASSUME CohortAssumption ==
    /\ MaxParticipants \in Nat \ {0} /\ BatchSize \in Nat \ {0}
    /\ Loops \subseteq Runners /\ RevokeWired \in BOOLEAN
    /\ NoOne \notin Users \cup Invitations
    /\ MaxCommands \in Nat /\ MaxFaults \in Nat

VARIABLES
    log,          \* the cohort's event stream; an event's version is its index
    expired,      \* the invitations whose expiresAt has passed
    event,        \* the event each client's command will save
    loaded,       \* the version it has loaded
    sent,         \* history: how many commands so far
    row,          \* CohortParticipant: the status of each invitation; BetaCohort:
                  \* the cohort's row, under NoOne
    checkpoint,   \* how far the projector's saved checkpoint is
    busy,         \* the runners in a batch
    at,           \* the last event a runner is done with
    from, upto,   \* its batch: the events after from, up to upto
    absent,       \* the runners that have found no row for their event
    missed,       \* history: invitations an event of which was passed over
    overlapped,   \* history: two runners were in a batch at once
    faults        \* history: how many so far

command == <<event, loaded, sent>>
runner == <<busy, at, from, upto, absent>>
history == <<missed, overlapped, faults>>
vars == <<log, expired, command, row, checkpoint, runner, history>>

Keys == Invitations \cup {NoOne}

NoEvent == [type |-> "none", invitation |-> NoOne, user |-> NoOne]

Init ==
    /\ log = <<>>
    /\ expired = {}
    /\ event = [c \in Clients |-> NoEvent]
    /\ loaded = [c \in Clients |-> 0]
    /\ sent = 0
    /\ row = [i \in Keys |-> "none"]
    /\ checkpoint = 0
    /\ busy = {} /\ at = [w \in Runners |-> 0]
    /\ from = [w \in Runners |-> 0] /\ upto = [w \in Runners |-> 0]
    /\ absent = {}
    /\ missed = {}
    /\ overlapped = FALSE
    /\ faults = 0

------------------------------------------------------------------------------
(* BetaCohortAggregate, rehydrated from the first n events.                *)

About(i, n) == {k \in 1..n : log[k].invitation = i}

\* A participant's status is set by the last event of the invitation.
Status(i, n) == IF About(i, n) = {} THEN "none" ELSE log[Max(About(i, n))].type

Participants(n) == {i \in Invitations : Status(i, n) # "none"}
AcceptedCount(n) == Cardinality({i \in Participants(n) : Status(i, n) = "accepted"})
UserOf(i, n) == {log[k].user : k \in About(i, n)}

\* invite: there is room, and the user has no invitation, revoked ones included.
CanInvite(u, n) == /\ n > 0
                   /\ AcceptedCount(n) < MaxParticipants
                   /\ \A i \in Participants(n) : u \notin UserOf(i, n)

\* acceptInvitation: the user's own, pending and not expired.
CanAccept(i, u, n) == /\ Status(i, n) = "pending" /\ u \in UserOf(i, n)
                      /\ i \notin expired

\* revokeInvitation: pending, accepted or expired, but not revoked.
CanRevoke(i, n) == Status(i, n) \notin {"none", "revoked"}

------------------------------------------------------------------------------
(* The commands.  One that is refused changes nothing and is not a step.   *)

\* getById, and what the aggregate decides on what was loaded.
Decide(c, e) ==
    /\ event[c] = NoEvent
    /\ sent < MaxCommands /\ sent' = sent + 1
    /\ event' = [event EXCEPT ![c] = e]
    /\ loaded' = [loaded EXCEPT ![c] = Len(log)]
    /\ UNCHANGED <<log, expired, row, checkpoint, runner, history>>

Event(type, i, u) == [type |-> type, invitation |-> i, user |-> u]

\* CreateCohort saves a new stream: nobody else knows its id.
Create ==
    /\ log = <<>>
    /\ log' = <<Event("created", NoOne, NoOne)>>
    /\ UNCHANGED <<expired, command, row, checkpoint, runner, history>>

\* createId does not return an id twice.
Drawn == {log[k].invitation : k \in DOMAIN log} \cup {event[c].invitation : c \in Clients}

Invite(c, i, u) ==
    /\ i \notin Drawn /\ CanInvite(u, Len(log))
    /\ Decide(c, Event("pending", i, u))

\* cohortLookup reads the read model; an invitation it lacks is not found.
LookedUp(i) == row[i] # "none"

Accept(c, i, u) ==
    /\ LookedUp(i) /\ CanAccept(i, u, Len(log))
    /\ Decide(c, Event("accepted", i, u))

\* As it is wired, without a cohortLookup, the handler throws.
Revoke(c, i, u) ==
    /\ RevokeWired /\ LookedUp(i) /\ CanRevoke(i, Len(log)) /\ u \in UserOf(i, Len(log))
    /\ Decide(c, Event("revoked", i, u))

\* BUG (mutant): the stream's version is not compared with the expected one.
Current_Unchecked(c) == TRUE

\* eventStore.append's version check and unique index.
Current(c) == loaded[c] = Len(log)

\* The events are appended, or the command fails; it is not retried.
Save(c) ==
    /\ event[c] # NoEvent
    /\ log' = IF Current(c) THEN Append(log, event[c]) ELSE log
    /\ event' = [event EXCEPT ![c] = NoEvent]
    /\ loaded' = [loaded EXCEPT ![c] = 0]
    /\ UNCHANGED <<sent, expired, row, checkpoint, runner, history>>

\* Time passes an invitation's expiresAt.
Expire(i) ==
    /\ i \notin expired /\ Status(i, Len(log)) = "pending"
    /\ expired' = expired \cup {i}
    /\ UNCHANGED <<log, command, row, checkpoint, runner, history>>

------------------------------------------------------------------------------
(* BetaCohortProjector.                                                    *)

\* BUG (mutant): the new checkpoint is counted, not read off the events.
EndOfBatch_Counted == checkpoint + BatchSize

\* nextRowId: where a batch read now ends.
EndOfBatch == Min({Len(log), checkpoint + BatchSize})

ReadBatch(w) ==
    /\ w \notin busy /\ checkpoint < Len(log)
    /\ busy' = busy \cup {w}
    /\ at' = [at EXCEPT ![w] = checkpoint]
    /\ from' = [from EXCEPT ![w] = checkpoint]
    /\ upto' = [upto EXCEPT ![w] = EndOfBatch]
    /\ overlapped' = (overlapped \/ busy # {})
    /\ UNCHANGED <<log, expired, command, row, checkpoint, absent, missed, faults>>

Handling(w) == w \in busy /\ at[w] < upto[w]
NextEvent(w) == log[at[w] + 1]
Key(w) == NextEvent(w).invitation
Inserts(w) == Handling(w) /\ NextEvent(w).type \in {"created", "pending"}
Updates(w) == Handling(w) /\ NextEvent(w).type \in {"accepted", "revoked"}

Advance(w) == at' = [at EXCEPT ![w] = @ + 1]

\* BUG (mutant): the row is inserted without being looked for first.
FindRow_Skipped(w) ==
    /\ Inserts(w) /\ w \notin absent
    /\ absent' = absent \cup {w}
    /\ UNCHANGED <<log, expired, command, row, checkpoint, busy, at, from, upto, history>>

\* A created cohort or an invitation: nothing is inserted if its row is there.
FindRow(w) ==
    /\ Inserts(w) /\ w \notin absent
    /\ IF row[Key(w)] = "none" THEN absent' = absent \cup {w} /\ UNCHANGED at
                               ELSE Advance(w) /\ UNCHANGED absent
    /\ UNCHANGED <<log, expired, command, row, checkpoint, busy, from, upto, history>>

Insertion(w) ==
    /\ w \in absent /\ row[Key(w)] = "none"
    /\ row' = [row EXCEPT ![Key(w)] = NextEvent(w).type]

InsertRow(w) ==
    /\ Insertion(w)
    /\ absent' = absent \ {w}
    /\ Advance(w)
    /\ UNCHANGED <<log, expired, command, checkpoint, busy, from, upto, history>>

\* BUG (mutant): only a pending row is updated.
Updated_Pending(old, new) == IF old = "pending" THEN new ELSE old

\* The update of a row that is not there fails, and nobody hears of it.
Updated(old, new) == IF old = "none" THEN old ELSE new

UpdateRow(w) ==
    /\ Updates(w)
    /\ row' = [row EXCEPT ![Key(w)] = Updated(@, NextEvent(w).type)]
    /\ Advance(w)
    /\ UNCHANGED <<log, expired, command, checkpoint, busy, from, upto, absent, history>>

Fault == faults < MaxFaults /\ faults' = faults + 1

\* Nobody hears of an update that fails for another reason either; one that took
\* effect before that is an UpdateRow.
UpdateFails(w) ==
    /\ Updates(w) /\ Fault
    /\ missed' = missed \cup {Key(w)}
    /\ Advance(w)
    /\ UNCHANGED <<log, expired, command, row, checkpoint, busy, from, upto, absent, overlapped>>

Leave(w) ==
    /\ busy' = busy \ {w} /\ absent' = absent \ {w}
    /\ at' = [at EXCEPT ![w] = 0] /\ from' = [from EXCEPT ![w] = 0]
    /\ upto' = [upto EXCEPT ![w] = 0]

\* checkpointStore.save, whatever the checkpoint is by now.
SaveCheckpoint(w) ==
    /\ w \in busy /\ at[w] = upto[w]
    /\ checkpoint' = upto[w]
    /\ Leave(w)
    /\ UNCHANGED <<log, expired, command, row, history>>

\* handle throws: the batch is left, and the checkpoint set to its end if
\* anything of it was handled.
Break(w) ==
    /\ IF at[w] > from[w]
       THEN /\ checkpoint' = upto[w]
            /\ missed' = missed \cup {log[k].invitation : k \in at[w] + 1..upto[w]}
       ELSE UNCHANGED <<checkpoint, missed>>
    /\ Leave(w)
    /\ UNCHANGED <<log, expired, command, overlapped>>

\* A statement of an insertion fails, which may have taken effect all the same.
HandleThrows(w) ==
    /\ Inserts(w) /\ Fault /\ Break(w)
    /\ Insertion(w) \/ UNCHANGED row

\* The other runner has inserted the row since this one looked for it.
InsertConflict(w) ==
    /\ w \in absent /\ row[Key(w)] # "none"
    /\ Break(w)
    /\ UNCHANGED <<row, faults>>

\* The process dies: what it handled since its checkpoint is handled again.
Die(w) ==
    /\ w \in busy /\ Fault
    /\ Leave(w)
    /\ UNCHANGED <<log, expired, command, row, checkpoint, missed, overlapped>>

------------------------------------------------------------------------------
Continue(w) == \/ ReadBatch(w) \/ SaveCheckpoint(w)
               \/ FindRow(w) \/ InsertRow(w) \/ InsertConflict(w) \/ UpdateRow(w)

Next == \/ Create
        \/ \E c \in Clients :
              \/ Save(c)
              \/ \E i \in Invitations, u \in Users : Invite(c, i, u) \/ Accept(c, i, u) \/ Revoke(c, i, u)
        \/ \E i \in Invitations : Expire(i)
        \/ \E w \in Runners : Continue(w) \/ UpdateFails(w) \/ HandleThrows(w) \/ Die(w)

Spec == Init /\ [][Next]_vars

\* The projector's loop goes on; no command has to be sent or completed, and
\* the route need not be called, nor end.
FairSpec == Spec /\ \A w \in Loops : WF_vars(Continue(w))

------------------------------------------------------------------------------
(* Properties.                                                             *)

States == {"none", "pending", "accepted", "revoked"}

\* Every variable has its type, and nobody has read past the end of the stream.
TypeOK ==
    /\ \A k \in DOMAIN log : /\ log[k].type \in {"created", "pending", "accepted", "revoked"}
                             /\ log[k].invitation \in Invitations \cup {NoOne}
                             /\ log[k].user \in Users \cup {NoOne}
    /\ expired \subseteq Invitations
    /\ event \in [Clients -> [type : States, invitation : Invitations \cup {NoOne},
                               user : Users \cup {NoOne}]]
    /\ loaded \in [Clients -> 0..Len(log)] /\ sent \in Nat
    /\ row \in [Keys -> States \cup {"created"}]
    /\ checkpoint \in 0..Len(log)
    /\ busy \subseteq Runners
    /\ at \in [Runners -> 0..Len(log)] /\ upto \in [Runners -> 0..Len(log)]
    /\ from \in [Runners -> 0..Len(log)]
    /\ \A w \in Runners : from[w] <= at[w] /\ at[w] <= upto[w]
    /\ absent \subseteq busy
    /\ missed \subseteq Keys
    /\ overlapped \in BOOLEAN /\ faults \in Nat

\* Was event k legal in the state the events before it make?
Legal(k) ==
    LET e == log[k] IN
    CASE e.type = "created" -> k = 1
      [] e.type = "pending" -> CanInvite(e.user, k - 1) /\ Status(e.invitation, k - 1) = "none"
      [] e.type = "accepted" -> /\ Status(e.invitation, k - 1) = "pending"
                                /\ e.user \in UserOf(e.invitation, k - 1)
      [] e.type = "revoked" -> CanRevoke(e.invitation, k - 1)

\* Whatever commands run at the same time, the stream is a history the aggregate
\* allows: nobody is invited into a full cohort or twice, and only a pending
\* invitation is accepted, so a revoked one never is.
HistoryLegal == \A k \in DOMAIN log : Legal(k)

\* Once the projector has caught up, the table shows each invitation's last
\* status, however often events were handled again after a crash.  Two runners
\* at once may leave an older one, and what a failure passed over is not repeated.
ReadModelConverges ==
    busy = {} /\ checkpoint = Len(log) /\ ~overlapped
        => \A i \in Invitations \ missed : row[i] = Status(i, Len(log))

\* Every invitation can be looked up in the end, and so be accepted, unless its
\* event was in the rest of a batch that was left: whatever the other runner
\* does, inserting the same rows and dying included.
EveryInvitationIsFound ==
    \A i \in Invitations : Status(i, Len(log)) # "none" ~> LookedUp(i) \/ i \in missed

==============================================================================
