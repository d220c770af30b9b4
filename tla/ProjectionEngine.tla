--------------------------- MODULE ProjectionEngine ---------------------------
(***************************************************************************)
(* The projection engine with one projector, whose handle adds to a read   *)
(* model (WalletProjector's balance): processBatch, which any number of    *)
(* runners may be in at once (the worker's loop, the route that triggers a *)
(* batch, other instances), rebuild, and the EventRecord table they read.  *)
(*                                                                         *)
(* A row's id is allocated when it is inserted and the row is visible from *)
(* its commit on, so rows need not become visible in the order of their    *)
(* ids.  Each statement is one step.                                       *)
(***************************************************************************)
EXTENDS Naturals, FiniteSets

CONSTANTS
    Rows,          \* EventRecord ids, in the order they are allocated
    Runners,       \* whoever runs processBatch
    Loops,         \* the runners that poll for ever: the workers' loops
    Rebuilder,     \* the caller of rebuild
    BatchSize,     \* config projections.batchSize
    MaxFaults,     \* bound: failures and crashes in a behaviour
    MaxRebuilds    \* bound: calls of rebuild

Actors == Runners \cup {Rebuilder}

ASSUME ProjectionAssumption ==
    /\ Rows \subseteq Nat \ {0} /\ IsFiniteSet(Rows)
    /\ Loops \subseteq Runners /\ Rebuilder \notin Runners
    /\ BatchSize \in Nat \ {0}
    /\ MaxFaults \in Nat /\ MaxRebuilds \in Nat

VARIABLES
    row,         \* each row: free, open (uncommitted), committed or aborted
    wanted,      \* the rows of an event type the projector handles
    checkpoint,  \* the saved lastEventRowId, 0 if there is none
    applied,     \* how often each row is added into the read model
    pc,          \* what each actor does next
    upto,        \* the row id an actor has read up to
    left,        \* the rows of its batch it has yet to handle
    handled,     \* and those it has handled
    short,       \* was the rebuild's last batch shorter than BatchSize?
    skipped,     \* history: left over when the checkpoint was saved past them
    late,        \* history: committed when some actor had read past them
    redo,        \* history: handled by a batch that never saved
    overlapped,  \* history: two runners at once, since the last rebuild
    torn,        \* history: a rebuild cut short, or overlapped by a runner
    rebuilds, faults   \* history: how many so far

writers == <<row, wanted>>
reader == <<pc, upto, left, handled, short>>
history == <<skipped, late, redo, overlapped, torn>>
bounds == <<rebuilds, faults>>
vars == <<writers, checkpoint, applied, reader, history, bounds>>

Init ==
    /\ row = [r \in Rows |-> "free"]
    /\ wanted \in SUBSET Rows
    /\ checkpoint = 0
    /\ applied = [r \in Rows |-> 0]
    /\ pc = [a \in Actors |-> "idle"]
    /\ upto = [a \in Actors |-> 0]
    /\ left = [a \in Actors |-> {}]
    /\ handled = [a \in Actors |-> {}]
    /\ short = FALSE
    /\ skipped = {} /\ late = {} /\ redo = {}
    /\ overlapped = FALSE /\ torn = FALSE
    /\ rebuilds = 0 /\ faults = 0

------------------------------------------------------------------------------
(* The writers' transactions, as far as a reader can tell.                 *)

\* An INSERT takes the next id of the sequence.
InsertRow(r) ==
    /\ row[r] = "free" /\ \A q \in Rows : q < r => row[q] # "free"
    /\ row' = [row EXCEPT ![r] = "open"]
    /\ UNCHANGED <<wanted, checkpoint, applied, reader, history, bounds>>

Busy(a) == pc[a] # "idle"

ReadPast(r) == r <= checkpoint \/ \E a \in Actors : Busy(a) /\ r <= upto[a]

CommitRow(r) ==
    /\ row[r] = "open"
    /\ row' = [row EXCEPT ![r] = "committed"]
    /\ late' = IF ReadPast(r) THEN late \cup {r} ELSE late
    /\ UNCHANGED <<wanted, checkpoint, applied, reader, skipped, redo, overlapped, torn, bounds>>

\* A rollback leaves a gap in the ids.
AbortRow(r) ==
    /\ row[r] = "open"
    /\ row' = [row EXCEPT ![r] = "aborted"]
    /\ UNCHANGED <<wanted, checkpoint, applied, reader, history, bounds>>

------------------------------------------------------------------------------
(* processBatch and rebuild: reading and handling a batch.                 *)

Goto(a, label) == pc' = [pc EXCEPT ![a] = label]

\* The method returns, throws or dies with its process.
Release(a) == /\ left' = [left EXCEPT ![a] = {}]
              /\ handled' = [handled EXCEPT ![a] = {}]
              /\ upto' = [upto EXCEPT ![a] = 0]
              /\ Goto(a, "idle")

GetCheckpoint(a) ==
    /\ a \in Runners /\ pc[a] = "idle"
    /\ upto' = [upto EXCEPT ![a] = checkpoint]
    /\ overlapped' = (overlapped \/ \E b \in Runners : Busy(b))
    /\ torn' = (torn \/ Busy(Rebuilder))
    /\ Goto(a, "read")
    /\ UNCHANGED <<writers, checkpoint, applied, left, handled, short, skipped, late, redo, bounds>>

\* BUG (mutant): uncommitted rows are read.
Ahead_Dirty(a) == {r \in Rows : row[r] \in {"open", "committed"} /\ r > upto[a]}

\* eventStore.replay: the first BatchSize committed rows after upto[a].
Ahead(a) == {r \in Rows : row[r] = "committed" /\ r > upto[a]}
NextBatch(a) == {r \in Ahead(a) : Cardinality({q \in Ahead(a) : q < r}) < BatchSize}

\* nextRowId: the last id of the batch.
EndOf(batch) == {r \in batch : \A s \in batch : s <= r}

ReadBatch(a) ==
    /\ pc[a] = "read" /\ NextBatch(a) # {}
    /\ \E r \in EndOf(NextBatch(a)) : upto' = [upto EXCEPT ![a] = r]
    /\ left' = [left EXCEPT ![a] = NextBatch(a)]
    /\ handled' = [handled EXCEPT ![a] = {}]
    /\ short' = IF a = Rebuilder THEN Cardinality(NextBatch(a)) < BatchSize ELSE short
    /\ Goto(a, "handle")
    /\ UNCHANGED <<writers, checkpoint, applied, history, bounds>>

\* Nothing to read: processBatch returns, rebuild saves its position.
ReadNothing(a) ==
    /\ pc[a] = "read" /\ NextBatch(a) = {}
    /\ IF a = Rebuilder THEN Goto(a, "save") /\ UNCHANGED <<left, handled, upto>>
                         ELSE Release(a)
    /\ UNCHANGED <<writers, checkpoint, applied, short, history, bounds>>

\* BUG (mutant): replay does not order the rows by id.
At_AnyOrder(a, r) == r \in left[a]

\* The row a's loop is at: the lowest id left.
At(a, r) == r \in left[a] /\ \A q \in left[a] : r <= q

\* After the last row of a batch: rebuild reads on while batches are full.
AfterBatch(a) == IF a = Rebuilder /\ ~short THEN "read" ELSE "save"

Apply(r) == applied' = [applied EXCEPT ![r] = @ + 1]

\* One event: another projector's is passed over, the projector's own is
\* added into the read model.
Handle(a, r) ==
    /\ pc[a] = "handle" /\ At(a, r)
    /\ IF r \in wanted THEN Apply(r) ELSE UNCHANGED applied
    /\ left' = [left EXCEPT ![a] = @ \ {r}]
    /\ handled' = [handled EXCEPT ![a] = @ \cup {r}]
    /\ Goto(a, IF left[a] = {r} THEN AfterBatch(a) ELSE "handle")
    /\ UNCHANGED <<writers, checkpoint, upto, short, history, bounds>>

Fault == /\ faults < MaxFaults
         /\ faults' = faults + 1
         /\ UNCHANGED rebuilds

\* BUG (mutant): the catch does not break, the loop goes on to the next event.
HandleThrows_GoesOn(a, r) ==
    /\ a \in Runners /\ pc[a] = "handle" /\ At(a, r) /\ r \in wanted
    /\ Fault
    /\ left' = [left EXCEPT ![a] = @ \ {r}]
    /\ handled' = [handled EXCEPT ![a] = @ \cup {r}]
    /\ Goto(a, IF left[a] = {r} THEN "save" ELSE "handle")
    /\ UNCHANGED <<writers, checkpoint, applied, upto, short, history>>

\* handle throws, before or after its statement took effect.  processBatch
\* breaks: it saves nextRowId, the end of the whole batch, if it has processed
\* any row, and nothing if it has not.
HandleThrows(a, r) ==
    /\ a \in Runners /\ pc[a] = "handle" /\ At(a, r) /\ r \in wanted
    /\ Fault
    /\ \/ UNCHANGED <<applied, redo>>
       \/ Apply(r) /\ redo' = redo \cup {r}
    /\ IF handled[a] # {}
       THEN Goto(a, "save") /\ UNCHANGED <<left, handled, upto>>
       ELSE Release(a)
    /\ UNCHANGED <<writers, checkpoint, short, skipped, late, overlapped, torn>>

\* BUG (mutant): the checkpoint is not saved.
Save_Never(a) ==
    /\ pc[a] = "save"
    /\ Release(a)
    /\ UNCHANGED <<writers, checkpoint, applied, short, history, bounds>>

\* checkpointStore.save, whatever the checkpoint is by now.
Save(a) ==
    /\ pc[a] = "save"
    /\ checkpoint' = upto[a]
    /\ skipped' = skipped \cup (left[a] \cap wanted)
    /\ Release(a)
    /\ UNCHANGED <<writers, applied, short, late, redo, overlapped, torn, bounds>>

\* The actor's process dies or a statement throws out of its method: a loop
\* polls again, a rebuild is not resumed.
Abandon(a) ==
    /\ Busy(a) /\ Fault
    /\ redo' = redo \cup (handled[a] \cap wanted)
    /\ torn' = (torn \/ a = Rebuilder)
    /\ Release(a)
    /\ UNCHANGED <<writers, checkpoint, applied, short, skipped, late, overlapped>>

------------------------------------------------------------------------------
(* rebuild: first reset the projector, then its checkpoint, then replay.   *)

\* projector.reset empties the read model.  A rebuild that starts alone puts
\* right whatever went wrong before.
StartRebuild ==
    /\ pc[Rebuilder] = "idle" /\ rebuilds < MaxRebuilds
    /\ applied' = [r \in Rows |-> 0]
    /\ rebuilds' = rebuilds + 1
    /\ skipped' = {} /\ late' = {} /\ redo' = {}
    /\ overlapped' = FALSE
    /\ torn' = \E b \in Runners : Busy(b)
    /\ Goto(Rebuilder, "reset")
    /\ UNCHANGED <<writers, checkpoint, upto, left, handled, short, faults>>

\* BUG (mutant): the rebuild starts reading at the checkpoint.
ResetCheckpoint_Resumes ==
    /\ pc[Rebuilder] = "reset"
    /\ upto' = [upto EXCEPT ![Rebuilder] = checkpoint]
    /\ Goto(Rebuilder, "read")
    /\ UNCHANGED <<writers, checkpoint, applied, left, handled, short, history, bounds>>

\* checkpointStore.reset; its errors are swallowed.
ResetCheckpoint ==
    /\ pc[Rebuilder] = "reset"
    /\ \/ checkpoint' = 0 /\ UNCHANGED bounds
       \/ Fault /\ UNCHANGED checkpoint
    /\ Goto(Rebuilder, "read")
    /\ UNCHANGED <<writers, applied, upto, left, handled, short, history>>

\* A method that has started goes on.
Continue(a) == \/ ReadBatch(a) \/ ReadNothing(a) \/ Save(a)
               \/ \E r \in Rows : Handle(a, r) \/ HandleThrows(a, r)
               \/ a = Rebuilder /\ ResetCheckpoint

Next == \/ \E r \in Rows : InsertRow(r) \/ CommitRow(r) \/ AbortRow(r)
        \/ \E a \in Actors : GetCheckpoint(a) \/ Continue(a) \/ Abandon(a)
        \/ StartRebuild

Spec == Init /\ [][Next]_vars

\* What JavaScript has started goes on, and a worker's loop keeps polling;
\* nobody has to write, to call the route or to rebuild, and nothing has to fail.
FairSpec == /\ Spec
            /\ \A a \in Actors : WF_vars(Continue(a))
            /\ \A a \in Loops : WF_vars(GetCheckpoint(a))

------------------------------------------------------------------------------
(* Properties.                                                             *)

Labels == {"idle", "reset", "read", "handle", "save"}
RowStates == {"free", "open", "committed", "aborted"}
Committed == {r \in Rows : row[r] = "committed"}

\* Every variable has its type; positions and batches refer to committed rows
\* only, and an actor that is in no method holds none.
TypeOK ==
    /\ row \in [Rows -> RowStates]
    /\ wanted \subseteq Rows
    /\ checkpoint \in Committed \cup {0}
    /\ applied \in [Rows -> Nat]
    /\ pc \in [Actors -> Labels]
    /\ upto \in [Actors -> Committed \cup {0}]
    /\ left \in [Actors -> SUBSET Committed]
    /\ handled \in [Actors -> SUBSET Committed]
    /\ {short, overlapped, torn} \subseteq BOOLEAN
    /\ skipped \cup late \cup redo \subseteq Rows
    /\ rebuilds \in Nat /\ faults \in Nat
    /\ \A a \in Actors : left[a] # {} => pc[a] \in {"handle", "save"}

\* The events the read model should contain, and the known ways to lose one.
Due(r) == r \in wanted /\ row[r] = "committed"
Excused(r) == r \in skipped \/ r \in late \/ torn

\* An event the checkpoint has passed is in the read model: gaps, crashes,
\* overlapping runners and a rebuild that runs alone lose none.  Only three
\* things do: a break in the middle of a batch, a transaction that commits
\* late, and a rebuild that a runner overlaps or that does not complete.
NothingMissed ==
    \A r \in Rows : Due(r) /\ r <= checkpoint /\ pc[Rebuilder] = "idle"
                     => applied[r] > 0 \/ Excused(r)

\* An event is added into the read model once, unless the batch that handled it
\* never saved its checkpoint, or actors overlap; a rebuild puts it right.
AppliedOnce == \A r \in Rows : applied[r] > 1 => r \in redo \/ overlapped \/ torn

\* "To preserve ordering" (workers.ts:65): an event is handled after every
\* earlier one, with the same exceptions.
HandledInOrder ==
    [][\A q, r \in Rows : q < r /\ Due(q) /\ applied'[r] > applied[r]
          => applied[q] > 0 \/ Excused(q)]_vars

\* Every event reaches the read model, after any failure or crash and again
\* after a rebuild, with the same exceptions.  Failures pass: MaxFaults.
EveryEventIsHandled == \A r \in Rows : Due(r) ~> applied[r] > 0 \/ Excused(r)

\* projection-engine.ts:140, "Stop processing this projector on error - will
\* retry next cycle": an event whose handling failed is not passed over.  The
\* code does not do this when the event is not the first of its batch.
FailedEventIsRetried ==
    \A r \in Rows : Due(r) /\ r <= checkpoint /\ ~torn => applied[r] > 0 \/ r \in late

\* projection-engine.ts:29, "Handle a single event. Must be idempotent.": an
\* event handled again leaves the read model as it was.  The code does not do
\* this: WalletProjector increments, and a batch is handled again when its
\* checkpoint was not saved.
HandledTwiceCountsOnce == \A r \in Rows : ~overlapped /\ ~torn => applied[r] <= 1

==============================================================================
