------------------------ MODULE ProjectionEngine_proofs ------------------------
(***************************************************************************)
(* Proofs about ProjectionEngine, for any finite set of rows, any number   *)
(* of runners, any batch size and number of failures and rebuilds.         *)
(***************************************************************************)
EXTENDS ProjectionEngine, FiniteSetTheorems, TLAPS

USE ProjectionAssumption

(***************************************************************************)
(* Type correctness.                                                       *)
(***************************************************************************)

\* TypeOK, in the parts that the actions disturb separately.
TableOK == row \in [Rows -> RowStates] /\ wanted \subseteq Rows

ModelOK == checkpoint \in Committed \cup {0} /\ applied \in [Rows -> Nat]

ActorsOK ==
    /\ pc \in [Actors -> Labels]
    /\ upto \in [Actors -> Committed \cup {0}]
    /\ left \in [Actors -> SUBSET Committed]
    /\ handled \in [Actors -> SUBSET Committed]
    /\ \A a \in Actors : left[a] # {} => pc[a] \in {"handle", "save"}

FlagsOK == short \in BOOLEAN /\ overlapped \in BOOLEAN /\ torn \in BOOLEAN

CountersOK == skipped \cup late \cup redo \subseteq Rows /\ rebuilds \in Nat /\ faults \in Nat

LEMMA TypeParts == TypeOK <=> TableOK /\ ModelOK /\ ActorsOK /\ FlagsOK /\ CountersOK
  BY DEF TypeOK, TableOK, ModelOK, ActorsOK, FlagsOK, CountersOK

LEMMA TypeInit == Init => TypeOK
  <1> SUFFICES ASSUME Init PROVE TypeOK
    OBVIOUS
  <1>1. TableOK /\ ModelOK /\ ActorsOK
    BY DEF Init, TableOK, ModelOK, ActorsOK, RowStates, Labels
  <1>2. FlagsOK /\ CountersOK
    BY DEF Init, FlagsOK, CountersOK
  <1>3. QED
    BY <1>1, <1>2, TypeParts

LEMMA RowsAreIds == Rows \subseteq Nat /\ 0 \notin Rows /\ Rebuilder \in Actors /\ Runners \subseteq Actors
  BY DEF Actors

LEMMA PositionsAreNat ==
    ASSUME TypeOK
    PROVE  checkpoint \in Nat /\ \A a \in Actors : upto[a] \in Nat
  <1>1. ASSUME NEW i \in Committed \cup {0} PROVE i \in Nat
    <2>1. CASE i \in Rows
      BY <2>1, RowsAreIds
    <2>2. CASE i = 0
      BY <2>2
    <2>3. QED
      BY <2>1, <2>2 DEF Committed
  <1>2. checkpoint \in Committed \cup {0} /\ \A a \in Actors : upto[a] \in Committed \cup {0}
    BY DEF TypeOK
  <1>3. QED
    BY <1>1, <1>2

\* A committed row stays committed.
LEMMA CommittedGrows ==
    ASSUME TypeOK, NEW r \in Rows, InsertRow(r) \/ CommitRow(r) \/ AbortRow(r)
    PROVE  Committed \subseteq Committed' /\ TableOK'
  BY DEF TypeOK, InsertRow, CommitRow, AbortRow, Committed, TableOK, RowStates

LEMMA WriterType ==
    ASSUME TypeOK, NEW r \in Rows, InsertRow(r) \/ CommitRow(r) \/ AbortRow(r)
    PROVE  TypeOK'
  <1>1. Committed \subseteq Committed' /\ TableOK'
    BY CommittedGrows
  <1>2. UNCHANGED <<checkpoint, applied, reader, skipped, redo, overlapped, torn, bounds>>
    BY DEF InsertRow, CommitRow, AbortRow, history
  <1>3. late' \subseteq Rows
    BY DEF InsertRow, CommitRow, AbortRow, history, TypeOK
  <1>4. ModelOK' /\ ActorsOK'
    BY <1>1, <1>2, TypeParts DEF ModelOK, ActorsOK, reader
  <1>5. FlagsOK' /\ CountersOK'
    BY <1>2, <1>3, TypeParts DEF FlagsOK, CountersOK, reader, bounds
  <1>6. QED
    BY <1>1, <1>4, <1>5, TypeParts DEF TypeOK, TableOK, ModelOK, ActorsOK, FlagsOK, CountersOK

\* An actor's method leaves the others where they are.
LEMMA OthersStay ==
    ASSUME TypeOK, NEW a \in Actors, GetCheckpoint(a) \/ Continue(a) \/ Abandon(a)
    PROVE  \A b \in Actors \ {a} : /\ pc'[b] = pc[b] /\ upto'[b] = upto[b]
                                   /\ left'[b] = left[b] /\ handled'[b] = handled[b]
  BY DEF TypeOK, GetCheckpoint, Continue, Abandon, ReadBatch, ReadNothing, Save, Handle,
         HandleThrows, ResetCheckpoint, Release, Goto

LEMMA ReleaseType ==
    ASSUME ActorsOK, NEW a \in Actors, Release(a), row' = row
    PROVE  /\ ActorsOK'
           /\ pc'[a] = "idle" /\ upto'[a] = 0 /\ left'[a] = {} /\ handled'[a] = {}
  BY DEF ActorsOK, Release, Goto, Labels, Committed

\* A batch is a set of committed rows beyond the position, closed downwards.
LEMMA BatchIsAhead ==
    ASSUME TypeOK, NEW a \in Actors
    PROVE  /\ NextBatch(a) \subseteq Ahead(a) /\ Ahead(a) \subseteq Committed
           /\ \A r \in NextBatch(a) : r > upto[a]
           /\ \A r \in NextBatch(a), q \in Ahead(a) : q < r => q \in NextBatch(a)
  <1>1. NextBatch(a) \subseteq Ahead(a) /\ Ahead(a) \subseteq Committed
    BY DEF NextBatch, Ahead, Committed
  <1>2. \A r \in NextBatch(a) : r > upto[a]
    BY DEF NextBatch, Ahead
  <1>3. ASSUME NEW r \in NextBatch(a), NEW q \in Ahead(a), q < r
        PROVE  q \in NextBatch(a)
    <2> DEFINE Lower(n) == {s \in Ahead(a) : s < n}
    <2>1. r \in Nat /\ q \in Nat /\ \A s \in Ahead(a) : s \in Nat
      BY <1>1, RowsAreIds DEF Committed
    <2>2. Lower(q) \subseteq Lower(r)
      <3> SUFFICES ASSUME NEW s \in Lower(q) PROVE s \in Lower(r)
        OBVIOUS
      <3>1. s \in Ahead(a) /\ s \in Nat /\ s < q /\ q < r
        BY <1>3, <2>1
      <3>2. s < r
        BY <2>1, <3>1
      <3>3. QED
        BY <3>1, <3>2
    <2>3. IsFiniteSet(Lower(r))
      BY <1>1, FS_Subset DEF Committed
    <2>4. /\ Cardinality(Lower(q)) <= Cardinality(Lower(r))
          /\ Cardinality(Lower(q)) \in Nat /\ Cardinality(Lower(r)) \in Nat
      BY <2>2, <2>3, FS_Subset, FS_CardinalityType
    <2>5. Cardinality(Lower(r)) < BatchSize
      BY <1>3 DEF NextBatch
    <2> HIDE DEF Lower
    <2>6. Cardinality(Lower(q)) < BatchSize
      BY <2>4, <2>5
    <2>7. QED
      BY <2>6 DEF NextBatch, Lower
  <1>4. QED
    BY <1>1, <1>2, <1>3

\* What ReadBatch does to its actor.
LEMMA ReadBatchEffect ==
    ASSUME TypeOK, NEW a \in Actors, ReadBatch(a)
    PROVE  /\ upto'[a] \in NextBatch(a) /\ \A s \in NextBatch(a) : s <= upto'[a]
           /\ upto'[a] \in Committed /\ upto'[a] > upto[a]
           /\ left'[a] = NextBatch(a) /\ handled'[a] = {} /\ pc'[a] = "handle"
           /\ \A q \in Rows : row[q] = "committed" /\ q <= upto'[a] => q <= upto[a] \/ q \in left'[a]
  <1>1. PICK r \in EndOf(NextBatch(a)) : upto' = [upto EXCEPT ![a] = r]
    BY DEF ReadBatch
  <1>2. r \in NextBatch(a) /\ \A s \in NextBatch(a) : s <= r
    BY DEF EndOf
  <1>3. /\ upto'[a] = r /\ left'[a] = NextBatch(a) /\ handled'[a] = {} /\ pc'[a] = "handle"
    BY <1>1 DEF ReadBatch, Goto, TypeOK
  <1>4. r \in Committed /\ r > upto[a]
    BY <1>2, BatchIsAhead
  <1>5. ASSUME NEW q \in Rows, row[q] = "committed", q <= upto'[a]
        PROVE  q <= upto[a] \/ q \in left'[a]
    <2>1. q \in Nat /\ r \in Nat /\ upto[a] \in Nat
      <3>1. upto[a] \in Nat
        BY PositionsAreNat
      <3>2. Committed \subseteq Nat
        BY RowsAreIds DEF Committed
      <3>3. r \in Nat
        BY <1>4, <3>2
      <3>4. QED
        BY <3>1, <3>3, RowsAreIds
    <2>2. CASE q = r
      BY <1>2, <1>3, <2>2
    <2>3. CASE q < r /\ q > upto[a]
      <3>1. q \in Ahead(a)
        BY <1>5, <2>3 DEF Ahead
      <3>2. QED
        BY <1>2, <1>3, <2>3, <3>1, BatchIsAhead
    <2>4. QED
      BY <1>3, <1>5, <2>1, <2>2, <2>3
  <1>6. QED
    BY <1>2, <1>3, <1>4, <1>5

LEMMA MethodType ==
    ASSUME TypeOK, NEW a \in Actors, GetCheckpoint(a) \/ Continue(a) \/ Abandon(a)
    PROVE  TypeOK'
  <1>0. TableOK /\ ModelOK /\ ActorsOK /\ FlagsOK /\ CountersOK
    BY TypeParts
  <1>1. row' = row /\ wanted' = wanted /\ Committed' = Committed /\ TableOK'
    BY <1>0 DEF GetCheckpoint, Continue, Abandon, ReadBatch, ReadNothing, Save, Handle,
                HandleThrows, ResetCheckpoint, writers, Committed, TableOK
  <1>2. ModelOK'
    <2>1. checkpoint' \in {checkpoint, upto[a], 0}
      BY DEF GetCheckpoint, Continue, Abandon, ReadBatch, ReadNothing, Save, Handle,
             HandleThrows, ResetCheckpoint
    <2>2. applied' = applied \/ \E r \in Rows : Apply(r)
      BY DEF GetCheckpoint, Continue, Abandon, ReadBatch, ReadNothing, Save, Handle,
             HandleThrows, ResetCheckpoint
    <2>3. applied' \in [Rows -> Nat]
      BY <1>0, <2>2 DEF ModelOK, Apply
    <2>4. QED
      BY <1>0, <1>1, <2>1, <2>3 DEF ModelOK, ActorsOK
  <1>3. FlagsOK'
    <2>1. overlapped' \in BOOLEAN
      BY <1>0 DEF FlagsOK, GetCheckpoint, Continue, Abandon, ReadBatch, ReadNothing, Save, Handle,
             HandleThrows, ResetCheckpoint, history
    <2>2. torn' \in BOOLEAN
      BY <1>0 DEF FlagsOK, GetCheckpoint, Continue, Abandon, ReadBatch, ReadNothing, Save, Handle,
             HandleThrows, ResetCheckpoint, history
    <2>3. short' \in BOOLEAN
      <3>1. short' = short \/ short' = (Cardinality(NextBatch(a)) < BatchSize)
        BY DEF GetCheckpoint, Continue, Abandon, ReadBatch, ReadNothing, Save, Handle,
               HandleThrows, ResetCheckpoint
      <3>2. (Cardinality(NextBatch(a)) < BatchSize) \in BOOLEAN
        OBVIOUS
      <3>3. QED
        BY <1>0, <3>1, <3>2, Zenon DEF FlagsOK
    <2>4. QED
      BY <2>1, <2>2, <2>3 DEF FlagsOK
  <1>4. CountersOK'
    <2>1. rebuilds' \in Nat /\ faults' \in Nat
      BY <1>0 DEF CountersOK, GetCheckpoint, Continue, Abandon, ReadBatch, ReadNothing, Save, Handle,
             HandleThrows, ResetCheckpoint, bounds, Fault
    <2>2. skipped' \subseteq Rows /\ late' \subseteq Rows
      BY <1>0 DEF CountersOK, TableOK, GetCheckpoint, Continue, Abandon, ReadBatch, ReadNothing, Save,
             Handle, HandleThrows, ResetCheckpoint, history
    <2>3. redo' \subseteq Rows
      BY <1>0 DEF CountersOK, TableOK, GetCheckpoint, Continue, Abandon, ReadBatch, ReadNothing, Save,
             Handle, HandleThrows, ResetCheckpoint, history
    <2>4. QED
      BY <2>1, <2>2, <2>3 DEF CountersOK
  <1>5. ActorsOK'
    <2>1. CASE GetCheckpoint(a)
      BY <1>0, <1>1, <2>1 DEF GetCheckpoint, Goto, ActorsOK, ModelOK, Labels
    <2>2. CASE ReadBatch(a)
      <3>1. left'[a] \subseteq Committed /\ upto'[a] \in Committed /\ handled'[a] = {} /\ pc'[a] = "handle"
        BY <2>2, ReadBatchEffect, BatchIsAhead
      <3>2. \A b \in Actors \ {a} : /\ pc'[b] = pc[b] /\ upto'[b] = upto[b]
                                    /\ left'[b] = left[b] /\ handled'[b] = handled[b]
        BY <2>2, OthersStay DEF Continue
      <3>3. \E u : upto' = [upto EXCEPT ![a] = u]
        BY <2>2 DEF ReadBatch
      <3>4. /\ pc' = [pc EXCEPT ![a] = "handle"] /\ left' = [left EXCEPT ![a] = NextBatch(a)]
            /\ handled' = [handled EXCEPT ![a] = {}]
        BY <2>2 DEF ReadBatch, Goto
      <3>5. QED
        BY <1>0, <1>1, <3>1, <3>2, <3>3, <3>4 DEF ActorsOK, Labels
    <2>3. CASE ReadNothing(a)
      <3>1. CASE a = Rebuilder
        BY <1>0, <1>1, <2>3, <3>1 DEF ReadNothing, Goto, ActorsOK, Labels
      <3>2. CASE a # Rebuilder
        BY <1>0, <1>1, <2>3, <3>2, ReleaseType DEF ReadNothing
      <3>3. QED
        BY <3>1, <3>2
    <2>4. CASE Save(a)
      BY <1>0, <1>1, <2>4, ReleaseType DEF Save
    <2>5. ASSUME NEW r \in Rows, Handle(a, r) PROVE ActorsOK'
      <3>1. r \in left[a] /\ r \in Committed
        BY <1>0, <2>5 DEF Handle, At, ActorsOK
      <3>2. pc'[a] \in Labels /\ (left[a] # {r} => pc'[a] = "handle")
        BY <1>0, <2>5 DEF Handle, Goto, AfterBatch, Labels, ActorsOK
      <3>3. /\ left' = [left EXCEPT ![a] = left[a] \ {r}]
            /\ handled' = [handled EXCEPT ![a] = handled[a] \cup {r}] /\ upto' = upto
        BY <2>5 DEF Handle
      <3>4. \E l : pc' = [pc EXCEPT ![a] = l]
        BY <2>5 DEF Handle, Goto
      <3>5. QED
        BY <1>0, <1>1, <3>1, <3>2, <3>3, <3>4 DEF ActorsOK
    <2>6. ASSUME NEW r \in Rows, HandleThrows(a, r) PROVE ActorsOK'
      <3>1. CASE handled[a] # {}
        BY <1>0, <1>1, <2>6, <3>1 DEF HandleThrows, Goto, ActorsOK, Labels
      <3>2. CASE handled[a] = {}
        BY <1>0, <1>1, <2>6, <3>2, ReleaseType DEF HandleThrows
      <3>3. QED
        BY <3>1, <3>2
    <2>7. CASE a = Rebuilder /\ ResetCheckpoint
      BY <1>0, <1>1, <2>7 DEF ResetCheckpoint, Goto, ActorsOK, Labels
    <2>8. CASE Abandon(a)
      BY <1>0, <1>1, <2>8, ReleaseType DEF Abandon
    <2>9. QED
      BY <2>1, <2>2, <2>3, <2>4, <2>5, <2>6, <2>7, <2>8 DEF Continue
  <1>6. QED
    BY <1>1, <1>2, <1>3, <1>4, <1>5, TypeParts
       DEF TypeOK, TableOK, ModelOK, ActorsOK, FlagsOK, CountersOK

LEMMA RebuildType ==
    ASSUME TypeOK, StartRebuild
    PROVE  TypeOK'
  <1>0. TableOK /\ ModelOK /\ ActorsOK /\ FlagsOK /\ CountersOK
    BY TypeParts
  <1>1. row' = row /\ Committed' = Committed /\ TableOK'
    BY <1>0 DEF StartRebuild, writers, Committed, TableOK
  <1>2. ModelOK' /\ ActorsOK'
    BY <1>0, <1>1, RowsAreIds DEF StartRebuild, Goto, ModelOK, ActorsOK, Labels
  <1>3. FlagsOK'
    BY <1>0 DEF StartRebuild, FlagsOK
  <1>4. CountersOK'
    BY <1>0 DEF StartRebuild, CountersOK
  <1>5. QED
    BY <1>1, <1>2, <1>3, <1>4, TypeParts
       DEF TypeOK, TableOK, ModelOK, ActorsOK, FlagsOK, CountersOK

LEMMA TypeNext == TypeOK /\ [Next]_vars => TypeOK'
  <1> SUFFICES ASSUME TypeOK, [Next]_vars PROVE TypeOK'
    OBVIOUS
  <1>1. CASE UNCHANGED vars
    BY <1>1 DEF vars, writers, reader, history, bounds, TypeOK, Committed
  <1>2. QED
    BY <1>1, WriterType, MethodType, RebuildType DEF Next

\* Type correctness: positions, batches and the checkpoint only ever refer to
\* rows that were committed when they were read.
THEOREM TypeCorrect == Spec => []TypeOK
  BY TypeInit, TypeNext, PTL DEF Spec

(***************************************************************************)
(* The inductive invariants.                                               *)
(***************************************************************************)

\* Where an actor stands: an idle one holds nothing and has no position, a batch
\* lies below the position read up to, and a runner reads before it handles.
PlacesOK ==
    \A a \in Actors :
       /\ pc[a] \in {"idle", "reset"} => upto[a] = 0 /\ handled[a] = {}
       /\ \A r \in left[a] : r <= upto[a]
       /\ pc[a] = "read" /\ a \in Runners => handled[a] = {}

\* A rebuild that runners overlap is torn.
RebuildAlone == torn \/ ~ Busy(Rebuilder) \/ \A b \in Runners : ~ Busy(b)

\* What an actor has read past and has not left to handle is in the read model.
Covered(a) ==
    \A r \in Rows : Due(r) /\ r <= upto[a] => applied[r] > 0 \/ r \in left[a] \/ Excused(r)

MissInv ==
    /\ PlacesOK /\ RebuildAlone /\ NothingMissed
    /\ \A a \in Actors : Busy(a) => Covered(a)

\* Nobody overlaps: one actor at a time is in a method.
OneBusy == \A a, b \in Actors : Busy(a) /\ Busy(b) => a = b

\* A row in the read model is behind whoever is busy; what a runner put there is
\* behind the checkpoint or among the rows it has handled; and with nobody busy
\* it is behind the checkpoint.
Settled(r) ==
    /\ r \in wanted
    /\ \A a \in Actors : Busy(a) =>
          /\ r <= upto[a] /\ r \notin left[a]
          /\ a \in Runners => r <= checkpoint \/ r \in handled[a]
    /\ (\A a \in Actors : ~ Busy(a)) => r <= checkpoint

Once == OneBusy /\ \A r \in Rows \ redo : applied[r] <= 1 /\ (applied[r] > 0 => Settled(r))

OnceInv == PlacesOK /\ (~ overlapped /\ ~ torn => Once)

(***************************************************************************)
(* Where an actor stands.                                                  *)
(***************************************************************************)

LEMMA IdleHoldsNothing ==
    ASSUME TypeOK, NEW a \in Actors, pc[a] \in {"idle", "reset", "read"}
    PROVE  left[a] = {}
  BY DEF TypeOK

LEMMA PlacesNext == TypeOK /\ PlacesOK /\ [Next]_vars => PlacesOK'
  <1> SUFFICES ASSUME TypeOK, PlacesOK, [Next]_vars PROVE PlacesOK'
    OBVIOUS
  <1>0. ActorsOK
    BY TypeParts
  <1>1. ASSUME UNCHANGED reader PROVE PlacesOK'
    BY <1>1 DEF reader, PlacesOK
  <1>2. ASSUME NEW a \in Actors, GetCheckpoint(a) \/ Continue(a) \/ Abandon(a)
        PROVE  PlacesOK'
    <2>1. \A b \in Actors \ {a} : /\ pc'[b] = pc[b] /\ upto'[b] = upto[b]
                                  /\ left'[b] = left[b] /\ handled'[b] = handled[b]
      BY <1>2, OthersStay
    <2>2. ASSUME /\ pc'[a] \in {"idle", "reset"} => upto'[a] = 0 /\ handled'[a] = {}
                 /\ \A r \in left'[a] : r <= upto'[a]
                 /\ pc'[a] = "read" /\ a \in Runners => handled'[a] = {}
          PROVE  PlacesOK'
      BY <2>1, <2>2 DEF PlacesOK
    <2>3. ASSUME Release(a) PROVE PlacesOK'
      BY <1>0, <2>2, <2>3 DEF Release, Goto, ActorsOK
    <2>4. CASE GetCheckpoint(a)
      <3>1. left'[a] = {} /\ handled'[a] = {} /\ pc'[a] = "read"
        BY <1>0, <2>4, IdleHoldsNothing DEF GetCheckpoint, Goto, PlacesOK, ActorsOK
      <3>2. QED
        BY <2>2, <3>1
    <2>5. CASE ReadBatch(a)
      BY <2>2, <2>5, ReadBatchEffect
    <2>6. CASE ReadNothing(a)
      <3>1. CASE a = Rebuilder
        <4>1. left'[a] = left[a] /\ pc'[a] = "save" /\ upto'[a] = upto[a]
          BY <1>0, <2>6, <3>1 DEF ReadNothing, Goto, ActorsOK
        <4>2. QED
          BY <2>2, <4>1 DEF PlacesOK
      <3>2. CASE a # Rebuilder
        BY <2>3, <2>6, <3>2 DEF ReadNothing
      <3>3. QED
        BY <3>1, <3>2
    <2>7. CASE Save(a) \/ Abandon(a)
      BY <2>3, <2>7 DEF Save, Abandon
    <2>8. ASSUME NEW r \in Rows, Handle(a, r) PROVE PlacesOK'
      <3>1. /\ left'[a] \subseteq left[a] /\ upto'[a] = upto[a]
            /\ pc'[a] \in {"handle", "save", "read"} /\ (pc'[a] = "read" => a = Rebuilder)
        BY <1>0, <2>8 DEF Handle, Goto, AfterBatch, ActorsOK
      <3>2. QED
        BY <2>2, <3>1 DEF PlacesOK
    <2>9. ASSUME NEW r \in Rows, HandleThrows(a, r) PROVE PlacesOK'
      <3>1. CASE handled[a] # {}
        <4>1. left'[a] = left[a] /\ pc'[a] = "save" /\ upto'[a] = upto[a]
          BY <1>0, <2>9, <3>1 DEF HandleThrows, Goto, ActorsOK
        <4>2. QED
          BY <2>2, <4>1 DEF PlacesOK
      <3>2. CASE handled[a] = {}
        BY <2>3, <2>9, <3>2 DEF HandleThrows
      <3>3. QED
        BY <3>1, <3>2
    <2>10. CASE a = Rebuilder /\ ResetCheckpoint
      <3>1. left'[a] = left[a] /\ pc'[a] = "read" /\ upto'[a] = upto[a]
        BY <1>0, <2>10 DEF ResetCheckpoint, Goto, ActorsOK
      <3>2. QED
        BY <2>2, <2>10, <3>1 DEF PlacesOK
    <2>11. QED
      BY <1>2, <2>4, <2>5, <2>6, <2>7, <2>8, <2>9, <2>10 DEF Continue
  <1>3. CASE StartRebuild
    BY <1>0, <1>3, RowsAreIds DEF StartRebuild, Goto, PlacesOK, ActorsOK
  <1>4. QED
    BY <1>1, <1>2, <1>3 DEF Next, vars, InsertRow, CommitRow, AbortRow

(***************************************************************************)
(* No event is missed, and each is handled after the earlier ones.         *)
(***************************************************************************)

\* A method only adds to the read model and to the excuses.
LEMMA MethodGrows ==
    ASSUME TypeOK, NEW a \in Actors, GetCheckpoint(a) \/ Continue(a) \/ Abandon(a)
    PROVE  /\ row' = row /\ wanted' = wanted /\ late' = late /\ skipped \subseteq skipped'
           /\ torn => torn'
           /\ \A r \in Rows : applied[r] > 0 => applied'[r] > 0
  <1>1. row' = row /\ wanted' = wanted /\ late' = late /\ skipped \subseteq skipped' /\ (torn => torn')
    <2>1. row' = row /\ wanted' = wanted
      BY DEF GetCheckpoint, Continue, Abandon, ReadBatch, ReadNothing, Save, Handle, HandleThrows,
             ResetCheckpoint, writers
    <2>2. late' = late /\ skipped \subseteq skipped'
      BY DEF GetCheckpoint, Continue, Abandon, ReadBatch, ReadNothing, Save, Handle, HandleThrows,
             ResetCheckpoint, history
    <2>3. torn => torn'
      BY DEF GetCheckpoint, Continue, Abandon, ReadBatch, ReadNothing, Save, Handle, HandleThrows,
             ResetCheckpoint, history
    <2>4. QED
      BY <2>1, <2>2, <2>3
  <1>2. applied' = applied \/ \E r \in Rows : Apply(r)
    BY DEF GetCheckpoint, Continue, Abandon, ReadBatch, ReadNothing, Save, Handle, HandleThrows,
           ResetCheckpoint
  <1>3. \A r \in Rows : applied[r] > 0 => applied'[r] > 0
    BY <1>2 DEF Apply, TypeOK
  <1>4. QED
    BY <1>1, <1>3

\* An actor stays covered when it reads no further than its new batch and leaves
\* only what it has handled, and when what becomes visible below it is late.
LEMMA CoveredFrame ==
    ASSUME NEW b \in Actors, Covered(b), wanted' = wanted, skipped \subseteq skipped',
           late \subseteq late', torn => torn',
           \A r \in Rows : applied[r] > 0 => applied'[r] > 0,
           \A r \in Rows : row'[r] = "committed" /\ r <= upto'[b] =>
              (row[r] = "committed" /\ r <= upto[b]) \/ r \in left'[b] \/ r \in late',
           \A r \in left[b] : r \in left'[b] \/ applied'[r] > 0 \/ r \notin wanted
    PROVE  Covered(b)'
  BY DEF Covered, Due, Excused

LEMMA MissNext == TypeOK /\ MissInv /\ [Next]_vars => MissInv'
  <1> SUFFICES ASSUME TypeOK, MissInv, [Next]_vars PROVE MissInv'
    OBVIOUS
  <1>0. TableOK /\ ModelOK /\ ActorsOK
    BY TypeParts
  <1>a. PlacesOK /\ PlacesOK'
    BY PlacesNext DEF MissInv
  <1>1. ASSUME NEW r \in Rows, InsertRow(r) \/ CommitRow(r) \/ AbortRow(r)
        PROVE  MissInv'
    <2>1. /\ UNCHANGED <<wanted, checkpoint, applied, reader, skipped, torn>>
          /\ late \subseteq late'
      BY <1>1 DEF InsertRow, CommitRow, AbortRow, history
    <2>2. \A q \in Rows : row'[q] = "committed" =>
             row[q] = "committed" \/ ((q <= checkpoint \/ \E b \in Actors : Busy(b) /\ q <= upto[b])
                                         => q \in late')
      BY <1>0, <1>1 DEF InsertRow, CommitRow, AbortRow, TableOK, ReadPast
    <2>3. RebuildAlone'
      BY <2>1 DEF MissInv, RebuildAlone, Busy, reader
    <2>4. NothingMissed'
      BY <2>1, <2>2 DEF MissInv, NothingMissed, Due, Excused, reader
    <2>5. ASSUME NEW b \in Actors, Busy(b)' PROVE Covered(b)'
      <3>1. Busy(b) /\ Covered(b) /\ upto' = upto /\ left' = left
        BY <2>1, <2>5 DEF Busy, reader, MissInv
      <3>2. \A q \in Rows : row'[q] = "committed" /\ q <= upto'[b] =>
               (row[q] = "committed" /\ q <= upto[b]) \/ q \in late'
        BY <2>2, <3>1
      <3>3. QED
        BY <2>1, <3>1, <3>2, CoveredFrame
    <2>6. QED
      BY <1>a, <2>3, <2>4, <2>5 DEF MissInv
  <1>2. ASSUME NEW a \in Actors, GetCheckpoint(a) \/ Continue(a) \/ Abandon(a)
        PROVE  MissInv'
    <2>1. /\ row' = row /\ wanted' = wanted /\ late' = late /\ skipped \subseteq skipped'
          /\ torn => torn'
          /\ \A r \in Rows : applied[r] > 0 => applied'[r] > 0
      BY <1>2, MethodGrows
    <2>2. \A b \in Actors \ {a} : /\ pc'[b] = pc[b] /\ upto'[b] = upto[b]
                                  /\ left'[b] = left[b] /\ handled'[b] = handled[b]
      BY <1>2, OthersStay
    <2>3. ASSUME NEW b \in Actors \ {a}, Busy(b)' PROVE Covered(b)'
      <3>1. Busy(b) /\ Covered(b)
        BY <2>2, <2>3 DEF Busy, MissInv
      <3>2. /\ \A r \in Rows : row'[r] = "committed" /\ r <= upto'[b] =>
                  row[r] = "committed" /\ r <= upto[b]
            /\ left'[b] = left[b]
        BY <2>1, <2>2
      <3>3. QED
        BY <2>1, <3>1, <3>2, CoveredFrame
    <2>4. ASSUME RebuildAlone', checkpoint' = checkpoint, Busy(a)' => Covered(a)',
                 pc'[Rebuilder] = "idle" => pc[Rebuilder] = "idle" \/ torn'
          PROVE  MissInv'
      <3>1. NothingMissed'
        BY <2>1, <2>4 DEF MissInv, NothingMissed, Due, Excused
      <3>2. QED
        BY <1>a, <2>3, <2>4, <3>1 DEF MissInv
    <2>5. ASSUME Busy(a) PROVE RebuildAlone'
      BY <2>1, <2>2, <2>5 DEF MissInv, RebuildAlone, Busy, Actors
    <2>6. CASE GetCheckpoint(a)
      <3>1. a \in Runners /\ a # Rebuilder /\ checkpoint' = checkpoint /\ pc[a] = "idle"
        BY <2>6 DEF GetCheckpoint
      <3>2. upto'[a] = checkpoint /\ (~ torn' => ~ torn /\ ~ Busy(Rebuilder))
        BY <1>0, <2>6 DEF GetCheckpoint, ActorsOK
      <3>3. RebuildAlone'
        BY <2>2, <3>1, <3>2 DEF RebuildAlone, Busy, Actors
      <3>4. Covered(a)'
        <4> SUFFICES ASSUME NEW r \in Rows, Due(r)', r <= upto'[a], ~ Excused(r)'
                     PROVE  applied'[r] > 0
          BY DEF Covered
        <4>1. ~ torn' /\ ~ Excused(r) /\ Due(r)
          BY <2>1, <3>2 DEF Excused, Due
        <4>2. applied[r] > 0
          BY <3>2, <4>1 DEF MissInv, NothingMissed, Busy
        <4>3. QED
          BY <2>1, <4>2
      <3>5. pc'[Rebuilder] = pc[Rebuilder]
        BY <2>2, <3>1, RowsAreIds
      <3>6. QED
        BY <2>4, <3>1, <3>3, <3>4, <3>5
    <2>7. CASE ReadBatch(a)
      <3>1. /\ pc[a] = "read" /\ Busy(a) /\ checkpoint' = checkpoint /\ pc'[a] = "handle"
            /\ left[a] = {}
        BY <2>7, ReadBatchEffect, IdleHoldsNothing DEF ReadBatch, Busy
      <3>2. Covered(a)'
        <4>1. Covered(a)
          BY <3>1 DEF MissInv
        <4>2. \A r \in Rows : row'[r] = "committed" /\ r <= upto'[a] =>
                 (row[r] = "committed" /\ r <= upto[a]) \/ r \in left'[a]
          BY <2>1, <2>7, ReadBatchEffect
        <4>3. QED
          BY <2>1, <3>1, <4>1, <4>2, CoveredFrame
      <3>3. pc'[Rebuilder] = "idle" => pc[Rebuilder] = "idle"
        BY <2>2, <3>1, RowsAreIds
      <3>4. QED
        BY <2>4, <2>5, <3>1, <3>2, <3>3
    <2>8. CASE ReadNothing(a)
      <3>1. pc[a] = "read" /\ Busy(a) /\ checkpoint' = checkpoint
        BY <2>8 DEF ReadNothing, Busy
      <3>2. CASE a = Rebuilder
        <4>1. left' = left /\ upto' = upto /\ pc'[a] = "save"
          BY <1>0, <2>8, <3>2 DEF ReadNothing, Goto, ActorsOK
        <4>2. Covered(a)'
          BY <2>1, <3>1, <4>1, CoveredFrame DEF MissInv
        <4>3. QED
          BY <2>4, <2>5, <3>1, <3>2, <4>1, <4>2
      <3>3. CASE a # Rebuilder
        <4>1. pc'[a] = "idle" /\ pc'[Rebuilder] = pc[Rebuilder]
          BY <1>0, <2>2, <2>8, <3>3, RowsAreIds DEF ReadNothing, Release, Goto, ActorsOK
        <4>2. QED
          BY <2>4, <2>5, <3>1, <4>1 DEF Busy
      <3>4. QED
        BY <3>2, <3>3
    <2>9. CASE Save(a)
      <3>1. /\ pc[a] = "save" /\ Busy(a) /\ pc'[a] = "idle" /\ checkpoint' = upto[a]
            /\ skipped' = skipped \cup (left[a] \cap wanted) /\ torn' = torn
        BY <1>0, <2>9 DEF Save, Busy, Release, Goto, ActorsOK
      <3>2. NothingMissed'
        <4> SUFFICES ASSUME NEW r \in Rows, Due(r)', r <= checkpoint', ~ Excused(r)'
                     PROVE  applied'[r] > 0
          BY DEF NothingMissed
        <4>1. Due(r) /\ ~ Excused(r) /\ r \notin left[a]
          BY <2>1, <3>1 DEF Due, Excused
        <4>2. applied[r] > 0
          BY <3>1, <4>1 DEF MissInv, Covered
        <4>3. QED
          BY <2>1, <4>2
      <3>3. QED
        BY <1>a, <2>3, <2>5, <3>1, <3>2 DEF MissInv, Busy
    <2>10. ASSUME NEW r \in Rows, Handle(a, r) PROVE MissInv'
      <3>1. /\ pc[a] = "handle" /\ Busy(a) /\ checkpoint' = checkpoint /\ upto' = upto
            /\ left'[a] = left[a] \ {r} /\ pc'[a] # "idle"
        BY <1>0, <2>10 DEF Handle, Busy, Goto, AfterBatch, ActorsOK
      <3>2. r \in wanted => applied'[r] > 0
        BY <1>0, <2>10 DEF Handle, Apply, ModelOK
      <3>3. Covered(a)'
        <4>1. \A q \in left[a] : q \in left'[a] \/ applied'[q] > 0 \/ q \notin wanted
          BY <3>1, <3>2
        <4>2. \A q \in Rows : row'[q] = "committed" /\ q <= upto'[a] =>
                 row[q] = "committed" /\ q <= upto[a]
          BY <2>1, <3>1
        <4>3. Covered(a)
          BY <3>1 DEF MissInv
        <4>4. QED
          BY <2>1, <4>1, <4>2, <4>3, CoveredFrame
      <3>4. pc'[Rebuilder] = "idle" => pc[Rebuilder] = "idle"
        BY <2>2, <3>1, RowsAreIds
      <3>5. QED
        BY <2>4, <2>5, <3>1, <3>3, <3>4
    <2>11. ASSUME NEW r \in Rows, HandleThrows(a, r) PROVE MissInv'
      <3>1. pc[a] = "handle" /\ Busy(a) /\ checkpoint' = checkpoint /\ a # Rebuilder
        BY <2>11 DEF HandleThrows, Busy
      <3>2. pc'[Rebuilder] = pc[Rebuilder]
        BY <2>2, <3>1, RowsAreIds
      <3>3. CASE handled[a] # {}
        <4>1. left' = left /\ upto' = upto
          BY <2>11, <3>3 DEF HandleThrows
        <4>2. Covered(a)'
          BY <2>1, <3>1, <4>1, CoveredFrame DEF MissInv
        <4>3. QED
          BY <2>4, <2>5, <3>1, <3>2, <4>2
      <3>4. CASE handled[a] = {}
        <4>1. pc'[a] = "idle"
          BY <1>0, <2>11, <3>4 DEF HandleThrows, Release, Goto, ActorsOK
        <4>2. QED
          BY <2>4, <2>5, <3>1, <3>2, <4>1 DEF Busy
      <3>5. QED
        BY <3>3, <3>4
    <2>12. CASE a = Rebuilder /\ ResetCheckpoint
      <3>1. /\ pc[a] = "reset" /\ Busy(a) /\ pc'[a] = "read" /\ upto'[a] = 0 /\ torn' = torn
        BY <1>0, <1>a, <2>12 DEF ResetCheckpoint, Busy, Goto, ActorsOK, PlacesOK, history
      <3>2. Covered(a)'
        <4>1. \A r \in Rows : ~ (r <= 0)
          OBVIOUS
        <4>2. QED
          BY <3>1, <4>1 DEF Covered
      <3>3. NothingMissed'
        BY <2>12, <3>1 DEF NothingMissed
      <3>4. QED
        BY <1>a, <2>3, <2>5, <3>1, <3>2, <3>3 DEF MissInv
    <2>13. CASE Abandon(a)
      <3>1. Busy(a) /\ checkpoint' = checkpoint /\ pc'[a] = "idle" /\ (a = Rebuilder => torn')
        BY <1>0, <2>13 DEF Abandon, Release, Goto, ActorsOK
      <3>2. a # Rebuilder => pc'[Rebuilder] = pc[Rebuilder]
        BY <2>2, RowsAreIds
      <3>3. QED
        BY <2>4, <2>5, <3>1, <3>2 DEF Busy
    <2>14. QED
      BY <1>2, <2>6, <2>7, <2>8, <2>9, <2>10, <2>11, <2>12, <2>13 DEF Continue
  <1>3. CASE StartRebuild
    <2>1. /\ pc'[Rebuilder] = "reset" /\ \A b \in Runners : pc'[b] = pc[b]
          /\ upto' = upto /\ upto[Rebuilder] = 0
          /\ ~ torn' => \A b \in Runners : ~ Busy(b)
      BY <1>0, <1>3, <1>a, RowsAreIds DEF StartRebuild, Goto, ActorsOK, PlacesOK
    <2>2. RebuildAlone'
      BY <2>1 DEF RebuildAlone, Busy
    <2>3. NothingMissed'
      BY <2>1 DEF NothingMissed
    <2>4. ASSUME NEW b \in Actors, Busy(b)' PROVE Covered(b)'
      <3>1. CASE torn'
        BY <3>1 DEF Covered, Excused
      <3>2. CASE ~ torn'
        <4>1. b = Rebuilder
          BY <2>1, <2>4, <3>2 DEF Busy, Actors
        <4>2. \A r \in Rows : ~ (r <= 0)
          OBVIOUS
        <4>3. QED
          BY <2>1, <4>1, <4>2 DEF Covered
      <3>3. QED
        BY <3>1, <3>2
    <2>5. QED
      BY <1>a, <2>2, <2>3, <2>4 DEF MissInv
  <1>4. CASE UNCHANGED vars
    BY <1>4 DEF vars, writers, reader, history, bounds, MissInv, PlacesOK, RebuildAlone,
                NothingMissed, Covered, Due, Excused, Busy
  <1>5. QED
    BY <1>1, <1>2, <1>3, <1>4 DEF Next

LEMMA MissInit == Init => MissInv
  <1> SUFFICES ASSUME Init PROVE MissInv
    OBVIOUS
  <1>1. PlacesOK /\ RebuildAlone /\ \A a \in Actors : ~ Busy(a)
    BY DEF Init, PlacesOK, RebuildAlone, Busy, Actors
  <1>2. NothingMissed
    BY DEF Init, NothingMissed, Due
  <1>3. QED
    BY <1>1, <1>2 DEF MissInv

\* projection-engine.ts: an event the checkpoint has passed is in the read
\* model, whatever gaps, crashes and overlapping runners there are; it can only
\* be lost by a break in the middle of a batch, by a transaction that commits
\* late, or by a torn rebuild.
THEOREM NoEventIsMissed == Spec => []NothingMissed
  <1>1. MissInv => NothingMissed
    BY DEF MissInv
  <1>2. QED
    BY <1>1, MissInit, MissNext, TypeCorrect, PTL DEF Spec

\* The step that adds r adds it after every earlier event.
LEMMA EarlierFirst ==
    ASSUME TypeOK, MissInv, [Next]_vars, NEW q \in Rows, NEW r \in Rows,
           q < r, Due(q), applied'[r] > applied[r]
    PROVE  applied[q] > 0 \/ Excused(q)
  <1>1. applied' # applied /\ applied \in [Rows -> Nat]
    BY DEF TypeOK
  <1>2. ~ StartRebuild
    <2> SUFFICES ASSUME StartRebuild PROVE FALSE
      OBVIOUS
    <2>1. applied'[r] = 0 /\ applied[r] \in Nat
      BY <1>1 DEF StartRebuild
    <2>2. QED
      BY <2>1
  <1>3. \E a \in Actors, s \in Rows : (Handle(a, s) \/ HandleThrows(a, s)) /\ Apply(s)
    BY <1>1, <1>2 DEF Next, vars, InsertRow, CommitRow, AbortRow, GetCheckpoint, Continue, Abandon,
           ReadBatch, ReadNothing, Save, Handle, HandleThrows, ResetCheckpoint
  <1>4. PICK a \in Actors, s \in Rows : (Handle(a, s) \/ HandleThrows(a, s)) /\ Apply(s)
    BY <1>3
  <1>5. s = r
    BY <1>1, <1>4 DEF Apply
  <1>6. pc[a] = "handle" /\ At(a, r)
    BY <1>4, <1>5 DEF Handle, HandleThrows
  <1>7. Covered(a) /\ r <= upto[a]
    BY <1>6 DEF MissInv, PlacesOK, At, Busy
  <1>8. q <= upto[a] /\ q \notin left[a]
    <2>1. q \in Nat /\ r \in Nat /\ upto[a] \in Nat
      BY RowsAreIds, PositionsAreNat
    <2>2. q <= upto[a]
      BY <1>7, <2>1
    <2>3. q \notin left[a]
      BY <1>6, <2>1 DEF At
    <2>4. QED
      BY <2>2, <2>3
  <1>9. QED
    BY <1>7, <1>8 DEF Covered

\* workers.ts:65, "To preserve ordering": an event is added into the read model
\* after every earlier one, with the exceptions of NoEventIsMissed.
THEOREM EventsAreHandledInOrder == Spec => HandledInOrder
  <1>1. TypeOK /\ MissInv /\ [Next]_vars =>
           [\A q, r \in Rows : q < r /\ Due(q) /\ applied'[r] > applied[r]
              => applied[q] > 0 \/ Excused(q)]_vars
    BY EarlierFirst
  <1>2. QED
    BY <1>1, MissInit, MissNext, TypeCorrect, PTL DEF Spec, HandledInOrder

(***************************************************************************)
(* Each event is added once.                                               *)
(***************************************************************************)

\* A row stays settled when the one busy actor keeps it behind itself, and when
\* that actor goes, behind the checkpoint.
LEMMA StillSettled ==
    ASSUME NEW a \in Actors, \A b \in Actors \ {a} : ~ Busy(b)', NEW r \in Rows,
           r \in wanted, wanted' = wanted,
           Busy(a)' => /\ r <= upto'[a] /\ r \notin left'[a]
                       /\ a \in Runners => r <= checkpoint' \/ r \in handled'[a],
           ~ Busy(a)' => r <= checkpoint'
    PROVE  Settled(r)'
  BY DEF Settled

\* One step of a method that is under way, nobody else being in one.
LEMMA OnceContinue ==
    ASSUME TypeOK, PlacesOK, Once, NEW a \in Actors, Continue(a) \/ Abandon(a), Busy(a), ~ torn'
    PROVE  Once'
  <1>0. TableOK /\ ModelOK /\ ActorsOK
    BY TypeParts
  <1>1. /\ wanted' = wanted /\ redo \subseteq redo'
        /\ \A b \in Actors \ {a} : pc'[b] = pc[b] /\ ~ Busy(b) /\ ~ Busy(b)'
    <2>1. wanted' = wanted
      BY MethodGrows
    <2>2. redo \subseteq redo'
      BY DEF Continue, Abandon, ReadBatch, ReadNothing, Save, Handle, HandleThrows,
             ResetCheckpoint, history
    <2>3. \A b \in Actors \ {a} : pc'[b] = pc[b] /\ ~ Busy(b)
      BY OthersStay DEF Once, OneBusy
    <2>4. QED
      BY <2>1, <2>2, <2>3 DEF Busy
  <1>2. OneBusy'
    BY <1>1 DEF OneBusy
  <1> SUFFICES ASSUME NEW r \in Rows \ redo'
               PROVE  applied'[r] <= 1 /\ (applied'[r] > 0 => Settled(r)')
    BY <1>2 DEF Once
  <1>3. /\ applied[r] <= 1 /\ applied[r] \in Nat /\ r \in Nat /\ upto[a] \in Nat
        /\ applied[r] > 0 => Settled(r)
    BY <1>0, <1>1, RowsAreIds, PositionsAreNat DEF Once, ModelOK
  <1>4. Settled(r) => /\ r \in wanted /\ r <= upto[a] /\ r \notin left[a]
                      /\ a \in Runners => r <= checkpoint \/ r \in handled[a]
    BY DEF Settled
  <1>5. ASSUME applied'[r] = applied[r],
               Settled(r) /\ Busy(a)' => /\ r <= upto'[a] /\ r \notin left'[a]
                                         /\ a \in Runners => r <= checkpoint' \/ r \in handled'[a],
               Settled(r) /\ ~ Busy(a)' => r <= checkpoint'
        PROVE  applied'[r] <= 1 /\ (applied'[r] > 0 => Settled(r)')
    BY <1>1, <1>3, <1>4, <1>5, StillSettled
  <1>6. CASE ReadBatch(a)
    <2>1. /\ upto'[a] > upto[a] /\ upto'[a] \in Committed /\ left'[a] = NextBatch(a)
          /\ \A q \in NextBatch(a) : q > upto[a]
          /\ applied' = applied /\ checkpoint' = checkpoint /\ pc'[a] = "handle"
      BY <1>6, ReadBatchEffect, BatchIsAhead DEF ReadBatch
    <2>2. upto'[a] \in Nat
      BY <2>1, RowsAreIds DEF Committed
    <2>3. r <= upto[a] => r <= upto'[a] /\ r \notin left'[a]
      <3>1. r <= upto[a] => r <= upto'[a]
        BY <1>3, <2>1, <2>2
      <3>2. r <= upto[a] => r \notin NextBatch(a)
        BY <1>3, <2>1
      <3>3. QED
        BY <2>1, <3>1, <3>2
    <2>4. a \in Runners => handled[a] = {}
      BY <1>6 DEF ReadBatch, PlacesOK
    <2>5. QED
      BY <1>4, <1>5, <2>1, <2>3, <2>4 DEF Busy
  <1>7. CASE ReadNothing(a)
    <2>1. pc[a] = "read" /\ applied' = applied /\ checkpoint' = checkpoint
      BY <1>7 DEF ReadNothing
    <2>2. CASE a = Rebuilder
      <3>1. left' = left /\ upto' = upto /\ pc'[a] = "save" /\ a \notin Runners
        BY <1>0, <1>7, <2>2 DEF ReadNothing, Goto, ActorsOK
      <3>2. QED
        BY <1>4, <1>5, <2>1, <3>1 DEF Busy
    <2>3. CASE a # Rebuilder
      <3>1. a \in Runners /\ handled[a] = {} /\ pc'[a] = "idle"
        BY <1>0, <1>7, <2>1, <2>3 DEF ReadNothing, Release, Goto, ActorsOK, Actors, PlacesOK
      <3>2. QED
        BY <1>4, <1>5, <2>1, <3>1 DEF Busy
    <2>4. QED
      BY <2>2, <2>3
  <1>8. CASE Save(a)
    <2>1. applied' = applied /\ checkpoint' = upto[a] /\ pc'[a] = "idle"
      BY <1>0, <1>8 DEF Save, Release, Goto, ActorsOK
    <2>2. QED
      BY <1>4, <1>5, <2>1 DEF Busy
  <1>9. ASSUME NEW s \in Rows, Handle(a, s)
        PROVE  applied'[r] <= 1 /\ (applied'[r] > 0 => Settled(r)')
    <2>1. /\ s \in left[a] /\ left'[a] = left[a] \ {s} /\ handled'[a] = handled[a] \cup {s}
          /\ upto' = upto /\ checkpoint' = checkpoint /\ pc'[a] # "idle"
      BY <1>0, <1>9 DEF Handle, At, Goto, AfterBatch, ActorsOK
    <2>2. CASE r = s /\ s \in wanted
      <3>1. applied[r] = 0
        BY <1>3, <1>4, <2>1, <2>2
      <3>2. applied'[r] = 1
        BY <1>0, <1>9, <2>2, <3>1 DEF Handle, Apply, ModelOK
      <3>3. r <= upto[a]
        BY <2>1, <2>2 DEF PlacesOK
      <3>4. Settled(r)'
        BY <1>1, <2>1, <2>2, <3>3, StillSettled DEF Busy
      <3>5. QED
        BY <3>2, <3>4
    <2>3. CASE ~ (r = s /\ s \in wanted)
      <3>1. applied'[r] = applied[r]
        BY <1>0, <1>9, <2>3 DEF Handle, Apply, ModelOK
      <3>2. QED
        BY <1>4, <1>5, <2>1, <3>1 DEF Busy
    <2>4. QED
      BY <2>2, <2>3
  <1>10. ASSUME NEW s \in Rows, HandleThrows(a, s)
         PROVE  applied'[r] <= 1 /\ (applied'[r] > 0 => Settled(r)')
    <2>1. applied'[r] = applied[r] /\ checkpoint' = checkpoint /\ a \in Runners
      BY <1>0, <1>10 DEF HandleThrows, Apply, ModelOK
    <2>2. CASE handled[a] # {}
      <3>1. left' = left /\ upto' = upto /\ handled' = handled /\ pc'[a] = "save"
        BY <1>0, <1>10, <2>2 DEF HandleThrows, Goto, ActorsOK
      <3>2. QED
        BY <1>4, <1>5, <2>1, <3>1 DEF Busy
    <2>3. CASE handled[a] = {}
      <3>1. pc'[a] = "idle"
        BY <1>0, <1>10, <2>3 DEF HandleThrows, Release, Goto, ActorsOK
      <3>2. QED
        BY <1>4, <1>5, <2>1, <2>3, <3>1 DEF Busy
    <2>4. QED
      BY <2>2, <2>3
  <1>11. CASE a = Rebuilder /\ ResetCheckpoint
    <2>1. applied' = applied /\ upto' = upto /\ left' = left /\ pc'[a] = "read" /\ a \notin Runners
      BY <1>0, <1>11 DEF ResetCheckpoint, Goto, ActorsOK
    <2>2. QED
      BY <1>4, <1>5, <2>1 DEF Busy
  <1>12. CASE Abandon(a)
    <2>1. /\ applied' = applied /\ checkpoint' = checkpoint /\ pc'[a] = "idle"
          /\ redo' = redo \cup (handled[a] \cap wanted) /\ a # Rebuilder
      BY <1>0, <1>12 DEF Abandon, Release, Goto, ActorsOK
    <2>2. a \in Runners /\ (r \in wanted => r \notin handled[a])
      BY <2>1 DEF Actors
    <2>3. QED
      BY <1>4, <1>5, <2>1, <2>2 DEF Busy
  <1>13. QED
    BY <1>6, <1>7, <1>8, <1>9, <1>10, <1>11, <1>12 DEF Continue

LEMMA OnceNext == TypeOK /\ OnceInv /\ [Next]_vars => OnceInv'
  <1> SUFFICES ASSUME TypeOK, OnceInv, [Next]_vars PROVE OnceInv'
    OBVIOUS
  <1>0. TableOK /\ ModelOK /\ ActorsOK
    BY TypeParts
  <1>a. PlacesOK /\ PlacesOK'
    BY PlacesNext DEF OnceInv
  <1>b. ~ overlapped /\ ~ torn => Once
    BY DEF OnceInv
  <1> SUFFICES ASSUME ~ overlapped', ~ torn' PROVE Once'
    BY <1>a DEF OnceInv
  <1>1. ASSUME UNCHANGED <<wanted, checkpoint, applied, reader, redo, overlapped, torn>>
        PROVE  Once'
    <2>1. Once
      BY <1>1, <1>b
    <2>2. QED
      BY <1>1, <2>1 DEF Once, OneBusy, Busy, Settled, reader
  <1>2. ASSUME NEW a \in Actors, GetCheckpoint(a) PROVE Once'
    <2>1. a \in Runners /\ a # Rebuilder /\ pc[a] = "idle" /\ ~ overlapped /\ ~ torn
      BY <1>2 DEF GetCheckpoint
    <2>2. \A b \in Actors : ~ Busy(b)
      BY <1>2 DEF GetCheckpoint, Actors
    <2>3. \A b \in Actors \ {a} : ~ Busy(b)'
      BY <1>2, <2>2, OthersStay DEF Busy
    <2>4. Once
      BY <1>b, <2>1
    <2>5. /\ upto'[a] = checkpoint /\ checkpoint' = checkpoint /\ left'[a] = {}
          /\ pc'[a] = "read" /\ redo' = redo /\ applied' = applied /\ wanted' = wanted
      BY <1>0, <1>2, <2>1, IdleHoldsNothing DEF GetCheckpoint, Goto, ActorsOK, writers
    <2>6. \A r \in Rows \ redo : applied[r] > 0 => r \in wanted /\ r <= checkpoint
      BY <2>2, <2>4 DEF Once, Settled
    <2>7. \A r \in Rows \ redo : applied[r] > 0 => Settled(r)'
      BY <2>3, <2>5, <2>6, StillSettled DEF Busy
    <2>8. OneBusy'
      BY <2>3 DEF OneBusy
    <2>9. QED
      BY <2>4, <2>5, <2>7, <2>8 DEF Once
  <1>3. ASSUME NEW a \in Actors, Continue(a) \/ Abandon(a) PROVE Once'
    <2>1. Busy(a)
      BY <1>3 DEF Continue, Abandon, ReadBatch, ReadNothing, Save, Handle, HandleThrows,
                  ResetCheckpoint, Busy
    <2>2. ~ torn
      BY <1>3, MethodGrows
    <2>3. overlapped' = overlapped
      BY <1>3 DEF Continue, Abandon, ReadBatch, ReadNothing, Save, Handle, HandleThrows,
                  ResetCheckpoint, history
    <2>4. QED
      BY <1>3, <1>a, <1>b, <2>1, <2>2, <2>3, OnceContinue
  <1>4. CASE StartRebuild
    <2>1. \A b \in Actors \ {Rebuilder} : ~ Busy(b)'
      BY <1>0, <1>4 DEF StartRebuild, Goto, ActorsOK, Busy, Actors
    <2>2. \A r \in Rows : applied'[r] = 0
      BY <1>4 DEF StartRebuild
    <2>3. QED
      BY <2>1, <2>2 DEF Once, OneBusy
  <1>5. ASSUME NEW r \in Rows, InsertRow(r) \/ CommitRow(r) \/ AbortRow(r) PROVE Once'
    BY <1>1, <1>5 DEF InsertRow, CommitRow, AbortRow, history
  <1>6. CASE UNCHANGED vars
    BY <1>1, <1>6 DEF vars, writers, history
  <1>7. QED
    BY <1>2, <1>3, <1>4, <1>5, <1>6 DEF Next

\* projection-engine.ts: an event is added into the read model at most once,
\* unless the batch that handled it never saved its checkpoint or actors
\* overlap, for any number of runners and any batch size.
THEOREM EventsAreAppliedOnce == Spec => []AppliedOnce
  <1>1. Init => OnceInv
    <2> SUFFICES ASSUME Init PROVE OnceInv
      OBVIOUS
    <2>1. PlacesOK
      BY MissInit DEF MissInv
    <2>2. OneBusy /\ \A r \in Rows : applied[r] = 0
      BY DEF Init, OneBusy, Busy
    <2>3. QED
      BY <2>1, <2>2 DEF OnceInv, Once
  <1>2. TypeOK /\ OnceInv => AppliedOnce
    <2> SUFFICES ASSUME TypeOK, OnceInv, NEW r \in Rows, r \notin redo, ~ overlapped, ~ torn
                 PROVE  ~ (applied[r] > 1)
      BY DEF AppliedOnce
    <2>1. applied[r] <= 1 /\ applied[r] \in Nat
      BY DEF OnceInv, Once, TypeOK
    <2>2. QED
      BY <2>1
  <1>3. QED
    BY <1>1, <1>2, OnceNext, TypeCorrect, PTL DEF Spec

=============================================================================
