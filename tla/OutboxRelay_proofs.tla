------------------------- MODULE OutboxRelay_proofs -------------------------
(***************************************************************************)
(* Proofs about OutboxRelay, for any finite sets of messages and           *)
(* publishers, any batch sizes, retry limit, and number of faults and      *)
(* resets.                                                                 *)
(***************************************************************************)
EXTENDS OutboxRelay, FiniteSetTheorems, TLAPS

USE RelayAssumption

(***************************************************************************)
(* Type correctness.                                                       *)
(***************************************************************************)

\* TypeOK, in the parts that the actions disturb separately.
RowsOK == row \in [Messages -> RowStates]

CountersOK == /\ existing \in [Publishers -> Nat]
              /\ stuck \subseteq Messages /\ shared \subseteq Messages
              /\ poison \subseteq Messages
              /\ delivered \in [Messages -> Nat] /\ failures \in [Messages -> Nat]
              /\ resets \in Nat /\ faults \in Nat

BatchesOK == /\ batch \in [Publishers -> SUBSET Messages]
             /\ pc \in [Publishers -> Labels]
             /\ \A p \in Publishers : batch[p] = {} <=> pc[p] = "poll"

Held == \A p \in Publishers : \A m \in batch[p] : row[m].status \notin {"absent", "purged"}

LEMMA TypeParts == TypeOK <=> RowsOK /\ CountersOK /\ BatchesOK /\ Held
  BY DEF TypeOK, RowsOK, CountersOK, BatchesOK, Held

LEMMA TypeInit == Init => TypeOK
  BY DEF Init, TypeOK, RowStates, Labels

\* A write of a status leaves every row a row.
LEMMA SetStatusType ==
    ASSUME RowsOK, NEW m \in Messages, NEW status,
           status \in {"absent", "pending", "published", "failed", "purged"},
           SetStatus(m, status)
    PROVE  /\ RowsOK'
           /\ row'[m].status = status
           /\ row'[m].retries = row[m].retries
           /\ \A n \in Messages \ {m} : row'[n] = row[n]
  BY DEF RowsOK, RowStates, SetStatus

\* The loop's step to its next message keeps batch and pc in agreement.
LEMMA DoneWithType ==
    ASSUME BatchesOK, NEW p \in Publishers, NEW m \in Messages, At(p, m), DoneWith(p, m)
    PROVE  BatchesOK' /\ \A q \in Publishers : batch'[q] \subseteq batch[q]
  BY DEF BatchesOK, At, DoneWith, Goto, Labels

LEMMA PollType ==
    ASSUME TypeOK, NEW p \in Publishers, Poll(p)
    PROVE  TypeOK'
  <1>1. Oldest(BatchSize[p]) \subseteq Pending /\ Pending \subseteq Messages
    BY DEF Oldest, Pending
  <1>2. BatchesOK'
    BY <1>1, TypeParts DEF Poll, BatchesOK, Goto, Labels
  <1>3. Held'
    BY <1>1, TypeParts DEF Poll, Held, BatchesOK, Pending
  <1>4. RowsOK' /\ CountersOK'
    BY <1>1, TypeParts DEF Poll, RowsOK, CountersOK, history
  <1>5. QED
    BY <1>2, <1>3, <1>4, TypeParts DEF TypeOK, RowsOK, CountersOK, BatchesOK, Held

LEMMA ContinueType ==
    ASSUME TypeOK, NEW p \in Publishers, NEW m \in Messages,
           \/ Publish(p, m) \/ PublishThrows(p, m) \/ MarkPublished(p, m)
           \/ MarkThrows(p, m) \/ FindExisting(p, m) \/ MarkFailed(p, m)
    PROVE  TypeOK'
  <1>1. RowsOK /\ CountersOK /\ BatchesOK /\ Held
    BY TypeParts
  <1>2. m \in batch[p]
    BY DEF Publish, PublishThrows, MarkPublished, MarkThrows, FindExisting, MarkFailed, At
  <1>3. CASE Publish(p, m)
    BY <1>1, <1>2, <1>3
       DEF Publish, Goto, history, TypeOK, RowsOK, CountersOK, BatchesOK, Held, Labels
  <1>4. CASE PublishThrows(p, m)
    BY <1>1, <1>2, <1>4
       DEF PublishThrows, Fault, Catch, Goto, TypeOK, RowsOK, CountersOK, BatchesOK, Held, Labels
  <1>5. CASE MarkPublished(p, m)
    <2>1. RowsOK' /\ row'[m].status = "published" /\ \A n \in Messages \ {m} : row'[n] = row[n]
      BY <1>1, <1>5, SetStatusType DEF MarkPublished
    <2>2. BatchesOK' /\ \A q \in Publishers : batch'[q] \subseteq batch[q]
      BY <1>1, <1>5, DoneWithType DEF MarkPublished
    <2>3. Held'
      BY <1>1, <2>1, <2>2 DEF Held, BatchesOK
    <2>4. CountersOK'
      BY <1>1, <1>5 DEF MarkPublished, CountersOK, history
    <2>5. QED
      BY <2>1, <2>2, <2>3, <2>4 DEF TypeOK, RowsOK, CountersOK, BatchesOK, Held
  <1>6. CASE MarkThrows(p, m)
    <2>1. RowsOK' /\ \A n \in Messages : row'[n].status \in {row[n].status, "published"}
      BY <1>1, <1>6, SetStatusType DEF MarkThrows, RowsOK, RowStates
    <2>2. BatchesOK' /\ batch' = batch
      BY <1>1, <1>2, <1>6 DEF MarkThrows, Catch, Goto, BatchesOK, Labels
    <2>3. Held'
      BY <1>1, <2>1, <2>2 DEF Held, BatchesOK
    <2>4. CountersOK'
      BY <1>1, <1>6 DEF MarkThrows, Fault, Catch, CountersOK
    <2>5. QED
      BY <2>1, <2>2, <2>3, <2>4 DEF TypeOK, RowsOK, CountersOK, BatchesOK, Held
  <1>7. CASE FindExisting(p, m)
    <2>1. row[m].retries \in Nat
      BY <1>1 DEF RowsOK, RowStates
    <2>2. QED
      BY <1>1, <1>2, <1>7, <2>1
         DEF FindExisting, Goto, history, TypeOK, RowsOK, CountersOK, BatchesOK, Held, Labels
  <1>8. CASE MarkFailed(p, m)
    <2>1. /\ RowsOK'
          /\ row'[m].status \in {"pending", "failed"}
          /\ \A n \in Messages \ {m} : row'[n] = row[n]
      BY <1>1, <1>8 DEF MarkFailed, StatusAfter, RowsOK, RowStates, CountersOK
    <2>2. BatchesOK' /\ \A q \in Publishers : batch'[q] \subseteq batch[q]
      BY <1>1, <1>8, DoneWithType DEF MarkFailed
    <2>3. Held'
      BY <1>1, <2>1, <2>2 DEF Held, BatchesOK
    <2>4. CountersOK'
      BY <1>1, <1>8 DEF MarkFailed, CountersOK, history
    <2>5. QED
      BY <2>1, <2>2, <2>3, <2>4 DEF TypeOK, RowsOK, CountersOK, BatchesOK, Held
  <1>9. QED
    BY <1>3, <1>4, <1>5, <1>6, <1>7, <1>8

LEMMA TypeNext == TypeOK /\ [Next]_vars => TypeOK'
  <1> SUFFICES ASSUME TypeOK, [Next]_vars PROVE TypeOK'
    OBVIOUS
  <1>0. RowsOK /\ CountersOK /\ BatchesOK /\ Held
    BY TypeParts
  <1>1. ASSUME NEW m \in Messages, Arrive(m) PROVE TypeOK'
    <2>1. RowsOK' /\ row'[m].status = "pending" /\ \A n \in Messages \ {m} : row'[n] = row[n]
      BY <1>0, <1>1 DEF Arrive, RowsOK, RowStates
    <2>2. QED
      BY <1>0, <1>1, <2>1
         DEF Arrive, relay, history, TypeOK, RowsOK, CountersOK, BatchesOK, Held
  <1>2. ASSUME NEW m \in Messages, Purge(m) PROVE TypeOK'
    <2>1. RowsOK' /\ \A n \in Messages \ {m} : row'[n] = row[n]
      BY <1>0, <1>2, SetStatusType DEF Purge
    <2>2. QED
      BY <1>0, <1>2, <2>1
         DEF Purge, relay, history, TypeOK, RowsOK, CountersOK, BatchesOK, Held
  <1>3. ASSUME NEW p \in Publishers, Poll(p) PROVE TypeOK'
    BY <1>3, PollType
  <1>4. ASSUME NEW p \in Publishers, Continue(p) PROVE TypeOK'
    BY <1>4, ContinueType DEF Continue
  <1>5. ASSUME NEW p \in Publishers, Abandon(p) PROVE TypeOK'
    BY <1>0, <1>5 DEF Abandon, Fault, Goto, history, TypeOK, RowsOK, CountersOK,
                      BatchesOK, Held, Labels
  <1>6. CASE FindStuck
    BY <1>0, <1>6 DEF FindStuck, Pending, relay, history, TypeOK, RowsOK, CountersOK,
                      BatchesOK, Held
  <1>7. CASE ResetStuck
    <2>1. RowsOK' /\ \A n \in Messages : row'[n].status = row[n].status
      BY <1>0, <1>7 DEF ResetStuck, RowsOK, RowStates
    <2>2. QED
      BY <1>0, <1>7, <2>1 DEF ResetStuck, relay, history, TypeOK, RowsOK, CountersOK,
                              BatchesOK, Held
  <1>8. CASE UNCHANGED vars
    BY <1>0, <1>8 DEF vars, TypeOK, RowsOK, CountersOK, BatchesOK, Held
  <1>9. QED
    BY <1>1, <1>2, <1>3, <1>4, <1>5, <1>6, <1>7, <1>8 DEF Next

\* Type correctness, and the agreement of batches, labels and rows.
THEOREM TypeCorrect == Spec => []TypeOK
  BY TypeInit, TypeNext, PTL DEF Spec

(***************************************************************************)
(* A message is marked published only once it was delivered.               *)
(***************************************************************************)

\* The inductive form: it is delivered before its publisher is about to mark it.
MarkedAfter ==
    \A p \in Publishers, m \in Messages : At(p, m) /\ pc[p] = "mark" => delivered[m] > 0

DeliveredInv == PublishedWasDelivered /\ MarkedAfter

\* No two messages are at the head of one batch.
LEMMA AtMostOneAt ==
    ASSUME NEW p \in Publishers, NEW m \in Messages, NEW n \in Messages, At(p, m), At(p, n)
    PROVE  m = n
  BY DEF At

LEMMA DeliveredNext == TypeOK /\ DeliveredInv /\ [Next]_vars => DeliveredInv'
  <1> SUFFICES ASSUME TypeOK, DeliveredInv, [Next]_vars PROVE DeliveredInv'
    OBVIOUS
  <1>0. RowsOK /\ CountersOK /\ BatchesOK
    BY TypeParts
  <1>1. ASSUME NEW m \in Messages, Arrive(m) PROVE DeliveredInv'
    BY <1>0, <1>1 DEF Arrive, relay, history, RowsOK, RowStates, DeliveredInv,
                      PublishedWasDelivered, MarkedAfter, At
  <1>2. ASSUME NEW m \in Messages, Purge(m) PROVE DeliveredInv'
    BY <1>0, <1>2, SetStatusType
       DEF Purge, relay, history, DeliveredInv, PublishedWasDelivered, MarkedAfter, At
  <1>3. ASSUME NEW p \in Publishers, Poll(p) PROVE DeliveredInv'
    BY <1>0, <1>3 DEF Poll, Goto, history, BatchesOK, DeliveredInv,
                      PublishedWasDelivered, MarkedAfter, At
  <1>4. ASSUME NEW p \in Publishers, NEW m \in Messages, Publish(p, m) PROVE DeliveredInv'
    <2>1. /\ delivered'[m] > 0
          /\ \A n \in Messages \ {m} : delivered'[n] = delivered[n]
      BY <1>0, <1>4 DEF Publish, CountersOK
    <2>2. MarkedAfter'
      BY <1>0, <1>4, <2>1, AtMostOneAt
         DEF Publish, Goto, BatchesOK, DeliveredInv, MarkedAfter, At
    <2>3. QED
      BY <1>4, <2>1, <2>2 DEF Publish, DeliveredInv, PublishedWasDelivered
  <1>5. ASSUME NEW p \in Publishers, NEW m \in Messages, PublishThrows(p, m)
        PROVE  DeliveredInv'
    BY <1>0, <1>5 DEF PublishThrows, Catch, Goto, BatchesOK, DeliveredInv,
                      PublishedWasDelivered, MarkedAfter, At
  <1>6. ASSUME NEW p \in Publishers, NEW m \in Messages, MarkPublished(p, m)
        PROVE  DeliveredInv'
    <2>1. delivered[m] > 0 /\ \A n \in Messages \ {m} : row'[n] = row[n]
      BY <1>0, <1>6, SetStatusType DEF MarkPublished, DeliveredInv, MarkedAfter
    <2>2. MarkedAfter'
      BY <1>0, <1>6 DEF MarkPublished, DoneWith, Goto, history, BatchesOK, DeliveredInv,
                        MarkedAfter, At
    <2>3. QED
      BY <1>6, <2>1, <2>2 DEF MarkPublished, history, DeliveredInv, PublishedWasDelivered
  <1>7. ASSUME NEW p \in Publishers, NEW m \in Messages, MarkThrows(p, m)
        PROVE  DeliveredInv'
    <2>1. delivered[m] > 0 /\ \A n \in Messages \ {m} : row'[n] = row[n]
      BY <1>0, <1>7, SetStatusType DEF MarkThrows, DeliveredInv, MarkedAfter
    <2>2. MarkedAfter'
      BY <1>0, <1>7 DEF MarkThrows, Catch, Goto, BatchesOK, DeliveredInv, MarkedAfter, At
    <2>3. QED
      BY <1>7, <2>1, <2>2 DEF MarkThrows, DeliveredInv, PublishedWasDelivered
  <1>8. ASSUME NEW p \in Publishers, NEW m \in Messages, FindExisting(p, m)
        PROVE  DeliveredInv'
    BY <1>0, <1>8 DEF FindExisting, Goto, history, BatchesOK, DeliveredInv,
                      PublishedWasDelivered, MarkedAfter, At
  <1>9. ASSUME NEW p \in Publishers, NEW m \in Messages, MarkFailed(p, m)
        PROVE  DeliveredInv'
    <2>1. /\ row'[m].status # "published"
          /\ \A n \in Messages \ {m} : row'[n] = row[n]
      BY <1>0, <1>9 DEF MarkFailed, StatusAfter, RowsOK
    <2>2. MarkedAfter'
      BY <1>0, <1>9 DEF MarkFailed, DoneWith, Goto, history, BatchesOK, DeliveredInv,
                        MarkedAfter, At
    <2>3. QED
      BY <1>9, <2>1, <2>2 DEF MarkFailed, history, DeliveredInv, PublishedWasDelivered
  <1>10. ASSUME NEW p \in Publishers, Abandon(p) PROVE DeliveredInv'
    BY <1>0, <1>10 DEF Abandon, Goto, history, BatchesOK, DeliveredInv,
                       PublishedWasDelivered, MarkedAfter, At
  <1>11. CASE FindStuck
    BY <1>11 DEF FindStuck, relay, history, DeliveredInv, PublishedWasDelivered, MarkedAfter, At
  <1>12. CASE ResetStuck
    <2>1. \A m \in Messages : row'[m].status = row[m].status
      BY <1>0, <1>12 DEF ResetStuck, RowsOK, RowStates
    <2>2. QED
      BY <1>12, <2>1 DEF ResetStuck, relay, history, DeliveredInv, PublishedWasDelivered,
                         MarkedAfter, At
  <1>13. CASE UNCHANGED vars
    BY <1>13 DEF vars, DeliveredInv, PublishedWasDelivered, MarkedAfter, At
  <1>14. QED
    BY <1>1, <1>2, <1>3, <1>4, <1>5, <1>6, <1>7, <1>8, <1>9, <1>10, <1>11, <1>12, <1>13
       DEF Next, Continue

\* workers.ts:35: a message is only marked published after the event bus took
\* it, whatever publishers, faults and resets there are.
THEOREM PublishedIsDelivered == Spec => []PublishedWasDelivered
  <1>1. Init => DeliveredInv
    BY DEF Init, DeliveredInv, PublishedWasDelivered, MarkedAfter
  <1>2. QED
    BY <1>1, TypeCorrect, DeliveredNext, PTL DEF Spec, DeliveredInv

(***************************************************************************)
(* A message is given up only after MaxRetries failures of its own.        *)
(***************************************************************************)

\* The publishers in the middle of markFailed for m: the read-modify-writes of
\* its retryCount that are under way.
Catching(m) == {p \in Publishers : At(p, m) /\ pc[p] \in {"readFailed", "writeFailed"}}

\* retryCount never runs ahead of the failures already written: each failure
\* being recorded is still missing from it.  A write may lose others' updates,
\* so a writer's own copy must satisfy the same bound.
Counted(m) ==
    /\ row[m].retries + Cardinality(Catching(m)) <= failures[m]
    /\ \A p \in Catching(m) :
          pc[p] = "writeFailed" => existing[p] + Cardinality(Catching(m)) <= failures[m]

CountedInv == GaveUpAfterRetries /\ \A m \in Messages : Counted(m)

LEMMA CatchingFinite ==
    ASSUME NEW m \in Messages
    PROVE  IsFiniteSet(Catching(m)) /\ Cardinality(Catching(m)) \in Nat
  BY FS_Subset, FS_CardinalityType DEF Catching

\* What p alone does to the sets of publishers in markFailed.
LEMMA CatchingFrame ==
    ASSUME NEW p \in Publishers, NEW m \in Messages,
           \A q \in Publishers \ {p} : batch'[q] = batch[q] /\ pc'[q] = pc[q]
    PROVE  \A q \in Publishers \ {p} : q \in Catching(m)' <=> q \in Catching(m)
  BY DEF Catching, At

LEMMA CatchingSame ==
    ASSUME NEW p \in Publishers, NEW m \in Messages,
           \A q \in Publishers \ {p} : batch'[q] = batch[q] /\ pc'[q] = pc[q],
           p \in Catching(m)' <=> p \in Catching(m)
    PROVE  Catching(m)' = Catching(m)
  BY CatchingFrame DEF Catching

\* A step that leaves the counters of m alone keeps Counted(m).
LEMMA CountedFrame ==
    ASSUME TypeOK, NEW m \in Messages, Counted(m), Catching(m)' = Catching(m),
           row'[m].retries = row[m].retries, failures'[m] = failures[m],
           \A p \in Catching(m) : pc'[p] = "writeFailed" =>
                                     pc[p] = "writeFailed" /\ existing'[p] = existing[p]
    PROVE  Counted(m)'
  BY DEF Counted

\* Another failure of m: p enters markFailed.
LEMMA CountedCatch ==
    ASSUME TypeOK, NEW p \in Publishers, NEW m \in Messages, At(p, m), Counted(m),
           pc[p] \notin {"readFailed", "writeFailed"}, Catch(p, m),
           batch' = batch, existing' = existing, row'[m].retries = row[m].retries
    PROVE  Counted(m)'
  <1>1. /\ pc \in [Publishers -> Labels] /\ failures \in [Messages -> Nat]
        /\ row[m].retries \in Nat /\ existing \in [Publishers -> Nat]
    BY DEF TypeOK, RowStates
  <1>2. Catching(m)' = Catching(m) \cup {p} /\ p \notin Catching(m)
    BY <1>1 DEF Catching, Catch, Goto, At
  <1>3. Cardinality(Catching(m)') = Cardinality(Catching(m)) + 1
    BY <1>2, CatchingFinite, FS_AddElement
  <1>4. failures'[m] = failures[m] + 1
    BY <1>1 DEF Catch
  <1>5. \A q \in Catching(m)' : pc'[q] = "writeFailed" =>
             q \in Catching(m) /\ pc[q] = "writeFailed" /\ existing'[q] \in Nat
    BY <1>1, <1>2 DEF Catch, Goto, Catching
  <1>6. row'[m].retries + Cardinality(Catching(m)') <= failures'[m]
    <2>1. row[m].retries + Cardinality(Catching(m)) <= failures[m]
      BY DEF Counted
    <2>2. failures[m] \in Nat /\ Cardinality(Catching(m)) \in Nat /\ row'[m].retries \in Nat
      BY <1>1, CatchingFinite
    <2>3. QED
      BY <1>3, <1>4, <2>1, <2>2
  <1>7. ASSUME NEW q \in Catching(m)', pc'[q] = "writeFailed"
        PROVE  existing'[q] + Cardinality(Catching(m)') <= failures'[m]
    <2>1. existing[q] + Cardinality(Catching(m)) <= failures[m]
      BY <1>5, <1>7 DEF Counted
    <2>2. existing'[q] = existing[q] /\ existing[q] \in Nat
      BY <1>5, <1>7
    <2>3. QED
      BY <1>1, <1>3, <1>4, <2>1, <2>2, CatchingFinite
  <1>8. QED
    BY <1>6, <1>7 DEF Counted

\* p records its failure of m: it leaves markFailed.
LEMMA CountedWrite ==
    ASSUME TypeOK, NEW p \in Publishers, NEW m \in Messages, Counted(m), MarkFailed(p, m)
    PROVE  Counted(m)' /\ (row'[m].status = "failed" => failures'[m] >= MaxRetries)
  <1>1. /\ pc \in [Publishers -> Labels] /\ failures \in [Messages -> Nat]
        /\ row \in [Messages -> RowStates] /\ existing \in [Publishers -> Nat]
        /\ batch \in [Publishers -> SUBSET Messages]
    BY DEF TypeOK
  <1>2. p \in Catching(m) /\ Catching(m)' = Catching(m) \ {p}
    BY <1>1 DEF MarkFailed, DoneWith, Goto, Catching, At
  <1>3. /\ Cardinality(Catching(m)') = Cardinality(Catching(m)) - 1
        /\ Cardinality(Catching(m)) \in Nat /\ Cardinality(Catching(m)') \in Nat
    BY <1>2, CatchingFinite, FS_RemoveElement, FS_CardinalityType
  <1>4. /\ row'[m].retries = existing[p] + 1
        /\ row'[m].status = "failed" => existing[p] + 1 >= MaxRetries
        /\ failures' = failures /\ existing' = existing
    BY <1>1 DEF MarkFailed, StatusAfter, history
  <1>5. existing[p] + Cardinality(Catching(m)) <= failures[m]
    BY <1>2 DEF Counted, MarkFailed
  <1>6. \A q \in Catching(m)' : pc'[q] = pc[q] /\ existing[q] \in Nat
    BY <1>1, <1>2 DEF MarkFailed, DoneWith, Goto, Catching
  <1>7. failures[m] \in Nat /\ existing[p] \in Nat
    BY <1>1
  <1>8. row'[m].retries + Cardinality(Catching(m)') <= failures'[m]
    BY <1>3, <1>4, <1>5, <1>7
  <1>9. \A q \in Catching(m)' :
           pc'[q] = "writeFailed" => existing'[q] + Cardinality(Catching(m)') <= failures'[m]
    BY <1>2, <1>3, <1>4, <1>6, <1>7 DEF Counted
  <1>10. row'[m].status = "failed" => failures'[m] >= MaxRetries
    BY <1>3, <1>4, <1>5, <1>7, <1>8
  <1>11. QED
    BY <1>8, <1>9, <1>10 DEF Counted

LEMMA CountedNext == TypeOK /\ CountedInv /\ [Next]_vars => CountedInv'
  <1> SUFFICES ASSUME TypeOK, CountedInv, [Next]_vars PROVE CountedInv'
    OBVIOUS
  <1>0. RowsOK /\ CountersOK /\ BatchesOK
    BY TypeParts
  <1>1. ASSUME NEW m \in Messages, Arrive(m) \/ Purge(m) PROVE CountedInv'
    <2>1. /\ \A n \in Messages : row'[n].retries = row[n].retries
          /\ \A n \in Messages : row'[n].status = "failed" => row[n].status = "failed"
          /\ UNCHANGED <<batch, pc, existing, failures>>
      BY <1>0, <1>1 DEF Arrive, Purge, SetStatus, RowsOK, RowStates, relay, history
    <2>2. \A n \in Messages : Catching(n)' = Catching(n)
      BY <2>1 DEF Catching, At
    <2>3. \A n \in Messages : Counted(n)'
      BY <2>1, <2>2, CountedFrame DEF CountedInv
    <2>4. QED
      BY <2>1, <2>3 DEF CountedInv, GaveUpAfterRetries
  <1>2. ASSUME NEW p \in Publishers, Poll(p) PROVE CountedInv'
    <2>1. \A n \in Messages : Catching(n)' = Catching(n)
      BY <1>0, <1>2, CatchingSame DEF Poll, Goto, BatchesOK, Catching
    <2>2. \A n \in Messages : Counted(n)'
      BY <1>0, <1>2, <2>1, CountedFrame
         DEF Poll, Goto, history, BatchesOK, CountedInv
    <2>3. QED
      BY <1>2, <2>2 DEF Poll, history, CountedInv, GaveUpAfterRetries
  <1>3. ASSUME NEW p \in Publishers, NEW m \in Messages, Publish(p, m) \/ MarkPublished(p, m)
        PROVE  CountedInv'
    <2>1. /\ \A n \in Messages : row'[n].retries = row[n].retries
          /\ \A n \in Messages : row'[n].status = "failed" => row[n].status = "failed"
          /\ UNCHANGED <<existing, failures>>
      BY <1>0, <1>3 DEF Publish, MarkPublished, SetStatus, RowsOK, RowStates, history
    <2>2. /\ \A q \in Publishers \ {p} : batch'[q] = batch[q] /\ pc'[q] = pc[q]
          /\ {pc[p], pc'[p]} \cap {"readFailed", "writeFailed"} = {}
      BY <1>0, <1>3 DEF Publish, MarkPublished, DoneWith, Goto, BatchesOK
    <2>3. \A n \in Messages : Catching(n)' = Catching(n)
      BY <2>2, CatchingSame DEF Catching
    <2>4. \A n \in Messages : Counted(n)'
      BY <2>1, <2>2, <2>3, CountedFrame DEF CountedInv, Catching
    <2>5. QED
      BY <2>1, <2>4 DEF CountedInv, GaveUpAfterRetries
  <1>4. ASSUME NEW p \in Publishers, NEW m \in Messages, PublishThrows(p, m) \/ MarkThrows(p, m)
        PROVE  CountedInv'
    <2>1. /\ \A n \in Messages : row'[n].retries = row[n].retries
          /\ \A n \in Messages : row'[n].status = "failed" => row[n].status = "failed"
          /\ UNCHANGED <<batch, existing>>
          /\ At(p, m) /\ Catch(p, m) /\ pc[p] \notin {"readFailed", "writeFailed"}
      BY <1>0, <1>4 DEF PublishThrows, MarkThrows, SetStatus, RowsOK, RowStates
    <2>2. Counted(m)'
      BY <2>1, CountedCatch DEF CountedInv
    <2>3. ASSUME NEW n \in Messages \ {m} PROVE Counted(n)'
      <3>1. Catching(n)' = Catching(n)
        BY <1>0, <2>1, CatchingSame, AtMostOneAt DEF Catching, Catch, Goto, BatchesOK, At
      <3>2. p \notin Catching(n)
        BY <2>1 DEF Catching
      <3>3. QED
        BY <1>0, <2>1, <3>1, <3>2, CountedFrame
           DEF Catch, Goto, CountedInv, Catching, BatchesOK, CountersOK
    <2>4. \A n \in Messages : failures[n] \in Nat /\ failures'[n] >= failures[n]
      BY <1>0, <2>1 DEF Catch, CountersOK
    <2>5. \A n \in Messages : row'[n].status = "failed" => failures'[n] >= MaxRetries
      <3> SUFFICES ASSUME NEW n \in Messages, row'[n].status = "failed"
                   PROVE  failures'[n] >= MaxRetries
        OBVIOUS
      <3>1. failures[n] >= MaxRetries
        BY <2>1 DEF CountedInv, GaveUpAfterRetries
      <3>2. failures'[n] \in Nat
        BY <1>0, <2>1 DEF Catch, CountersOK
      <3>3. QED
        BY <2>4, <3>1, <3>2
    <2>6. QED
      BY <2>2, <2>3, <2>5 DEF CountedInv, GaveUpAfterRetries
  <1>5. ASSUME NEW p \in Publishers, NEW m \in Messages, FindExisting(p, m)
        PROVE  CountedInv'
    <2>1. \A n \in Messages : Catching(n)' = Catching(n)
      BY <1>0, <1>5, CatchingSame DEF FindExisting, Goto, BatchesOK, Catching, At
    <2>2. ASSUME NEW n \in Messages PROVE Counted(n)'
      <3>1. \A q \in Catching(n) : pc'[q] = "writeFailed" =>
               \/ pc[q] = "writeFailed" /\ existing'[q] = existing[q]
               \/ q = p /\ n = m /\ existing'[q] = row[n].retries
        BY <1>0, <1>5, AtMostOneAt
           DEF FindExisting, Goto, BatchesOK, CountersOK, Catching
      <3>2. QED
        BY <1>5, <2>1, <3>1 DEF FindExisting, history, CountedInv, Counted
    <2>3. QED
      BY <1>5, <2>2 DEF FindExisting, history, CountedInv, GaveUpAfterRetries
  <1>6. ASSUME NEW p \in Publishers, NEW m \in Messages, MarkFailed(p, m)
        PROVE  CountedInv'
    <2>1. Counted(m)' /\ (row'[m].status = "failed" => failures'[m] >= MaxRetries)
      BY <1>6, CountedWrite DEF CountedInv
    <2>2. \A n \in Messages \ {m} : row'[n] = row[n] /\ failures'[n] = failures[n]
      BY <1>0, <1>6 DEF MarkFailed, RowsOK, history
    <2>3. ASSUME NEW n \in Messages \ {m} PROVE Counted(n)'
      <3>1. p \notin Catching(n) /\ p \notin Catching(n)'
        BY <1>0, <1>6, AtMostOneAt DEF MarkFailed, DoneWith, Goto, BatchesOK, Catching
      <3>2. Catching(n)' = Catching(n)
        BY <1>0, <1>6, <3>1, CatchingSame DEF MarkFailed, DoneWith, Goto, BatchesOK
      <3>3. QED
        BY <1>0, <1>6, <2>2, <3>1, <3>2, CountedFrame
           DEF MarkFailed, DoneWith, Goto, CountedInv, Catching, BatchesOK
    <2>4. QED
      BY <2>1, <2>2, <2>3 DEF CountedInv, GaveUpAfterRetries
  <1>7. ASSUME NEW p \in Publishers, Abandon(p) PROVE CountedInv'
    <2>1. UNCHANGED <<row, existing, failures>>
      BY <1>7 DEF Abandon, history
    <2>2. ASSUME NEW n \in Messages PROVE Counted(n)'
      <3>1. Catching(n)' = Catching(n) \ {p}
        BY <1>0, <1>7, CatchingFrame DEF Abandon, Goto, BatchesOK, Catching, At
      <3>2. /\ Cardinality(Catching(n)') <= Cardinality(Catching(n))
            /\ Cardinality(Catching(n)) \in Nat /\ Cardinality(Catching(n)') \in Nat
        BY <3>1, CatchingFinite, FS_Subset, FS_CardinalityType
      <3>3. \A q \in Catching(n)' : pc'[q] = pc[q] /\ existing[q] \in Nat
        BY <1>0, <1>7, <3>1 DEF Abandon, Goto, BatchesOK, CountersOK, Catching
      <3>4. row[n].retries \in Nat /\ failures[n] \in Nat
        BY <1>0 DEF RowsOK, RowStates, CountersOK
      <3>5. row'[n].retries + Cardinality(Catching(n)') <= failures'[n]
        <4>1. row[n].retries + Cardinality(Catching(n)) <= failures[n]
          BY DEF CountedInv, Counted
        <4>2. QED
          BY <2>1, <3>2, <3>4, <4>1
      <3>6. ASSUME NEW q \in Catching(n)', pc'[q] = "writeFailed"
            PROVE  existing'[q] + Cardinality(Catching(n)') <= failures'[n]
        <4>1. existing[q] + Cardinality(Catching(n)) <= failures[n]
          BY <3>1, <3>3, <3>6 DEF CountedInv, Counted
        <4>2. QED
          BY <2>1, <3>2, <3>3, <3>4, <4>1
      <3>7. QED
        BY <3>5, <3>6 DEF Counted
    <2>3. QED
      BY <2>1, <2>2 DEF CountedInv, GaveUpAfterRetries
  <1>8. CASE FindStuck \/ UNCHANGED vars
    <2>1. UNCHANGED <<row, batch, pc, existing, failures>>
      BY <1>8 DEF FindStuck, relay, history, vars
    <2>2. QED
      BY <2>1 DEF CountedInv, GaveUpAfterRetries, Counted, Catching, At
  <1>9. CASE ResetStuck
    <2>1. /\ \A n \in Messages : row'[n].status = row[n].status
          /\ \A n \in Messages : row'[n].retries \in {0, row[n].retries}
          /\ UNCHANGED <<batch, pc, existing, failures>>
      BY <1>0, <1>9 DEF ResetStuck, RowsOK, RowStates, relay, history
    <2>2. ASSUME NEW n \in Messages PROVE Counted(n)'
      <3>1. Catching(n)' = Catching(n)
        BY <2>1 DEF Catching, At
      <3>2. row[n].retries \in Nat /\ failures[n] \in Nat /\ Cardinality(Catching(n)) \in Nat
        BY <1>0, CatchingFinite DEF RowsOK, RowStates, CountersOK
      <3>3. row'[n].retries + Cardinality(Catching(n)') <= failures'[n]
        <4>1. row[n].retries + Cardinality(Catching(n)) <= failures[n]
          BY DEF CountedInv, Counted
        <4>2. /\ row'[n].retries <= row[n].retries /\ row'[n].retries \in Nat
              /\ Cardinality(Catching(n)') = Cardinality(Catching(n))
              /\ failures'[n] = failures[n]
          BY <2>1, <3>1, <3>2
        <4>3. QED
          BY <3>2, <4>1, <4>2
      <3>4. QED
        BY <2>1, <3>1, <3>3 DEF CountedInv, Counted
    <2>3. QED
      BY <2>1, <2>2 DEF CountedInv, GaveUpAfterRetries
  <1>10. QED
    BY <1>1, <1>2, <1>3, <1>4, <1>5, <1>6, <1>7, <1>8, <1>9 DEF Next, Continue

\* outbox.ts:82: a message is given up only after MaxRetries failures of its
\* own, although retryCount is read, incremented and written back by publishers
\* that do not know of each other, and reset by recovery in between.
THEOREM GivenUpHasFailed == Spec => []GaveUpAfterRetries
  <1>1. Init => CountedInv
    <2> SUFFICES ASSUME Init PROVE CountedInv
      OBVIOUS
    <2>1. \A m \in Messages : Catching(m) = {}
      BY DEF Init, Catching, At
    <2>2. Cardinality({}) = 0
      BY FS_EmptySet
    <2>3. ASSUME NEW m \in Messages PROVE Counted(m)
      <3>1. row[m].retries = 0 /\ failures[m] = 0
        BY DEF Init
      <3>2. Cardinality(Catching(m)) = 0
        BY <2>1, <2>2
      <3>3. row[m].retries + Cardinality(Catching(m)) <= failures[m]
        BY <3>1, <3>2
      <3>4. QED
        BY <2>1, <3>3 DEF Counted
    <2>4. QED
      BY <2>3 DEF Init, CountedInv, GaveUpAfterRetries
  <1>2. QED
    BY <1>1, TypeCorrect, CountedNext, PTL DEF Spec, CountedInv

(***************************************************************************)
(* Deliveries and failures of a message that no two batches ever held.     *)
(***************************************************************************)

\* One batch at a time holds such a message.
OneHolder ==
    \A m \in Messages \ shared, p, q \in Publishers : m \in batch[p] /\ m \in batch[q] => p = q

\* The bus may yet take m without a fault: its row waits to be read, or it is in
\* a batch and has not just been published.
Fresh(m) ==
    \/ row[m].status \in {"absent", "pending"} /\ \A p \in Publishers : m \notin batch[p]
    \/ \E p \in Publishers : m \in batch[p] /\ ~ (At(p, m) /\ pc[p] = "mark")

\* Each delivery but the last was followed by a fault.
Delivery(m) ==
    /\ delivered[m] <= 1 + faults
    /\ Fresh(m) => delivered[m] <= faults

CauseInv == OneHolder /\ \A m \in Messages \ shared : Delivery(m)

\* A batch only gains messages when it is read, and then they become shared.
LEMMA OneHolderNext == TypeOK /\ OneHolder /\ [Next]_vars => OneHolder' /\ shared \subseteq shared'
  <1> SUFFICES ASSUME TypeOK, OneHolder, [Next]_vars PROVE OneHolder' /\ shared \subseteq shared'
    OBVIOUS
  <1>0. BatchesOK
    BY TypeParts
  <1>1. ASSUME NEW p \in Publishers, Poll(p) PROVE OneHolder' /\ shared \subseteq shared'
    <2>1. shared \subseteq shared'
      BY <1>1 DEF Poll
    <2>2. \A q \in Publishers \ {p} : batch'[q] = batch[q]
      BY <1>0, <1>1 DEF Poll, BatchesOK
    <2>3. ASSUME NEW m \in Messages \ shared', NEW q \in Publishers \ {p},
                 m \in batch'[p], m \in batch'[q]
          PROVE  FALSE
      BY <1>0, <1>1, <2>2, <2>3 DEF Poll, BatchesOK
    <2>4. ASSUME NEW m \in Messages \ shared', NEW q \in Publishers, NEW r \in Publishers,
                 m \in batch'[q], m \in batch'[r]
          PROVE  q = r
      BY <2>1, <2>2, <2>3, <2>4 DEF OneHolder
    <2>5. QED
      BY <2>1, <2>4 DEF OneHolder
  <1>2. ASSUME shared' = shared, \A q \in Publishers : batch'[q] \subseteq batch[q]
        PROVE  OneHolder' /\ shared \subseteq shared'
    BY <1>2 DEF OneHolder
  <1>3. ASSUME NEW m \in Messages, Arrive(m) \/ Purge(m) PROVE OneHolder' /\ shared \subseteq shared'
    BY <1>2, <1>3 DEF Arrive, Purge, relay
  <1>4. ASSUME NEW p \in Publishers, NEW m \in Messages,
               \/ Publish(p, m) \/ PublishThrows(p, m) \/ MarkPublished(p, m)
               \/ MarkThrows(p, m) \/ FindExisting(p, m) \/ MarkFailed(p, m)
        PROVE  OneHolder' /\ shared \subseteq shared'
    <2>1. shared' = shared
      BY <1>4 DEF Publish, PublishThrows, MarkPublished, MarkThrows, FindExisting, MarkFailed
    <2>2. batch' = batch \/ batch' = [batch EXCEPT ![p] = @ \ {m}]
      BY <1>4 DEF Publish, PublishThrows, MarkPublished, MarkThrows, FindExisting, MarkFailed,
                  DoneWith
    <2>3. QED
      BY <1>0, <1>2, <2>1, <2>2 DEF BatchesOK
  <1>5. ASSUME NEW p \in Publishers, Abandon(p) PROVE OneHolder' /\ shared \subseteq shared'
    BY <1>0, <1>2, <1>5 DEF Abandon, BatchesOK
  <1>6. CASE FindStuck \/ ResetStuck \/ UNCHANGED vars
    BY <1>2, <1>6 DEF FindStuck, ResetStuck, vars, relay
  <1>7. QED
    BY <1>1, <1>3, <1>4, <1>5, <1>6 DEF Next, Continue

\* What a step of p at m does to the other messages: none becomes fresh, and
\* none enters or leaves markFailed.
LEMMA OthersStay ==
    ASSUME TypeOK, NEW p \in Publishers, NEW m \in Messages, NEW n \in Messages \ {m},
           \/ Publish(p, m) \/ PublishThrows(p, m) \/ MarkPublished(p, m)
           \/ MarkThrows(p, m) \/ FindExisting(p, m) \/ MarkFailed(p, m)
    PROVE  /\ row'[n] = row[n] /\ delivered'[n] = delivered[n] /\ failures'[n] = failures[n]
           /\ \A q \in Publishers : n \in batch'[q] <=> n \in batch[q]
           /\ \A q \in Publishers : At(q, n) => At(q, n)' /\ pc'[q] = pc[q]
           /\ \A q \in Publishers : pc'[q] \in {"mark", "readFailed", "writeFailed"} /\ At(q, n)' =>
                 At(q, n) /\ pc[q] = pc'[q] /\ existing'[q] = existing[q]
  <1>0. RowsOK /\ CountersOK /\ BatchesOK
    BY TypeParts
  <1>1. At(p, m)
    BY DEF Publish, PublishThrows, MarkPublished, MarkThrows, FindExisting, MarkFailed
  <1>2. ~ At(p, n)
    BY <1>1, AtMostOneAt
  <1>3. \A q \in Publishers \ {p} : batch'[q] = batch[q] /\ pc'[q] = pc[q] /\ existing'[q] = existing[q]
    BY <1>0 DEF Publish, PublishThrows, MarkPublished, MarkThrows, FindExisting, MarkFailed,
                DoneWith, Catch, Goto, BatchesOK, CountersOK
  <1>4. batch'[p] \in {batch[p], batch[p] \ {m}}
    BY <1>0 DEF Publish, PublishThrows, MarkPublished, MarkThrows, FindExisting, MarkFailed,
                DoneWith, BatchesOK
  <1>5. batch'[p] = batch[p] \/ pc'[p] \in {"poll", "publish"}
    BY <1>0 DEF Publish, PublishThrows, MarkPublished, MarkThrows, FindExisting, MarkFailed,
                DoneWith, Goto, BatchesOK
  <1>6. row'[n] = row[n] /\ delivered'[n] = delivered[n] /\ failures'[n] = failures[n]
    BY <1>0 DEF Publish, PublishThrows, MarkPublished, MarkThrows, FindExisting, MarkFailed,
                SetStatus, Catch, history, RowsOK, CountersOK
  <1>7. \A q \in Publishers : n \in batch'[q] <=> n \in batch[q]
    BY <1>3, <1>4
  <1>8. \A q \in Publishers : At(q, n) => At(q, n)' /\ pc'[q] = pc[q]
    BY <1>2, <1>3 DEF At
  <1>9. \A q \in Publishers : pc'[q] \in {"mark", "readFailed", "writeFailed"} /\ At(q, n)' =>
           At(q, n) /\ pc[q] = pc'[q] /\ existing'[q] = existing[q]
    BY <1>2, <1>3, <1>5 DEF At
  <1>10. QED
    BY <1>6, <1>7, <1>8, <1>9

\* A message that the bus did not take, and that did not become fresh.
LEMMA DeliveryFrame ==
    ASSUME TypeOK, NEW n \in Messages, Delivery(n), delivered'[n] = delivered[n],
           faults' \in {faults, faults + 1}, Fresh(n)' => Fresh(n)
    PROVE  Delivery(n)'
  BY DEF Delivery, TypeOK

\* A fault makes room for one more delivery.
LEMMA DeliveryFault ==
    ASSUME TypeOK, NEW n \in Messages, Delivery(n), delivered'[n] = delivered[n],
           faults' = faults + 1
    PROVE  Delivery(n)'
  BY DEF Delivery, TypeOK

LEMMA CauseNext == TypeOK /\ CauseInv /\ [Next]_vars => CauseInv'
  <1> SUFFICES ASSUME TypeOK, CauseInv, [Next]_vars PROVE CauseInv'
    OBVIOUS
  <1>0. RowsOK /\ CountersOK /\ BatchesOK /\ Held
    BY TypeParts
  <1>a. OneHolder /\ OneHolder' /\ shared \subseteq shared'
    BY OneHolderNext DEF CauseInv
  <1> SUFFICES ASSUME NEW n \in Messages, n \notin shared' PROVE Delivery(n)'
    BY <1>a DEF CauseInv
  <1>b. Delivery(n) /\ n \notin shared
    BY <1>a DEF CauseInv
  <1>1. ASSUME NEW m \in Messages, Arrive(m) PROVE Delivery(n)'
    <2>1. row'[n].status = row[n].status \/ row[n].status = "absent"
      BY <1>0, <1>1 DEF Arrive, RowsOK
    <2>2. Fresh(n)' => Fresh(n)
      BY <1>1, <2>1 DEF Arrive, relay, Fresh, At
    <2>3. QED
      BY <1>1, <1>b, <2>2, DeliveryFrame DEF Arrive, history
  <1>2. ASSUME NEW m \in Messages, Purge(m) PROVE Delivery(n)'
    <2>1. row'[n] = row[n] \/ row'[n].status = "purged"
      BY <1>0, <1>2, SetStatusType DEF Purge
    <2>2. Fresh(n)' => Fresh(n)
      BY <1>2, <2>1 DEF Purge, relay, Fresh, At
    <2>3. QED
      BY <1>2, <1>b, <2>2, DeliveryFrame DEF Purge, history
  <1>3. ASSUME NEW p \in Publishers, Poll(p) PROVE Delivery(n)'
    <2>1. \A q \in Publishers \ {p} : batch'[q] = batch[q] /\ pc'[q] = pc[q]
      BY <1>0, <1>3 DEF Poll, Goto, BatchesOK
    <2>2. batch[p] = {} /\ batch'[p] = Oldest(BatchSize[p])
      BY <1>0, <1>3 DEF Poll, BatchesOK
    <2>3. n \in batch'[p] => row[n].status = "pending" /\ \A q \in Publishers : n \notin batch[q]
      BY <1>3, <2>2 DEF Poll, Oldest, Pending
    <2>4. Fresh(n)' => Fresh(n)
      <3>1. CASE n \in batch'[p]
        BY <2>3, <3>1 DEF Fresh
      <3>2. CASE n \notin batch'[p]
        BY <1>3, <2>1, <2>2, <3>2 DEF Poll, Fresh, At
      <3>3. QED
        BY <3>1, <3>2
    <2>5. QED
      BY <1>3, <1>b, <2>4, DeliveryFrame DEF Poll, history
  <1>4. ASSUME NEW p \in Publishers, NEW m \in Messages,
               \/ Publish(p, m) \/ PublishThrows(p, m) \/ MarkPublished(p, m)
               \/ MarkThrows(p, m) \/ FindExisting(p, m) \/ MarkFailed(p, m)
        PROVE  Delivery(n)'
    <2>1. faults' \in {faults, faults + 1}
      BY <1>4 DEF Publish, PublishThrows, MarkPublished, MarkThrows, FindExisting, MarkFailed, Fault
    <2>2. CASE n # m
      <3>1. Fresh(n)' => Fresh(n)
        BY <1>4, <2>2, OthersStay DEF Fresh
      <3>2. QED
        BY <1>4, <1>b, <2>1, <2>2, <3>1, DeliveryFrame, OthersStay
    <2>3. CASE n = m
      <3>1. At(p, n) /\ n \in batch[p] /\ \A q \in Publishers \ {p} : n \notin batch[q]
        BY <1>4, <1>a, <1>b, <2>3
           DEF OneHolder, Publish, PublishThrows, MarkPublished, MarkThrows, FindExisting,
               MarkFailed, At
      <3>2. pc[p] # "mark" => Fresh(n) /\ delivered[n] <= faults
        BY <1>b, <3>1 DEF Fresh, Delivery
      <3>3. CASE Publish(p, m)
        <4>1. /\ delivered'[n] = delivered[n] + 1 /\ delivered[n] \in Nat /\ faults' = faults
              /\ faults \in Nat /\ batch' = batch /\ pc'[p] = "mark" /\ delivered[n] <= faults
          BY <1>0, <2>3, <3>2, <3>3 DEF Publish, Goto, BatchesOK, CountersOK
        <4>2. ~ Fresh(n)'
          BY <3>1, <4>1 DEF Fresh, At
        <4>3. delivered'[n] <= 1 + faults'
          BY <4>1
        <4>4. QED
          BY <4>2, <4>3 DEF Delivery
      <3>4. CASE PublishThrows(p, m) \/ FindExisting(p, m) \/ MarkFailed(p, m)
        <4>1. delivered' = delivered /\ pc[p] # "mark"
          BY <3>4 DEF PublishThrows, FindExisting, MarkFailed, history
        <4>2. QED
          BY <1>b, <2>1, <3>2, <4>1, DeliveryFrame
      <3>5. CASE MarkPublished(p, m)
        <4>1. /\ row'[n].status = "published" /\ delivered' = delivered /\ faults' = faults
              /\ \A q \in Publishers : n \notin batch'[q]
          BY <1>0, <2>3, <3>1, <3>5, SetStatusType
             DEF MarkPublished, DoneWith, BatchesOK, history
        <4>2. ~ Fresh(n)'
          BY <4>1 DEF Fresh
        <4>3. QED
          BY <1>b, <4>1, <4>2, DeliveryFrame
      <3>6. CASE MarkThrows(p, m)
        BY <1>b, <3>6, DeliveryFault DEF MarkThrows, Fault
      <3>7. QED
        BY <1>4, <3>3, <3>4, <3>5, <3>6
    <2>4. QED
      BY <2>2, <2>3
  <1>5. ASSUME NEW p \in Publishers, Abandon(p) PROVE Delivery(n)'
    BY <1>5, <1>b, DeliveryFault DEF Abandon, Fault, history
  <1>6. CASE FindStuck \/ UNCHANGED vars
    <2>1. UNCHANGED <<row, batch, pc, delivered, faults>>
      BY <1>6 DEF FindStuck, relay, history, vars
    <2>2. Fresh(n)' => Fresh(n)
      BY <2>1 DEF Fresh, At
    <2>3. QED
      BY <1>b, <2>1, <2>2, DeliveryFrame
  <1>7. CASE ResetStuck
    <2>1. row'[n].status = row[n].status /\ UNCHANGED <<batch, pc, delivered, faults>>
      BY <1>0, <1>7 DEF ResetStuck, RowsOK, RowStates, relay, history
    <2>2. Fresh(n)' => Fresh(n)
      BY <2>1 DEF Fresh, At
    <2>3. QED
      BY <1>b, <2>1, <2>2, DeliveryFrame
  <1>8. QED
    BY <1>1, <1>2, <1>3, <1>4, <1>5, <1>6, <1>7 DEF Next, Continue

\* workers.ts:34 (at-least-once delivery): a message that one batch at a
\* time held is delivered at most once more than there were faults, for any
\* number of publishers.
THEOREM DuplicatesExplained == Spec => []DuplicatesHaveACause
  <1>1. Init => CauseInv
    <2> SUFFICES ASSUME Init PROVE CauseInv
      OBVIOUS
    <2>1. OneHolder
      BY DEF Init, OneHolder
    <2>2. ASSUME NEW m \in Messages PROVE Delivery(m)
      <3>1. delivered[m] = 0 /\ faults = 0
        BY DEF Init
      <3>2. QED
        BY <3>1 DEF Delivery
    <2>3. QED
      BY <2>1, <2>2 DEF CauseInv
  <1>2. TypeOK /\ CauseInv => DuplicatesHaveACause
    <2> SUFFICES ASSUME TypeOK, CauseInv, NEW m \in Messages, m \notin shared
                 PROVE  ~ (delivered[m] > 1 + faults)
      BY DEF DuplicatesHaveACause
    <2>1. delivered[m] <= 1 + faults /\ delivered[m] \in Nat /\ faults \in Nat
      BY DEF TypeOK, CauseInv, Delivery
    <2>2. QED
      BY <2>1
  <1>3. QED
    BY <1>1, <1>2, TypeCorrect, CauseNext, PTL DEF Spec

\* A failure of m is being recorded.
Failing(m) == \E p \in Publishers : At(p, m) /\ pc[p] \in {"readFailed", "writeFailed"}

\* The failures that the resets so far account for.  A reset counts when it is
\* written; until then retryCount stands for them.
Room(m) == faults + (IF m \in stuck THEN MaxRetries * (resets - 1) ELSE MaxRetries * resets)

\* retryCount is below the limit as long as m may be tried again, and it makes
\* up, with Room, for all failures but the one that is being recorded; so does
\* the copy that markFailed is about to write, which a reset does not touch.
Budgeted(m) ==
    /\ m \in stuck => resets > 0
    /\ row[m].retries <= MaxRetries
    /\ row[m].status \in {"absent", "pending"} \/ (\E p \in Publishers : m \in batch[p])
          => row[m].retries < MaxRetries
    /\ failures[m] <= Room(m) + row[m].retries + (IF Failing(m) THEN 1 ELSE 0)
    /\ \A p \in Publishers : At(p, m) /\ pc[p] = "writeFailed" =>
          existing[p] < MaxRetries /\ failures[m] <= Room(m) + existing[p] + 1

BudgetInv == OneHolder /\ \A m \in Messages \ shared : Budgeted(m)

LEMMA RoomType ==
    ASSUME TypeOK, NEW n \in Messages, n \in stuck => resets > 0
    PROVE  Room(n) \in Nat
  <1>1. resets \in Nat /\ faults \in Nat
    BY DEF TypeOK
  <1>2. CASE n \in stuck
    <2>1. resets - 1 \in Nat
      BY <1>1, <1>2
    <2>2. MaxRetries * (resets - 1) \in Nat
      BY <2>1
    <2>3. QED
      BY <1>1, <1>2, <2>2 DEF Room
  <1>3. CASE n \notin stuck
    BY <1>1, <1>3 DEF Room
  <1>4. QED
    BY <1>2, <1>3

\* One more reset is worth MaxRetries failures.
LEMMA OneMoreReset ==
    ASSUME NEW k \in Nat
    PROVE  MaxRetries * (k + 1) = MaxRetries * k + MaxRetries
  OBVIOUS

LEMMA OneResetLess ==
    ASSUME NEW k \in Nat, k > 0
    PROVE  MaxRetries * k = MaxRetries * (k - 1) + MaxRetries /\ MaxRetries * (k - 1) \in Nat
  <1> DEFINE j == k - 1
  <1>1. j \in Nat /\ k = j + 1
    OBVIOUS
  <1>2. MaxRetries * (j + 1) = MaxRetries * j + MaxRetries /\ MaxRetries * j \in Nat
    <2> HIDE DEF j
    <2> QED
      BY <1>1, OneMoreReset
  <1>3. QED
    BY <1>1, <1>2

\* A fault makes room for one more failure.
LEMMA RoomFault ==
    ASSUME TypeOK, NEW n \in Messages, n \in stuck => resets > 0,
           stuck' = stuck, resets' = resets, faults' \in {faults, faults + 1}
    PROVE  Room(n)' = Room(n) + (faults' - faults)
  <1> DEFINE granted == IF n \in stuck THEN MaxRetries * (resets - 1) ELSE MaxRetries * resets
  <1>1. granted \in Nat
    BY OneResetLess DEF TypeOK
  <1>2. Room(n) = faults + granted /\ Room(n)' = faults' + granted
    BY DEF Room
  <1> HIDE DEF granted
  <1>3. QED
    BY <1>1, <1>2 DEF TypeOK

\* A step that writes neither the row nor the failures of n, and forgets a
\* failure that was being recorded only by a fault.
LEMMA BudgetFrame ==
    ASSUME TypeOK, NEW n \in Messages, Budgeted(n), Room(n)' \in Nat, Room(n)' >= Room(n),
           n \in stuck' => resets' > 0,
           row'[n].retries = row[n].retries, failures'[n] = failures[n],
           row'[n].status \in {"absent", "pending"} \/ (\E q \in Publishers : n \in batch'[q]) =>
              row[n].status \in {"absent", "pending"} \/ (\E q \in Publishers : n \in batch[q]),
           Failing(n) => Failing(n)' \/ Room(n)' > Room(n),
           \A q \in Publishers : At(q, n)' /\ pc'[q] = "writeFailed" =>
              At(q, n) /\ pc[q] = "writeFailed" /\ existing'[q] = existing[q]
    PROVE  Budgeted(n)'
  <1>1. /\ Room(n) \in Nat /\ failures[n] \in Nat /\ row[n].retries \in Nat
        /\ \A q \in Publishers : existing[q] \in Nat
    BY RoomType DEF Budgeted, TypeOK, RowStates
  <1>2. failures'[n] <= Room(n)' + row'[n].retries + (IF Failing(n)' THEN 1 ELSE 0)
    <2>1. failures[n] <= Room(n) + row[n].retries + (IF Failing(n) THEN 1 ELSE 0)
      BY DEF Budgeted
    <2>2. CASE Failing(n)'
      BY <1>1, <2>1, <2>2
    <2>3. CASE ~ Failing(n)'
      BY <1>1, <2>1, <2>3
    <2>4. QED
      BY <2>2, <2>3
  <1>3. ASSUME NEW q \in Publishers, At(q, n)', pc'[q] = "writeFailed"
        PROVE  existing'[q] < MaxRetries /\ failures'[n] <= Room(n)' + existing'[q] + 1
    <2>1. existing[q] < MaxRetries /\ failures[n] <= Room(n) + existing[q] + 1
      BY <1>3 DEF Budgeted
    <2>2. QED
      BY <1>1, <1>3, <2>1
  <1>4. QED
    BY <1>2, <1>3 DEF Budgeted

LEMMA BudgetContinue ==
    ASSUME TypeOK, OneHolder, NEW n \in Messages \ shared, Budgeted(n),
           NEW p \in Publishers, NEW m \in Messages,
           \/ Publish(p, m) \/ PublishThrows(p, m) \/ MarkPublished(p, m)
           \/ MarkThrows(p, m) \/ FindExisting(p, m) \/ MarkFailed(p, m)
    PROVE  Budgeted(n)'
  <1>0. /\ row \in [Messages -> RowStates] /\ batch \in [Publishers -> SUBSET Messages]
        /\ pc \in [Publishers -> Labels] /\ existing \in [Publishers -> Nat]
        /\ failures \in [Messages -> Nat] /\ faults \in Nat /\ resets \in Nat
        /\ Room(n) \in Nat /\ row[n].retries \in Nat /\ failures[n] \in Nat
    BY RoomType DEF TypeOK, Budgeted, RowStates
  <1>1. stuck' = stuck /\ resets' = resets /\ faults' \in {faults, faults + 1}
    BY DEF Publish, PublishThrows, MarkPublished, MarkThrows, FindExisting, MarkFailed, Fault
  <1>2. Room(n)' \in {Room(n), Room(n) + 1} /\ Room(n)' = Room(n) + (faults' - faults)
    <2>1. Room(n)' = Room(n) + (faults' - faults)
      BY <1>1, RoomFault DEF Budgeted
    <2>2. QED
      BY <1>0, <1>1, <2>1
  <1>3. Room(n)' \in Nat /\ Room(n)' >= Room(n) /\ (n \in stuck' => resets' > 0)
    BY <1>0, <1>1, <1>2 DEF Budgeted
  <1>4. CASE n # m
    <2>1. Failing(n) => Failing(n)'
      BY <1>4, OthersStay DEF Failing
    <2>2. /\ row'[n] = row[n] /\ failures'[n] = failures[n]
          /\ \A q \in Publishers : n \in batch'[q] <=> n \in batch[q]
          /\ \A q \in Publishers : At(q, n)' /\ pc'[q] = "writeFailed" =>
                At(q, n) /\ pc[q] = "writeFailed" /\ existing'[q] = existing[q]
      BY <1>4, OthersStay
    <2>3. QED
      BY <1>3, <2>1, <2>2, BudgetFrame
  <1>5. CASE n = m
    <2>1. At(p, n) /\ n \in batch[p] /\ \A q \in Publishers \ {p} : n \notin batch[q]
      BY <1>5 DEF OneHolder, Publish, PublishThrows, MarkPublished, MarkThrows, FindExisting,
                  MarkFailed, At
    <2>2. row[n].retries < MaxRetries
      BY <2>1 DEF Budgeted
    <2>3. Failing(n) <=> pc[p] \in {"readFailed", "writeFailed"}
      BY <2>1 DEF Failing, At
    <2>4. CASE Publish(p, m)
      <3>1. UNCHANGED <<row, batch, failures, existing>> /\ pc'[p] = "mark" /\ ~ Failing(n)
        BY <1>0, <2>3, <2>4 DEF Publish, Goto
      <3>2. \A q \in Publishers : ~ (At(q, n)' /\ pc'[q] = "writeFailed")
        BY <2>1, <3>1 DEF At
      <3>3. QED
        BY <1>3, <3>1, <3>2, BudgetFrame
    <2>5. CASE PublishThrows(p, m) \/ MarkThrows(p, m)
      <3>1. /\ batch' = batch /\ pc'[p] = "readFailed" /\ failures'[n] = failures[n] + 1
            /\ row'[n].retries = row[n].retries /\ ~ Failing(n)
        BY <1>0, <1>5, <2>3, <2>5
           DEF PublishThrows, MarkThrows, Catch, Goto, SetStatus, RowStates
      <3>2. Failing(n)' /\ \A q \in Publishers : ~ (At(q, n)' /\ pc'[q] = "writeFailed")
        BY <2>1, <3>1 DEF Failing, At
      <3>3. failures[n] <= Room(n) + row[n].retries
        BY <1>0, <3>1 DEF Budgeted
      <3>4. failures'[n] <= Room(n)' + row'[n].retries + 1
        BY <1>0, <1>3, <3>1, <3>3
      <3>5. row'[n].retries <= MaxRetries /\ row'[n].retries < MaxRetries
        BY <1>0, <2>2, <3>1
      <3>6. QED
        BY <1>3, <3>2, <3>4, <3>5 DEF Budgeted
    <2>6. CASE MarkPublished(p, m)
      <3>1. /\ row'[n].retries = row[n].retries /\ row'[n].status = "published"
            /\ failures' = failures /\ ~ Failing(n)
            /\ \A q \in Publishers : n \notin batch'[q]
        BY <1>0, <1>5, <2>1, <2>3, <2>6
           DEF MarkPublished, DoneWith, SetStatus, RowStates, history
      <3>2. QED
        BY <1>3, <3>1, BudgetFrame DEF At
    <2>7. CASE FindExisting(p, m)
      <3>1. /\ row' = row /\ batch' = batch /\ pc'[p] = "writeFailed"
            /\ existing'[p] = row[n].retries /\ failures' = failures /\ Failing(n)
        BY <1>0, <1>5, <2>3, <2>7 DEF FindExisting, Goto, history
      <3>2. Failing(n)' /\ \A q \in Publishers : At(q, n)' => q = p
        BY <2>1, <3>1 DEF Failing, At
      <3>3. failures[n] <= Room(n) + row[n].retries + 1
        BY <3>1 DEF Budgeted
      <3>4. failures'[n] <= Room(n)' + row'[n].retries + 1
        BY <1>0, <1>3, <3>1, <3>3
      <3>5. existing'[p] < MaxRetries /\ failures'[n] <= Room(n)' + existing'[p] + 1
        BY <2>2, <3>1, <3>4
      <3>6. row'[n].retries <= MaxRetries /\ row'[n].retries < MaxRetries
        BY <1>0, <2>2, <3>1
      <3>7. QED
        BY <1>3, <3>2, <3>4, <3>5, <3>6 DEF Budgeted
    <2>8. CASE MarkFailed(p, m)
      <3>1. /\ row'[n] = [status |-> StatusAfter(existing[p] + 1), retries |-> existing[p] + 1]
            /\ \A q \in Publishers : n \notin batch'[q]
            /\ failures' = failures /\ faults' = faults
        BY <1>0, <1>5, <2>1, <2>8 DEF MarkFailed, DoneWith, history
      <3>2. existing[p] < MaxRetries /\ failures[n] <= Room(n) + existing[p] + 1
        BY <1>5, <2>1, <2>8 DEF MarkFailed, Budgeted
      <3>3. existing[p] + 1 <= MaxRetries /\ row'[n].retries <= MaxRetries
        BY <1>0, <3>1, <3>2
      <3>4. row'[n].status \in {"absent", "pending"} => row'[n].retries < MaxRetries
        BY <1>0, <3>1, <3>3 DEF StatusAfter
      <3>5. ~ Failing(n)' /\ \A q \in Publishers : ~ At(q, n)'
        BY <3>1 DEF Failing, At
      <3>6. failures'[n] <= Room(n)' + row'[n].retries
        BY <1>0, <1>3, <3>1, <3>2
      <3>7. failures'[n] <= Room(n)' + row'[n].retries + (IF Failing(n)' THEN 1 ELSE 0)
        BY <1>0, <1>3, <3>1, <3>5, <3>6
      <3>8. QED
        BY <1>3, <3>1, <3>3, <3>4, <3>5, <3>7 DEF Budgeted
    <2>9. QED
      BY <2>4, <2>5, <2>6, <2>7, <2>8
  <1>6. QED
    BY <1>4, <1>5

\* The reset is written: it gives back what retryCount stood for, also to the
\* failure that is being recorded meanwhile.
LEMMA BudgetReset ==
    ASSUME TypeOK, NEW n \in Messages, Budgeted(n), ResetStuck
    PROVE  Budgeted(n)'
  <1>0. /\ row \in [Messages -> RowStates] /\ faults \in Nat /\ resets \in Nat
        /\ Room(n) \in Nat /\ row[n].retries \in Nat /\ failures[n] \in Nat
        /\ \A q \in Publishers : existing[q] \in Nat
    BY RoomType DEF TypeOK, Budgeted, RowStates
  <1>1. /\ UNCHANGED <<batch, pc, existing, failures, resets, faults>> /\ stuck' = {}
        /\ row'[n].status = row[n].status
    BY <1>0 DEF ResetStuck, relay, history, RowStates
  <1>2. Failing(n)' = Failing(n)
    BY <1>1 DEF Failing, At
  <1>3. CASE n \notin stuck
    <2>1. row'[n] = row[n] /\ Room(n)' = Room(n)
      BY <1>0, <1>1, <1>3 DEF ResetStuck, Room
    <2>2. QED
      BY <1>0, <1>1, <1>2, <2>1, BudgetFrame DEF At
  <1>4. CASE n \in stuck
    <2>1. row'[n].retries = 0
      BY <1>0, <1>4 DEF ResetStuck, RowStates
    <2>2. Room(n)' = Room(n) + MaxRetries
      <3>1. resets > 0
        BY <1>4 DEF Budgeted
      <3>2. MaxRetries * resets = MaxRetries * (resets - 1) + MaxRetries
        BY <1>0, <3>1, OneResetLess
      <3>3. MaxRetries * (resets - 1) \in Nat
        BY <1>0, <3>1, OneResetLess
      <3>4. Room(n) = faults + MaxRetries * (resets - 1)
        BY <1>4 DEF Room
      <3>5. Room(n)' = faults + MaxRetries * resets
        BY <1>1 DEF Room
      <3>6. QED
        BY <1>0, <3>2, <3>3, <3>4, <3>5
    <2>3. CASE Failing(n)
      <3>1. row[n].retries < MaxRetries
        BY <2>3 DEF Failing, Budgeted, At
      <3>2. failures[n] <= Room(n) + row[n].retries + 1
        BY <2>3 DEF Budgeted
      <3>3. failures[n] <= Room(n) + MaxRetries
        BY <1>0, <3>1, <3>2
      <3>4. ASSUME NEW q \in Publishers, At(q, n)', pc'[q] = "writeFailed"
            PROVE  existing'[q] < MaxRetries /\ failures'[n] <= Room(n)' + existing'[q] + 1
        <4>1. existing[q] < MaxRetries
          BY <1>1, <3>4 DEF Budgeted, At
        <4>2. QED
          BY <1>0, <1>1, <2>2, <3>3, <4>1
      <3>5. failures'[n] <= Room(n)' + row'[n].retries + 1
        BY <1>0, <1>1, <2>1, <2>2, <3>3
      <3>6. row'[n].retries <= MaxRetries /\ row'[n].retries < MaxRetries
        BY <2>1
      <3>7. QED
        BY <1>1, <1>2, <2>3, <3>4, <3>5, <3>6 DEF Budgeted
    <2>4. CASE ~ Failing(n)
      <3>1. failures[n] <= Room(n) + row[n].retries /\ row[n].retries <= MaxRetries
        BY <1>0, <2>4 DEF Budgeted
      <3>2. failures'[n] <= Room(n)' + row'[n].retries + (IF Failing(n)' THEN 1 ELSE 0)
        BY <1>0, <1>1, <1>2, <2>1, <2>2, <2>4, <3>1
      <3>3. row'[n].retries <= MaxRetries /\ row'[n].retries < MaxRetries
        BY <2>1
      <3>4. \A q \in Publishers : ~ (At(q, n)' /\ pc'[q] = "writeFailed")
        BY <1>2, <2>4 DEF Failing
      <3>5. QED
        BY <1>1, <3>2, <3>3, <3>4 DEF Budgeted
    <2>5. QED
      BY <2>3, <2>4
  <1>5. QED
    BY <1>3, <1>4

LEMMA BudgetNext == TypeOK /\ BudgetInv /\ [Next]_vars => BudgetInv'
  <1> SUFFICES ASSUME TypeOK, BudgetInv, [Next]_vars PROVE BudgetInv'
    OBVIOUS
  <1>0. RowsOK /\ CountersOK /\ BatchesOK /\ Held
    BY TypeParts
  <1>a. OneHolder /\ OneHolder' /\ shared \subseteq shared'
    BY OneHolderNext DEF BudgetInv
  <1> SUFFICES ASSUME NEW n \in Messages, n \notin shared' PROVE Budgeted(n)'
    BY <1>a DEF BudgetInv
  <1>b. Budgeted(n) /\ n \notin shared /\ Room(n) \in Nat
    BY <1>a, RoomType DEF BudgetInv, Budgeted
  <1>1. ASSUME NEW m \in Messages, Arrive(m) PROVE Budgeted(n)'
    <2>1. /\ row'[n].status = row[n].status \/ row[n].status = "absent"
          /\ row'[n].retries = row[n].retries
          /\ UNCHANGED <<batch, pc, existing, failures, stuck, resets, faults>>
      BY <1>0, <1>1 DEF Arrive, RowsOK, RowStates, relay, history
    <2>2. Room(n)' = Room(n) /\ Failing(n)' = Failing(n) /\ (n \in stuck' => resets' > 0)
      BY <1>b, <2>1 DEF Room, Failing, At, Budgeted
    <2>3. QED
      BY <1>b, <2>1, <2>2, BudgetFrame DEF At
  <1>2. ASSUME NEW m \in Messages, Purge(m) PROVE Budgeted(n)'
    <2>1. /\ row'[n].status \in {row[n].status, "purged"} /\ row'[n].retries = row[n].retries
          /\ UNCHANGED <<batch, pc, existing, failures, stuck, resets, faults>>
      BY <1>0, <1>2, SetStatusType DEF Purge, relay, history
    <2>2. Room(n)' = Room(n) /\ Failing(n)' = Failing(n) /\ (n \in stuck' => resets' > 0)
      BY <1>b, <2>1 DEF Room, Failing, At, Budgeted
    <2>3. QED
      BY <1>b, <2>1, <2>2, BudgetFrame DEF At
  <1>3. ASSUME NEW p \in Publishers, Poll(p) PROVE Budgeted(n)'
    <2>1. \A q \in Publishers \ {p} : batch'[q] = batch[q] /\ pc'[q] = pc[q]
      BY <1>0, <1>3 DEF Poll, Goto, BatchesOK
    <2>2. batch[p] = {} /\ pc'[p] = "publish" /\ (n \in batch'[p] => row[n].status = "pending")
      BY <1>0, <1>3 DEF Poll, Goto, BatchesOK, Oldest, Pending
    <2>3. UNCHANGED <<row, existing, failures, stuck, resets, faults>>
      BY <1>3 DEF Poll, history
    <2>4. Room(n)' = Room(n) /\ (n \in stuck' => resets' > 0)
      BY <1>b, <2>3 DEF Room, Budgeted
    <2>5. Failing(n) => Failing(n)'
      BY <2>1, <2>2 DEF Failing, At
    <2>6. \A q \in Publishers : At(q, n)' /\ pc'[q] = "writeFailed" =>
              At(q, n) /\ pc[q] = "writeFailed" /\ existing'[q] = existing[q]
      BY <2>1, <2>2, <2>3 DEF At
    <2>7. row'[n].status \in {"absent", "pending"} \/ (\E q \in Publishers : n \in batch'[q]) =>
              row[n].status \in {"absent", "pending"} \/ (\E q \in Publishers : n \in batch[q])
      BY <2>1, <2>2, <2>3
    <2>8. Room(n)' \in Nat /\ Room(n)' >= Room(n)
      BY <1>b, <2>4
    <2>9. row'[n].retries = row[n].retries /\ failures'[n] = failures[n]
      BY <2>3
    <2>10. QED
      BY <1>b, <2>4, <2>5, <2>6, <2>7, <2>8, <2>9, BudgetFrame
  <1>4. ASSUME NEW p \in Publishers, NEW m \in Messages,
               \/ Publish(p, m) \/ PublishThrows(p, m) \/ MarkPublished(p, m)
               \/ MarkThrows(p, m) \/ FindExisting(p, m) \/ MarkFailed(p, m)
        PROVE  Budgeted(n)'
    BY <1>4, <1>a, <1>b, BudgetContinue
  <1>5. ASSUME NEW p \in Publishers, Abandon(p) PROVE Budgeted(n)'
    <2>1. /\ \A q \in Publishers \ {p} : batch'[q] = batch[q] /\ pc'[q] = pc[q]
          /\ batch'[p] = {} /\ pc'[p] = "poll" /\ faults' = faults + 1
          /\ UNCHANGED <<row, existing, failures, stuck, resets>>
      BY <1>0, <1>5 DEF Abandon, Fault, Goto, history, BatchesOK
    <2>2. Room(n)' = Room(n) + 1
      <3>1. Room(n)' = Room(n) + (faults' - faults)
        BY <1>b, <2>1, RoomFault DEF Budgeted
      <3>2. QED
        BY <1>0, <1>b, <2>1, <3>1 DEF CountersOK
    <2>3. /\ Room(n)' \in Nat /\ Room(n)' > Room(n) /\ Room(n)' >= Room(n)
          /\ n \in stuck' => resets' > 0
      BY <1>b, <2>1, <2>2 DEF Budgeted
    <2>4. \A q \in Publishers : At(q, n)' /\ pc'[q] = "writeFailed" =>
              At(q, n) /\ pc[q] = "writeFailed" /\ existing'[q] = existing[q]
      BY <2>1 DEF At
    <2>5. \A q \in Publishers : n \in batch'[q] => n \in batch[q]
      BY <2>1
    <2>6. QED
      BY <1>b, <2>1, <2>3, <2>4, <2>5, BudgetFrame
  <1>6. CASE FindStuck
    <2>1. /\ UNCHANGED <<row, batch, pc, existing, failures, faults>> /\ resets' = resets + 1
          /\ stuck = {}
      BY <1>6 DEF FindStuck, relay, history
    <2>2. resets \in Nat /\ MaxRetries * (resets + 1) = MaxRetries * resets + MaxRetries
      BY <1>0, OneMoreReset DEF CountersOK
    <2>3. Room(n)' \in {Room(n), Room(n) + MaxRetries}
      <3>1. Room(n) = faults + MaxRetries * resets /\ MaxRetries * resets \in Nat /\ faults \in Nat
        BY <1>0, <2>1, <2>2 DEF Room, CountersOK
      <3>2. (resets + 1) - 1 = resets
        BY <2>2
      <3>3. CASE n \in stuck'
        BY <2>1, <3>1, <3>2, <3>3 DEF Room
      <3>4. CASE n \notin stuck'
        <4>1. Room(n)' = faults + (MaxRetries * resets + MaxRetries)
          BY <2>1, <2>2, <3>4 DEF Room
        <4>2. QED
          BY <3>1, <4>1
      <3>5. QED
        BY <3>3, <3>4
    <2>4. Failing(n)' = Failing(n)
      BY <2>1 DEF Failing, At
    <2>5. resets' > 0 /\ Room(n)' \in Nat /\ Room(n)' >= Room(n)
      BY <1>b, <2>1, <2>2, <2>3
    <2>6. QED
      BY <1>b, <2>1, <2>4, <2>5, BudgetFrame DEF At
  <1>7. CASE ResetStuck
    BY <1>7, <1>b, BudgetReset
  <1>8. CASE UNCHANGED vars
    BY <1>8, <1>b DEF vars, Budgeted, Room, Failing, At
  <1>9. QED
    BY <1>1, <1>2, <1>3, <1>4, <1>5, <1>6, <1>7, <1>8 DEF Next, Continue

\* outbox.ts:82 and the operator's recovery: a message that one batch at a time
\* held never fails more often than MaxRetries times per reset, plus the faults,
\* although a reset may fall between markFailed's read and its write.
THEOREM RetriesAreBounded == Spec => []RetryBudget
  <1>1. Init => BudgetInv
    <2> SUFFICES ASSUME Init PROVE BudgetInv
      OBVIOUS
    <2>1. OneHolder
      BY DEF Init, OneHolder
    <2>2. ASSUME NEW m \in Messages PROVE Budgeted(m)
      <3>1. /\ row[m].retries = 0 /\ failures[m] = 0 /\ stuck = {} /\ resets = 0 /\ faults = 0
            /\ \A p \in Publishers : ~ At(p, m)
        BY DEF Init, At
      <3>2. ~ Failing(m) /\ Room(m) = 0
        BY <3>1 DEF Failing, Room
      <3>3. failures[m] <= Room(m) + row[m].retries + (IF Failing(m) THEN 1 ELSE 0)
        BY <3>1, <3>2
      <3>4. QED
        BY <3>1, <3>3 DEF Budgeted
    <2>3. QED
      BY <2>1, <2>2 DEF BudgetInv
  <1>2. TypeOK /\ BudgetInv => RetryBudget
    <2> SUFFICES ASSUME TypeOK, BudgetInv, NEW m \in Messages \ shared
                 PROVE  failures[m] <= MaxRetries * (1 + resets) + faults
      BY DEF RetryBudget
    <2>0. Budgeted(m)
      BY DEF BudgetInv
    <2>1. /\ resets \in Nat /\ faults \in Nat /\ failures[m] \in Nat /\ row[m].retries \in Nat
          /\ Room(m) \in Nat
      BY <2>0, RoomType DEF TypeOK, RowStates, Budgeted
    <2>2. MaxRetries * (1 + resets) = MaxRetries * resets + MaxRetries /\ MaxRetries * resets \in Nat
      BY <2>1, OneMoreReset
    <2>3. Room(m) <= MaxRetries * resets + faults
      <3>1. CASE m \in stuck
        <4>1. resets > 0
          BY <2>0, <3>1 DEF Budgeted
        <4>2. MaxRetries * resets = MaxRetries * (resets - 1) + MaxRetries
          BY <2>1, <4>1, OneResetLess
        <4>3. MaxRetries * (resets - 1) \in Nat
          BY <2>1, <4>1, OneResetLess
        <4>4. QED
          BY <2>1, <3>1, <4>2, <4>3 DEF Room
      <3>2. CASE m \notin stuck
        BY <2>1, <2>2, <3>2 DEF Room
      <3>3. QED
        BY <3>1, <3>2
    <2>4. failures[m] <= Room(m) + MaxRetries
      <3>1. CASE Failing(m)
        <4>1. row[m].retries < MaxRetries /\ failures[m] <= Room(m) + row[m].retries + 1
          BY <2>0, <3>1 DEF Budgeted, Failing, At
        <4>2. QED
          BY <2>1, <4>1
      <3>2. CASE ~ Failing(m)
        BY <2>0, <2>1, <3>2 DEF Budgeted
      <3>3. QED
        BY <3>1, <3>2
    <2>5. QED
      BY <2>1, <2>2, <2>3, <2>4
  <1>3. QED
    BY <1>1, <1>2, TypeCorrect, BudgetNext, PTL DEF Spec

=============================================================================
