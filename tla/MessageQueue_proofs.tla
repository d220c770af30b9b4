------------------------- MODULE MessageQueue_proofs -------------------------
(***************************************************************************)
(* Theorems about MessageQueue, for any payloads, replayers, number of     *)
(* attempts and concurrency: the types with the limit on running calls,    *)
(* that nothing published is lost but by a crash, and that nothing is      *)
(* handled twice without one of the causes the property names.             *)
(***************************************************************************)
EXTENDS MessageQueue, FiniteSetTheorems, SequenceTheorems, TLAPS

USE QueueAssumption

Entries == [payload : Payloads, status : {"pending", "replayed", "expired"}]

------------------------------------------------------------------------------
(* The inductive invariants.                                               *)

\* What is in the memory was published.
MemoryOK ==
    /\ copies \in [Payloads -> Nat] /\ \A p \in Payloads : copies[p] <= MaxMessages
    /\ queue \subseteq Messages /\ inflight \subseteq Messages
    /\ queue \cap inflight = {}
    /\ attempts \in [Messages -> 0..MaxAttempts]
    /\ calls \in [Messages -> [Stages -> Nat]]
    /\ running \in BOOLEAN
    /\ queue \cup inflight \subseteq Drawn
    /\ \A m \in Messages \ Drawn, s \in Stages : calls[m][s] = 0

SlotsOK == IsFiniteSet(InSlot) /\ Active <= Concurrency

TableOK ==
    /\ dead \in Seq(Entries)
    /\ entry \in [Replayers -> Nat] /\ published \in [Replayers -> BOOLEAN]
    /\ \A a \in Replayers : entry[a] <= Len(dead) /\ (published[a] => entry[a] # 0)
    /\ effects \in [Payloads -> Nat]
    /\ timedOut \subseteq Payloads /\ uncertain \subseteq Payloads
    /\ reread \subseteq Payloads /\ lost \subseteq Payloads
    /\ faults \in Nat

\* An entry whose replay has published its payload keeps it no longer: the
\* status the replayer will set says that it was replayed.
Keeps(k, p) ==
    /\ dead[k].payload = p /\ dead[k].status \in {"pending", "expired"}
    /\ \A a \in Replayers : ~ (entry[a] = k /\ published[a])

Kept(p) == \/ effects[p] > 0 \/ InMemory(p) \/ p \in lost
           \/ \E k \in DOMAIN dead : Keeps(k, p)

LostInv ==
    /\ \A p \in Payloads : copies[p] > 0 => Kept(p)
    /\ \A m \in Messages : At(m, "handled") => effects[m[1]] > 0

\* The places from which a payload can still be handled: its messages, and the
\* entries that are yet to be replayed.
Live(p) == {m \in queue \cup inflight : m[1] = p}

Open(p) == {k \in DOMAIN dead :
               /\ dead[k].payload = p
               /\ dead[k].status = "pending" \/ AtEntry(k) # {}
               /\ \A a \in AtEntry(k) : ~ published[a]}

\* The one call of a message in flight, none of any other.
OneCall(m) ==
    \/ /\ m \in inflight
       /\ \E s \in Stages : calls[m] = [NoCalls EXCEPT ![s] = 1]
    \/ m \notin inflight /\ calls[m] = NoCalls

Clean(p) == p \notin timedOut \cup uncertain \cup reread

\* A clean payload is in one place at a time, and if it is yet to be handled it
\* has not been.
OnePlace(p) ==
    /\ \A m \in Messages : m[1] = p => OneCall(m)
    /\ \A m, n \in Live(p) : m = n
    /\ \A k, l \in Open(p) : k = l
    /\ Live(p) # {} => Open(p) = {}
    /\ effects[p] <= 1
    /\ (\E m \in Live(p) : ~ At(m, "handled")) \/ Open(p) # {} => effects[p] = 0
    /\ \A k \in DOMAIN dead : dead[k].payload = p => \A a, b \in AtEntry(k) : a = b
    /\ copies[p] = 0 => /\ effects[p] = 0
                        /\ \A k \in DOMAIN dead : dead[k].payload # p

OneInv == \A p \in Payloads : Clean(p) => OnePlace(p)

------------------------------------------------------------------------------
(* The calls.                                                              *)

Slotted == Stages \ {"waiting"}

\* A call that moves: its message's other calls and the others' stay.
LEMMA Moves ==
    ASSUME calls \in [Messages -> [Stages -> Nat]], NEW m \in Messages,
           NEW from \in Stages \cup {"none"}, NEW to \in Stages \cup {"none"}, from # to,
           from # "none" => At(m, from), Move(m, from, to)
    PROVE  /\ calls' \in [Messages -> [Stages -> Nat]]
           /\ \A n \in Messages \ {m} : calls'[n] = calls[n]
           /\ \A s \in Stages : /\ s = to => calls'[m][s] = calls[m][s] + 1
                                /\ s = from => calls'[m][s] = calls[m][s] - 1
                                /\ s # to /\ s # from => calls'[m][s] = calls[m][s]
  <1> DEFINE now == [s \in Stages |->
                        calls[m][s] + (IF s = to THEN 1 ELSE 0) - (IF s = from THEN 1 ELSE 0)]
  <1>1. calls' = [calls EXCEPT ![m] = now]
    BY DEF Move
  <1>2. now \in [Stages -> Nat]
    <2>1. ASSUME NEW s \in Stages
          PROVE  calls[m][s] + (IF s = to THEN 1 ELSE 0) - (IF s = from THEN 1 ELSE 0) \in Nat
      <3>1. calls[m][s] \in Nat /\ (s = from => calls[m][s] > 0)
        BY DEF At, Stages
      <3>2. QED
        BY <3>1
    <2>2. QED
      BY <2>1
  <1>3. \A s \in Stages : /\ calls[m][s] \in Nat
                          /\ now[s] = calls[m][s] + (IF s = to THEN 1 ELSE 0) - (IF s = from THEN 1 ELSE 0)
    OBVIOUS
  <1>4. \A s \in Stages : /\ s = to => now[s] = calls[m][s] + 1
                          /\ s = from => now[s] = calls[m][s] - 1
                          /\ s # to /\ s # from => now[s] = calls[m][s]
    BY <1>3
  <1> HIDE DEF now
  <1>5. calls' \in [Messages -> [Stages -> Nat]] /\ calls'[m] = now
        /\ \A n \in Messages \ {m} : calls'[n] = calls[n]
    BY <1>1, <1>2
  <1>6. QED
    BY <1>4, <1>5

SlotsOf(c) == UNION {{<<n, s>>} \X (1..c[n][s]) : n \in Messages, s \in Slotted}

LEMMA SlotsAre ==
    ASSUME NEW c \in [Messages -> [Stages -> Nat]], NEW x
    PROVE  x \in SlotsOf(c) <=> \E n \in Messages, s \in Slotted, k \in Nat :
                                    x = <<<<n, s>>, k>> /\ 1 <= k /\ k <= c[n][s]
  <1>1. ASSUME x \in SlotsOf(c)
        PROVE  \E n \in Messages, s \in Slotted, k \in Nat :
                                      x = <<<<n, s>>, k>> /\ 1 <= k /\ k <= c[n][s]
    <2>1. PICK n \in Messages, s \in Slotted : x \in {<<n, s>>} \X (1..c[n][s])
      BY <1>1 DEF SlotsOf
    <2>2. c[n][s] \in Nat
      BY DEF Slotted
    <2>3. PICK k \in 1..c[n][s] : x = <<<<n, s>>, k>>
      BY <2>1
    <2>4. k \in Nat /\ 1 <= k /\ k <= c[n][s]
      BY <2>2
    <2>5. QED
      BY <2>3, <2>4
  <1>2. ASSUME NEW n \in Messages, NEW s \in Slotted, NEW k \in Nat,
               x = <<<<n, s>>, k>> /\ 1 <= k /\ k <= c[n][s]
        PROVE  x \in SlotsOf(c)
    <2>1. c[n][s] \in Nat
      BY DEF Slotted
    <2>2. k \in 1..c[n][s]
      BY <1>2, <2>1
    <2>3. x \in {<<n, s>>} \X (1..c[n][s])
      BY <1>2, <2>2
    <2> DEFINE T == {<<n, s>>} \X (1..c[n][s])
               TT == {{<<v, w>>} \X (1..c[v][w]) : v \in Messages, w \in Slotted}
    <2>4. T \in TT
      OBVIOUS
    <2>5. SlotsOf(c) = UNION TT
      BY DEF SlotsOf
    <2> HIDE DEF T, TT
    <2>6. x \in UNION TT
      BY <2>3, <2>4 DEF T
    <2>7. QED
      BY <2>5, <2>6
  <1>3. QED
    BY <1>1, <1>2

\* A call that takes a slot needs a free one; one that keeps its own, or gives
\* it up, does not.
LEMMA SlotsMove ==
    ASSUME calls \in [Messages -> [Stages -> Nat]], SlotsOK, NEW m \in Messages,
           NEW from \in Stages \cup {"none"}, NEW to \in Stages \cup {"none"}, from # to,
           from # "none" => At(m, from), Move(m, from, to),
           to \in Slotted => from \in Slotted \/ SlotFree
    PROVE  SlotsOK'
  <1> DEFINE gone == <<<<m, from>>, calls[m][from]>>
             new == <<<<m, to>>, calls[m][to] + 1>>
             old == SlotsOf(calls)
             now == SlotsOf(calls')
  <1>1. /\ calls' \in [Messages -> [Stages -> Nat]]
        /\ \A n \in Messages \ {m} : calls'[n] = calls[n]
        /\ \A s \in Stages : /\ s = to => calls'[m][s] = calls[m][s] + 1
                             /\ s = from => calls'[m][s] = calls[m][s] - 1
                             /\ s # to /\ s # from => calls'[m][s] = calls[m][s]
    BY Moves
  <1>2. InSlot = old /\ InSlot' = now
    BY DEF InSlot, SlotsOf, Slotted
  <1>3. IsFiniteSet(old) /\ Cardinality(old) <= Concurrency /\ Cardinality(old) \in Nat
    BY <1>2, FS_CardinalityType DEF SlotsOK, Active
  <1>4. /\ Slotted \subseteq Stages /\ "none" \notin Stages
        /\ \A s \in Stages : calls[m][s] \in Nat /\ (s = from => calls[m][s] > 0)
    BY DEF Slotted, At, Stages
  <1>5. from \in Slotted => gone \in old
    <2> SUFFICES ASSUME from \in Slotted PROVE gone \in old
      OBVIOUS
    <2>1. calls[m][from] \in Nat /\ 1 <= calls[m][from]
      BY <1>4
    <2>2. QED
      BY <2>1, SlotsAre
  <1>6. ASSUME NEW x, x \in now, x \notin old PROVE to \in Slotted /\ x = new
    <2>1. PICK n \in Messages, s \in Slotted, k \in Nat :
                x = <<<<n, s>>, k>> /\ 1 <= k /\ k <= calls'[n][s]
      BY <1>1, <1>6, SlotsAre
    <2>2. ~ (k <= calls[n][s])
      BY <1>6, <2>1, SlotsAre
    <2>3. n = m
      BY <1>1, <2>1, <2>2
    <2>4. s \in Stages /\ calls[m][s] \in Nat
      BY <1>4
    <2>5. s = to
      <3>1. s # to => calls'[m][s] <= calls[m][s]
        BY <1>1, <2>4
      <3>2. calls'[m][s] \in Nat /\ k <= calls'[m][s] /\ ~ (k <= calls[m][s])
        BY <1>1, <2>1, <2>2, <2>3, <2>4
      <3>3. QED
        BY <2>4, <3>1, <3>2
    <2>6. k = calls[m][to] + 1
      <3>1. calls'[m][s] = calls[m][s] + 1
        BY <1>1, <2>4, <2>5
      <3>2. k <= calls[m][s] + 1 /\ ~ (k <= calls[m][s])
        BY <2>1, <2>2, <2>3, <3>1
      <3>3. QED
        BY <2>4, <2>5, <3>2
    <2>7. QED
      BY <2>1, <2>3, <2>5, <2>6
  <1>7. ASSUME from \in Slotted PROVE gone \notin now
    <2> SUFFICES ASSUME gone \in now PROVE FALSE
      OBVIOUS
    <2>1. PICK n \in Messages, s \in Slotted, k \in Nat :
                gone = <<<<n, s>>, k>> /\ 1 <= k /\ k <= calls'[n][s]
      BY <1>1, SlotsAre
    <2>2. n = m /\ s = from /\ k = calls[m][from]
      BY <2>1
    <2>3. calls'[m][from] = calls[m][from] - 1 /\ calls[m][from] \in Nat
      BY <1>1, <1>4, <1>7
    <2>4. QED
      BY <2>1, <2>2, <2>3
  <1> DEFINE rest == IF from \in Slotted THEN old \ {gone} ELSE old
             most == IF to \in Slotted THEN rest \cup {new} ELSE rest
  <1> HIDE DEF gone, new, old, now
  <1>8. now \subseteq most
    BY <1>6, <1>7
  <1>9. /\ IsFiniteSet(rest)
        /\ Cardinality(rest) = IF from \in Slotted THEN Cardinality(old) - 1 ELSE Cardinality(old)
    BY <1>3, <1>5, FS_RemoveElement
  <1>10. Cardinality(rest) \in Nat
    BY <1>9, FS_CardinalityType
  <1>11. to \in Slotted => Cardinality(rest) < Concurrency
    BY <1>2, <1>3, <1>9, <1>10 DEF SlotFree, Active
  <1> HIDE DEF rest
  <1>12. IsFiniteSet(most) /\ Cardinality(most) \in Nat /\ Cardinality(most) <= Concurrency
    <2>1. CASE to \in Slotted
      <3>1. IsFiniteSet(rest \cup {new}) /\ Cardinality(rest \cup {new}) \in Nat
        BY <1>9, FS_AddElement, FS_CardinalityType
      <3>2. Cardinality(rest \cup {new}) \in {Cardinality(rest), Cardinality(rest) + 1}
        <4>1. Cardinality(rest \cup {new}) = IF new \in rest THEN Cardinality(rest) ELSE Cardinality(rest) + 1
          BY <1>9, FS_AddElement, Zenon
        <4>2. QED
          BY <4>1
      <3>3. QED
        BY <1>10, <1>11, <2>1, <3>1, <3>2
    <2>2. CASE to \notin Slotted
      <3>1. Cardinality(rest) <= Concurrency
        BY <1>3, <1>9
      <3>2. QED
        BY <1>9, <1>10, <2>2, <3>1
    <2>3. QED
      BY <2>1, <2>2
  <1> HIDE DEF most
  <1>13. IsFiniteSet(now) /\ Cardinality(now) \in Nat /\ Cardinality(now) <= Cardinality(most)
    BY <1>8, <1>12, FS_Subset, FS_CardinalityType
  <1>14. QED
    BY <1>2, <1>12, <1>13 DEF SlotsOK, Active

LEMMA SlotsStay ==
    ASSUME SlotsOK, UNCHANGED calls
    PROVE  SlotsOK'
  BY DEF SlotsOK, Active, InSlot

------------------------------------------------------------------------------
(* The memory.                                                             *)

LEMMA NumberedTo ==
    ASSUME NEW n \in Nat
    PROVE  IsFiniteSet(1..n) /\ Cardinality(1..n) = n
  <1>1. IsFiniteSet(1..n) /\ Cardinality(1..n) = IF 1 > n THEN 0 ELSE n - 1 + 1
    BY FS_Interval
  <1>2. n = 0 \/ n > 0
    OBVIOUS
  <1>3. QED
    BY <1>1, <1>2

\* A new id: the bound on the ids that are drawn leaves one for the payload.
LEMMA PublishDraws ==
    ASSUME MemoryOK, NEW p \in Payloads, Publish(p), NEW m, m = <<p, copies[p] + 1>>
    PROVE  /\ m \in Messages /\ m \notin Drawn /\ m[1] = p /\ queue' = queue \cup {m}
           /\ copies' \in [Payloads -> Nat] /\ \A q \in Payloads : copies'[q] <= MaxMessages
           /\ copies'[p] = copies[p] + 1 /\ \A q \in Payloads \ {p} : copies'[q] = copies[q]
           /\ Drawn \subseteq Drawn' /\ m \in Drawn'
  <1> DEFINE n == copies[p]
             mine == {p} \X (1..n)
  <1>1. n \in Nat /\ n <= MaxMessages
    BY DEF MemoryOK
  <1>2. IsFiniteSet(Drawn) /\ Cardinality(Drawn) \in Nat
    <2>1. IsFiniteSet(1..MaxMessages)
      BY FS_Interval
    <2>2. IsFiniteSet(Messages)
      BY <2>1, FS_Product DEF Messages
    <2>3. Drawn \subseteq Messages
      BY DEF Drawn
    <2>4. QED
      BY <2>2, <2>3, FS_Subset, FS_CardinalityType
  <1>3. mine \subseteq Drawn
    <2>1. ASSUME NEW k \in 1..n PROVE <<p, k>> \in Drawn
      <3>1. k \in 1..MaxMessages
        BY <1>1
      <3>2. <<p, k>> \in Messages
        BY <3>1 DEF Messages
      <3>3. QED
        BY <3>2 DEF Drawn
    <2>2. QED
      BY <2>1
  <1>4. Cardinality(mine) = n
    <2>1. IsFiniteSet(1..n) /\ Cardinality(1..n) = n
      BY <1>1, NumberedTo
    <2>2. IsFiniteSet({p}) /\ Cardinality({p}) = 1
      BY FS_Singleton
    <2>3. Cardinality(mine) = 1 * Cardinality(1..n)
      BY <2>1, <2>2, FS_Product
    <2> HIDE DEF mine, n
    <2>4. QED
      BY <1>1, <2>1, <2>3
  <1>5. n < MaxMessages
    <2> HIDE DEF mine, n
    <2>1. Cardinality(mine) <= Cardinality(Drawn) /\ Cardinality(Drawn) < MaxMessages
      BY <1>2, <1>3, FS_Subset DEF Publish
    <2>2. QED
      BY <1>1, <1>2, <1>4, <2>1
  <1>6. m \in Messages /\ m[1] = p /\ m[2] = n + 1
    BY <1>1, <1>5 DEF Messages
  <1>7. m \notin Drawn
    BY <1>1, <1>6 DEF Drawn
  <1>8. /\ copies' \in [Payloads -> Nat] /\ \A q \in Payloads : copies'[q] <= MaxMessages
        /\ copies'[p] = n + 1 /\ \A q \in Payloads \ {p} : copies'[q] = copies[q]
    BY <1>1, <1>5 DEF Publish, MemoryOK
  <1>9. \A q \in Payloads : copies[q] <= copies'[q] /\ copies[q] \in Nat /\ copies'[q] \in Nat
    BY <1>1, <1>8 DEF MemoryOK
  <1>10. Drawn \subseteq Drawn' /\ m \in Drawn'
    <2>1. \A x \in Messages : x[1] \in Payloads /\ x[2] \in Nat
      BY DEF Messages
    <2>2. \A x \in Messages : x[2] <= copies[x[1]] => x[2] <= copies'[x[1]]
      BY <1>9, <2>1
    <2>3. QED
      BY <1>1, <1>6, <1>8, <2>2 DEF Drawn
  <1>11. QED
    BY <1>6, <1>7, <1>8, <1>10 DEF Publish

LEMMA PublishTypes ==
    ASSUME MemoryOK, NEW p \in Payloads, Publish(p), UNCHANGED <<inflight, attempts, calls, running>>
    PROVE  MemoryOK'
  <1>1. PICK m : m = <<p, copies[p] + 1>>
    OBVIOUS
  <1>2. /\ m \in Messages /\ m \notin Drawn /\ queue' = queue \cup {m}
        /\ copies' \in [Payloads -> Nat] /\ \A q \in Payloads : copies'[q] <= MaxMessages
        /\ Drawn \subseteq Drawn' /\ m \in Drawn'
    BY <1>1, PublishDraws
  <1>3. queue' \cup inflight' \subseteq Drawn' /\ queue' \cap inflight' = {}
    BY <1>2 DEF MemoryOK
  <1>4. \A x \in Messages \ Drawn', s \in Stages : calls'[x][s] = 0
    BY <1>2 DEF MemoryOK
  <1>5. QED
    BY <1>2, <1>3, <1>4 DEF MemoryOK

\* The next attempt's number.
LEMMA Attempted ==
    ASSUME MemoryOK, NEW m \in Messages
    PROVE  [attempts EXCEPT ![m] = Min({@ + 1, MaxAttempts})] \in [Messages -> 0..MaxAttempts]
  <1> DEFINE S == {attempts[m] + 1, MaxAttempts}
  <1>1. attempts[m] + 1 \in Nat /\ MaxAttempts \in Nat
    BY DEF MemoryOK
  <1>2. \E x \in S : \A y \in S : x <= y
    BY <1>1
  <1>3. Min(S) \in S /\ \A y \in S : Min(S) <= y
    BY <1>2 DEF Min
  <1>4. Min(S) \in 0..MaxAttempts
    BY <1>1, <1>3
  <1> HIDE DEF S
  <1>5. [attempts EXCEPT ![m] = Min(S)] \in [Messages -> 0..MaxAttempts]
    BY <1>4 DEF MemoryOK
  <1>6. QED
    BY <1>5 DEF S

\* Messages go between the list and the table of those in flight, and calls are
\* of those that were published.
LEMMA PlacesType ==
    ASSUME MemoryOK, UNCHANGED copies, running' \in BOOLEAN,
           queue' \cup inflight' \subseteq queue \cup inflight, queue' \cap inflight' = {},
           attempts' \in [Messages -> 0..MaxAttempts],
           calls' \in [Messages -> [Stages -> Nat]],
           \A x \in Messages \ Drawn : calls'[x] = calls[x] \/ calls'[x] = NoCalls
    PROVE  MemoryOK'
  <1>1. Drawn' = Drawn
    BY DEF Drawn
  <1>2. \A x \in Messages \ Drawn', s \in Stages : calls'[x][s] = 0
    BY <1>1 DEF MemoryOK, NoCalls
  <1>3. QED
    BY <1>1, <1>2 DEF MemoryOK

\* What an ack and a nack do to the places.
LEMMA AckPlaces ==
    ASSUME MemoryOK, NEW m \in Messages, Ack(m) \/ Nack(m)
    PROVE  /\ queue' \cup inflight' \subseteq queue \cup inflight /\ queue' \cap inflight' = {}
           /\ attempts' \in [Messages -> 0..MaxAttempts]
  <1>1. CASE Ack(m)
    BY <1>1 DEF Ack, MemoryOK
  <1>2. CASE Nack(m)
    BY <1>2, Attempted DEF Nack, MemoryOK
  <1>3. QED
    BY <1>1, <1>2

\* A call of a message that was published.
LEMMA CallDrawn ==
    ASSUME MemoryOK, NEW m \in Messages, NEW s \in Stages, At(m, s)
    PROVE  m \in Drawn
  BY DEF MemoryOK, At

\* A step of a call, with what it does to its message.
LEMMA CallTypes ==
    ASSUME MemoryOK, SlotsOK, NEW m \in Messages, NEW from \in Stages,
           NEW to \in Stages \cup {"none"}, from # to, At(m, from), Move(m, from, to),
           to \in Slotted => from \in Slotted \/ SlotFree,
           UNCHANGED <<copies, running>>,
           UNCHANGED <<queue, inflight, attempts>> \/ Ack(m) \/ Nack(m)
    PROVE  MemoryOK' /\ SlotsOK'
  <1>1. calls \in [Messages -> [Stages -> Nat]] /\ from \in Stages \cup {"none"}
    BY DEF MemoryOK
  <1>2. /\ calls' \in [Messages -> [Stages -> Nat]]
        /\ \A n \in Messages \ {m} : calls'[n] = calls[n]
    BY <1>1, Moves
  <1>3. SlotsOK'
    BY <1>1, SlotsMove
  <1>4. /\ queue' \cup inflight' \subseteq queue \cup inflight /\ queue' \cap inflight' = {}
        /\ attempts' \in [Messages -> 0..MaxAttempts]
    BY AckPlaces DEF MemoryOK
  <1>5. m \in Drawn
    BY CallDrawn
  <1>6. MemoryOK'
    BY <1>2, <1>4, <1>5, PlacesType DEF MemoryOK
  <1>7. QED
    BY <1>3, <1>6

LEMMA DispatchTypes ==
    ASSUME MemoryOK, SlotsOK, NEW m \in Messages, Dispatch(m)
    PROVE  MemoryOK' /\ SlotsOK'
  <1>1. m \in queue /\ m \in Drawn /\ calls \in [Messages -> [Stages -> Nat]]
    BY DEF Dispatch, MemoryOK
  <1>2. CASE running
    <2>1. /\ Move(m, "none", "waiting") /\ queue' = queue \ {m} /\ inflight' = inflight \cup {m}
          /\ UNCHANGED <<attempts, copies, running>>
      BY <1>2 DEF Dispatch
    <2>2. "none" \in Stages \cup {"none"} /\ "waiting" \in Stages \cup {"none"} /\ "waiting" \notin Slotted
      BY DEF Stages, Slotted
    <2>3. /\ calls' \in [Messages -> [Stages -> Nat]]
          /\ \A n \in Messages \ {m} : calls'[n] = calls[n]
      BY <1>1, <2>1, <2>2, Moves
    <2>4. SlotsOK'
      BY <1>1, <2>1, <2>2, SlotsMove
    <2>5. queue' \cup inflight' \subseteq queue \cup inflight /\ queue' \cap inflight' = {}
      BY <1>1, <2>1 DEF MemoryOK
    <2>6. MemoryOK'
      BY <1>1, <2>1, <2>3, <2>5, PlacesType DEF MemoryOK
    <2>7. QED
      BY <2>4, <2>6
  <1>3. CASE ~ running
    <2>1. UNCHANGED <<queue, inflight, calls, copies, running>>
          /\ attempts' = [attempts EXCEPT ![m] = Min({@ + 1, MaxAttempts})]
      BY <1>3 DEF Dispatch
    <2>2. MemoryOK'
      BY <2>1, Attempted, PlacesType DEF MemoryOK
    <2>3. QED
      BY <2>1, <2>2, SlotsStay
  <1>4. QED
    BY <1>2, <1>3

LEMMA CrashTypes ==
    ASSUME MemoryOK, SlotsOK, Crash
    PROVE  MemoryOK' /\ SlotsOK'
  <1>1. /\ queue' = {} /\ inflight' = {} /\ calls' = [m \in Messages |-> NoCalls] /\ running'
        /\ UNCHANGED <<copies, attempts>>
    BY DEF Crash
  <1>2. NoCalls \in [Stages -> Nat] /\ \A s \in Stages : NoCalls[s] = 0
    BY DEF NoCalls
  <1>3. calls' \in [Messages -> [Stages -> Nat]] /\ \A x \in Messages : calls'[x] = NoCalls
    BY <1>1, <1>2
  <1>4. MemoryOK'
    BY <1>1, <1>3, PlacesType DEF MemoryOK, Crash
  <1>5. SlotsOK'
    <2>1. InSlot' = SlotsOf(calls')
      BY DEF InSlot, SlotsOf, Slotted
    <2>2. SlotsOf(calls') = {}
      <3> SUFFICES ASSUME NEW x \in SlotsOf(calls') PROVE FALSE
        OBVIOUS
      <3>1. PICK n \in Messages, s \in Slotted, k \in Nat : 1 <= k /\ k <= calls'[n][s]
        BY <1>3, SlotsAre
      <3>2. calls'[n][s] = 0
        BY <1>2, <1>3 DEF Slotted
      <3>3. QED
        BY <3>1, <3>2
    <2>3. IsFiniteSet({}) /\ Cardinality({}) = 0
      BY FS_EmptySet
    <2>4. QED
      BY <2>1, <2>2, <2>3 DEF SlotsOK, Active
  <1>6. QED
    BY <1>4, <1>5

\* Whatever step runs, the memory and the slots stay what they should be.
LEMMA MemoryNext ==
    ASSUME MemoryOK, SlotsOK, TableOK, [Next]_vars
    PROVE  MemoryOK' /\ SlotsOK'
  <1>1. ASSUME NEW p \in Payloads, PublishFirst(p) PROVE MemoryOK' /\ SlotsOK'
    BY <1>1, PublishTypes, SlotsStay DEF PublishFirst
  <1>2. ASSUME NEW a \in Replayers, PublishEntry(a) PROVE MemoryOK' /\ SlotsOK'
    <2>1. dead[entry[a]].payload \in Payloads
      <3>1. entry[a] \in 1..Len(dead)
        BY <1>2 DEF PublishEntry, TableOK
      <3>2. dead[entry[a]] \in Entries
        BY <3>1 DEF TableOK
      <3>3. QED
        BY <3>2 DEF Entries
    <2>2. QED
      BY <1>2, <2>1, PublishTypes, SlotsStay DEF PublishEntry
  <1>3. ASSUME NEW m \in Messages, Dispatch(m) PROVE MemoryOK' /\ SlotsOK'
    BY <1>3, DispatchTypes
  <1>4. ASSUME NEW m \in Messages,
               AcquireSlot(m) \/ Handle(m) \/ Succeed(m) \/ Fail(m) \/ Sent(m) \/ SendFails(m)
        PROVE  MemoryOK' /\ SlotsOK'
    <2>1. /\ {"waiting", "handling", "handled", "sending"} \subseteq Stages
          /\ "waiting" \notin Slotted /\ {"handling", "handled", "sending"} \subseteq Slotted
          /\ "none" \notin Slotted
      BY DEF Stages, Slotted
    <2>2. CASE AcquireSlot(m)
      BY <2>1, <2>2, CallTypes DEF AcquireSlot
    <2>3. CASE Handle(m)
      BY <2>1, <2>3, CallTypes DEF Handle
    <2>4. CASE Succeed(m)
      BY <2>1, <2>4, CallTypes DEF Succeed
    <2>5. CASE Fail(m)
      BY <2>1, <2>5, CallTypes DEF Fail
    <2>6. CASE Sent(m)
      BY <2>1, <2>6, CallTypes DEF Sent
    <2>7. CASE SendFails(m)
      BY <2>1, <2>7, CallTypes DEF SendFails
    <2>8. QED
      BY <1>4, <2>2, <2>3, <2>4, <2>5, <2>6, <2>7
  <1>5. ASSUME NEW m \in Messages, VisibilityTimeout(m) PROVE MemoryOK' /\ SlotsOK'
    <2>1. queue' \cup inflight' \subseteq queue \cup inflight /\ queue' \cap inflight' = {}
      BY <1>5 DEF VisibilityTimeout, MemoryOK
    <2>2. UNCHANGED <<copies, attempts, calls, running>>
      BY <1>5 DEF VisibilityTimeout
    <2>3. QED
      BY <2>1, <2>2, PlacesType, SlotsStay DEF MemoryOK
  <1>6. CASE StopWorker \/ StartWorker
    <2>1. UNCHANGED <<copies, queue, inflight, attempts, calls>> /\ running' \in BOOLEAN
      BY <1>6 DEF StopWorker, StartWorker
    <2>2. QED
      BY <2>1, PlacesType, SlotsStay DEF MemoryOK
  <1>7. CASE Crash
    BY <1>7, CrashTypes
  <1>8. CASE UNCHANGED memory
    BY <1>8, PlacesType, SlotsStay DEF MemoryOK, memory
  <1>9. ASSUME NEW k \in DOMAIN dead, ExpireEntry(k) \/ \E a \in Replayers : FindEntry(a, k)
        PROVE  UNCHANGED memory
    BY <1>9 DEF ExpireEntry, FindEntry
  <1>10. ASSUME NEW a \in Replayers, MarkReplayed(a) PROVE UNCHANGED memory
    BY <1>10 DEF MarkReplayed
  <1>11. UNCHANGED vars => UNCHANGED memory
    BY DEF vars
  <1>12. QED
    BY <1>1, <1>2, <1>3, <1>4, <1>5, <1>6, <1>7, <1>8, <1>9, <1>10, <1>11 DEF Next, Deliver

------------------------------------------------------------------------------
(* The dead-letter table, the replays and the types.                       *)

LEMMA EntryOf ==
    ASSUME TableOK, NEW k \in DOMAIN dead
    PROVE  dead[k] \in Entries /\ dead[k].payload \in Payloads /\ k \in 1..Len(dead)
  <1>1. k \in 1..Len(dead) /\ dead[k] \in Entries
    BY DEF TableOK
  <1>2. QED
    BY <1>1 DEF Entries

\* A row that is inserted is the table's last.
LEMMA Inserted ==
    ASSUME TableOK, NEW m \in Messages, Insert(m)
    PROVE  /\ dead' \in Seq(Entries) /\ Len(dead') = Len(dead) + 1 /\ Len(dead) \in Nat
           /\ DOMAIN dead = 1..Len(dead) /\ DOMAIN dead' = 1..(Len(dead) + 1)
           /\ \A k \in DOMAIN dead : dead'[k] = dead[k]
           /\ dead'[Len(dead) + 1].payload = m[1] /\ dead'[Len(dead) + 1].status = "pending"
           /\ m[1] \in Payloads
  <1> DEFINE e == [payload |-> m[1], status |-> "pending"]
  <1>1. m[1] \in Payloads /\ e \in Entries /\ e.payload = m[1] /\ e.status = "pending"
    BY DEF Messages, Entries
  <1>2. dead' = Append(dead, e) /\ dead \in Seq(Entries)
    BY DEF Insert, TableOK
  <1> HIDE DEF e
  <1>3. QED
    BY <1>1, <1>2

LEMMA StatusSet ==
    ASSUME TableOK, NEW k \in DOMAIN dead, NEW status \in {"pending", "replayed", "expired"},
           SetStatus(k, status)
    PROVE  /\ dead' \in Seq(Entries) /\ Len(dead') = Len(dead) /\ DOMAIN dead' = DOMAIN dead
           /\ \A j \in DOMAIN dead : j # k => dead'[j] = dead[j]
           /\ dead'[k].payload = dead[k].payload /\ dead'[k].status = status
  <1> DEFINE old == dead[k]
             new == [old EXCEPT !.status = status]
  <1>1. old \in Entries /\ k \in 1..Len(dead)
    BY EntryOf
  <1>2. new \in Entries /\ new.payload = old.payload /\ new.status = status
    BY <1>1 DEF Entries
  <1>3. dead' = [dead EXCEPT ![k] = new] /\ dead \in Seq(Entries)
    BY DEF SetStatus, TableOK
  <1> HIDE DEF new
  <1>4. QED
    BY <1>1, <1>2, <1>3

LEMMA TableNext ==
    ASSUME MemoryOK, TableOK, [Next]_vars
    PROVE  TableOK'
  <1>1. ASSUME NEW p \in Payloads, PublishFirst(p) PROVE TableOK'
    BY <1>1 DEF PublishFirst, TableOK, replay, history
  <1>2. ASSUME NEW m \in Messages, Dispatch(m) \/ AcquireSlot(m) \/ Succeed(m) \/ Fail(m)
        PROVE  TableOK'
    BY <1>2 DEF Dispatch, AcquireSlot, Succeed, Fail, TableOK, replay, history
  <1>3. ASSUME NEW m \in Messages, Handle(m) PROVE TableOK'
    <2>1. m[1] \in Payloads
      BY DEF Messages
    <2>2. effects' \in [Payloads -> Nat]
      BY <1>3, <2>1 DEF Handle, TableOK
    <2>3. QED
      BY <1>3, <2>2 DEF Handle, TableOK, replay, history
  <1>4. ASSUME NEW m \in Messages, Sent(m) PROVE TableOK'
    <2>1. dead' \in Seq(Entries) /\ Len(dead') = Len(dead) + 1 /\ Len(dead) \in Nat
      BY <1>4, Inserted DEF Sent
    <2>2. UNCHANGED <<entry, published, effects, timedOut, uncertain, reread, lost, faults>>
      BY <1>4 DEF Sent, replay, history
    <2>3. \A a \in Replayers : entry'[a] <= Len(dead') /\ (published'[a] => entry'[a] # 0)
      BY <2>1, <2>2 DEF TableOK
    <2>4. QED
      BY <2>1, <2>2, <2>3 DEF TableOK
  <1>5. ASSUME NEW m \in Messages, SendFails(m) PROVE TableOK'
    <2>1. m[1] \in Payloads
      BY DEF Messages
    <2>2. /\ dead' \in Seq(Entries) /\ Len(dead') \in {Len(dead), Len(dead) + 1} /\ Len(dead) \in Nat
          /\ uncertain' \subseteq Payloads
      BY <1>5, <2>1, Inserted DEF SendFails, TableOK
    <2>3. UNCHANGED <<entry, published, effects, timedOut, reread, lost>> /\ faults' = faults + 1
      BY <1>5 DEF SendFails, replay, Fault
    <2>4. \A a \in Replayers : entry'[a] <= Len(dead') /\ (published'[a] => entry'[a] # 0)
      BY <2>2, <2>3 DEF TableOK
    <2>5. QED
      BY <2>2, <2>3, <2>4 DEF TableOK
  <1>6. ASSUME NEW m \in Messages, VisibilityTimeout(m) PROVE TableOK'
    <2>1. m[1] \in Payloads
      BY DEF Messages
    <2>2. QED
      BY <1>6, <2>1 DEF VisibilityTimeout, Fault, TableOK, replay
  <1>7. CASE StopWorker \/ StartWorker
    BY <1>7 DEF StopWorker, StartWorker, Fault, TableOK, replay, history
  <1>8. CASE Crash
    <2>1. \A m \in queue \cup inflight : m[1] \in Payloads
      BY DEF MemoryOK, Messages
    <2>2. \A a \in Replayers : published[a] => dead[entry[a]].payload \in Payloads
      BY EntryOf DEF TableOK
    <2>3. lost' \subseteq Payloads
      BY <1>8, <2>1 DEF Crash, TableOK
    <2>4. reread' \subseteq Payloads
      BY <1>8, <2>2 DEF Crash, TableOK
    <2>5. QED
      BY <1>8, <2>3, <2>4 DEF Crash, Fault, TableOK
  <1>9. ASSUME NEW k \in DOMAIN dead, ExpireEntry(k) PROVE TableOK'
    <2>1. dead' \in Seq(Entries) /\ Len(dead') = Len(dead)
      BY <1>9, StatusSet DEF ExpireEntry
    <2>2. QED
      BY <1>9, <2>1 DEF ExpireEntry, TableOK, replay, history
  <1>10. ASSUME NEW k \in DOMAIN dead, NEW a \in Replayers, FindEntry(a, k) PROVE TableOK'
    <2>1. dead[k].payload \in Payloads /\ k \in Nat /\ k <= Len(dead) /\ k # 0
      BY EntryOf DEF TableOK
    <2>2. UNCHANGED <<dead, published, effects, timedOut, uncertain, lost, faults>>
      BY <1>10 DEF FindEntry
    <2>3. reread' \subseteq Payloads
      BY <1>10, <2>1 DEF FindEntry, TableOK
    <2>4. /\ entry' \in [Replayers -> Nat]
          /\ \A b \in Replayers : entry'[b] <= Len(dead') /\ (published'[b] => entry'[b] # 0)
      BY <1>10, <2>1, <2>2 DEF FindEntry, TableOK
    <2>5. QED
      BY <2>2, <2>3, <2>4 DEF TableOK
  <1>11. ASSUME NEW a \in Replayers, PublishEntry(a) PROVE TableOK'
    BY <1>11 DEF PublishEntry, TableOK, history
  <1>12. ASSUME NEW a \in Replayers, MarkReplayed(a) PROVE TableOK'
    <2>1. entry[a] \in DOMAIN dead
      BY <1>12 DEF MarkReplayed, TableOK
    <2>2. dead' \in Seq(Entries) /\ Len(dead') = Len(dead)
      BY <1>12, <2>1, StatusSet DEF MarkReplayed
    <2>3. UNCHANGED <<effects, timedOut, uncertain, reread, lost, faults>>
      BY <1>12 DEF MarkReplayed, history
    <2>4. /\ entry' \in [Replayers -> Nat] /\ published' \in [Replayers -> BOOLEAN]
          /\ \A b \in Replayers : entry'[b] <= Len(dead') /\ (published'[b] => entry'[b] # 0)
      BY <1>12, <2>2 DEF MarkReplayed, TableOK
    <2>5. QED
      BY <2>2, <2>3, <2>4 DEF TableOK
  <1>13. CASE UNCHANGED vars
    BY <1>13 DEF vars, TableOK, replay, history
  <1>14. QED
    BY <1>1, <1>2, <1>3, <1>4, <1>5, <1>6, <1>7, <1>8, <1>9, <1>10, <1>11, <1>12, <1>13 DEF Next, Deliver

LEMMA QueueInit == Init => MemoryOK /\ SlotsOK /\ TableOK
  <1> SUFFICES ASSUME Init PROVE MemoryOK /\ SlotsOK /\ TableOK
    OBVIOUS
  <1>1. NoCalls \in [Stages -> Nat] /\ \A s \in Stages : NoCalls[s] = 0
    BY DEF NoCalls
  <1>2. calls \in [Messages -> [Stages -> Nat]] /\ \A m \in Messages : calls[m] = NoCalls
    BY <1>1 DEF Init
  <1>3. attempts \in [Messages -> 0..MaxAttempts]
    <2>1. 0 \in 0..MaxAttempts
      OBVIOUS
    <2>2. QED
      BY <2>1 DEF Init
  <1>4. copies \in [Payloads -> Nat] /\ \A p \in Payloads : copies[p] <= MaxMessages
    BY DEF Init
  <1>5. MemoryOK
    BY <1>1, <1>2, <1>3, <1>4 DEF Init, MemoryOK
  <1>6. SlotsOK
    <2>1. InSlot = SlotsOf(calls)
      BY DEF InSlot, SlotsOf, Slotted
    <2>2. SlotsOf(calls) = {}
      <3> SUFFICES ASSUME NEW x \in SlotsOf(calls) PROVE FALSE
        OBVIOUS
      <3>1. PICK n \in Messages, s \in Slotted, k \in Nat : 1 <= k /\ k <= calls[n][s]
        BY <1>2, SlotsAre
      <3>2. calls[n][s] = 0
        BY <1>1, <1>2 DEF Slotted
      <3>3. QED
        BY <3>1, <3>2
    <2>3. QED
      BY <2>1, <2>2, FS_EmptySet DEF SlotsOK, Active
  <1>7. TableOK
    <2>1. dead \in Seq(Entries) /\ Len(dead) = 0
      BY DEF Init
    <2>2. /\ entry \in [Replayers -> Nat] /\ published \in [Replayers -> BOOLEAN]
          /\ effects \in [Payloads -> Nat]
          /\ \A a \in Replayers : entry[a] <= 0 /\ ~ published[a]
      BY DEF Init
    <2>3. timedOut = {} /\ uncertain = {} /\ reread = {} /\ lost = {} /\ faults = 0
      BY DEF Init
    <2>4. QED
      BY <2>1, <2>2, <2>3 DEF TableOK
  <1>8. QED
    BY <1>5, <1>6, <1>7

LEMMA Types == MemoryOK /\ SlotsOK /\ TableOK => TypeOK
  <1> SUFFICES ASSUME MemoryOK, SlotsOK, TableOK PROVE TypeOK
    OBVIOUS
  <1>1. copies \in [Payloads -> 0..MaxMessages]
    BY DEF MemoryOK
  <1>2. entry \in [Replayers -> 0..Len(dead)]
    BY DEF TableOK
  <1>3. \A k \in DOMAIN dead : dead[k] \in [payload : Payloads,
                                          status : {"pending", "replayed", "expired"}]
    BY EntryOf DEF Entries
  <1>4. \A s \in {timedOut, uncertain, reread, lost} : s \subseteq Payloads
    BY DEF TableOK
  <1>5. QED
    BY <1>1, <1>2, <1>3, <1>4 DEF TypeOK, MemoryOK, SlotsOK, TableOK

QueueInv == MemoryOK /\ SlotsOK /\ TableOK

LEMMA QueueNext == QueueInv /\ [Next]_vars => QueueInv'
  BY MemoryNext, TableNext DEF QueueInv

\* queue-worker.ts and its queue: every variable has its type, a message is in
\* one place at a time, and however calls wait, fail or are timed out, no more
\* of them than the concurrency allows have a slot.
THEOREM TypeCorrect == Spec => []TypeOK
  <1>1. Init => QueueInv
    BY QueueInit DEF QueueInv
  <1>2. QueueInv => TypeOK
    BY Types DEF QueueInv
  <1>3. QED
    BY <1>1, <1>2, QueueNext, PTL DEF Spec

------------------------------------------------------------------------------
(* Nothing is lost.                                                        *)

\* A step that leaves the table and its replays alone, and takes a message out
\* of the memory only when its payload was handled.
LEMMA MemoryKept ==
    ASSUME QueueInv, LostInv, UNCHANGED <<copies, dead, entry, published>>,
           \A p \in Payloads : effects'[p] \in Nat /\ effects[p] <= effects'[p],
           lost \subseteq lost',
           \A m \in queue \cup inflight : m \in queue' \cup inflight' \/ effects'[m[1]] > 0
    PROVE  \A p \in Payloads : copies'[p] > 0 => Kept(p)'
  <1> SUFFICES ASSUME NEW p \in Payloads, copies'[p] > 0 PROVE Kept(p)'
    OBVIOUS
  <1>1. Kept(p) /\ effects[p] \in Nat
    BY DEF LostInv, QueueInv, TableOK
  <1>2. effects[p] > 0 => effects'[p] > 0
    BY <1>1
  <1>3. InMemory(p) => InMemory(p)' \/ effects'[p] > 0
    BY DEF InMemory
  <1>4. \A k \in DOMAIN dead : Keeps(k, p) => Keeps(k, p)'
    BY DEF Keeps
  <1>5. DOMAIN dead' = DOMAIN dead
    OBVIOUS
  <1>6. QED
    BY <1>1, <1>2, <1>3, <1>4, <1>5 DEF Kept

\* A call that moves to a stage other than handled.
LEMMA HandledStays ==
    ASSUME QueueInv, LostInv, NEW m \in Messages, NEW from \in Stages \cup {"none"},
           NEW to \in Stages \cup {"none"}, from # to, from # "none" => At(m, from), Move(m, from, to),
           to = "handled" => effects'[m[1]] > 0,
           \A p \in Payloads : effects'[p] \in Nat /\ effects[p] <= effects'[p]
    PROVE  \A n \in Messages : At(n, "handled")' => effects'[n[1]] > 0
  <1>1. /\ calls \in [Messages -> [Stages -> Nat]]
        /\ \A n \in Messages \ {m} : calls'[n] = calls[n]
        /\ \A s \in Stages : /\ s = to => calls'[m][s] = calls[m][s] + 1
                             /\ s = from => calls'[m][s] = calls[m][s] - 1
                             /\ s # to /\ s # from => calls'[m][s] = calls[m][s]
    BY Moves DEF QueueInv, MemoryOK
  <1>2. ASSUME NEW n \in Messages, At(n, "handled"), n[1] \in Payloads PROVE effects'[n[1]] > 0
    <2>1. effects[n[1]] > 0 /\ effects[n[1]] \in Nat
      BY <1>2 DEF LostInv, QueueInv, TableOK
    <2>2. QED
      BY <1>2, <2>1
  <1>3. ASSUME NEW n \in Messages, At(n, "handled")' PROVE effects'[n[1]] > 0
    <2>1. n[1] \in Payloads /\ "handled" \in Stages
      BY DEF Messages, Stages
    <2>2. CASE to = "handled" /\ n = m
      BY <2>2
    <2>3. CASE ~ (to = "handled" /\ n = m)
      <3>1. calls[n]["handled"] \in Nat
        BY <1>1, <2>1
      <3>2. At(n, "handled")
        BY <1>1, <1>3, <2>1, <2>3, <3>1 DEF At
      <3>3. QED
        BY <1>2, <2>1, <3>2
    <2>4. QED
      BY <2>2, <2>3
  <1>4. QED
    BY <1>3

\* An ack takes its own message away, a nack none.
LEMMA AckLeaves ==
    ASSUME NEW m \in Messages
    PROVE  /\ Ack(m) => \A n \in queue \cup inflight : n = m \/ n \in queue' \cup inflight'
           /\ Nack(m) => \A n \in queue \cup inflight : n \in queue' \cup inflight'
  BY DEF Ack, Nack

\* A message that comes into the memory.
LEMMA PublishKeeps ==
    ASSUME QueueInv, LostInv, NEW p \in Payloads, Publish(p),
           UNCHANGED <<inflight, calls, dead, entry, effects, lost>>,
           \A a \in Replayers : published'[a] => published[a] \/ (entry[a] \in DOMAIN dead /\ dead[entry[a]].payload = p)
    PROVE  LostInv'
  <1>1. PICK m : m = <<p, copies[p] + 1>>
    OBVIOUS
  <1>2. m[1] = p /\ queue' = queue \cup {m} /\ \A q \in Payloads \ {p} : copies'[q] = copies[q]
    BY <1>1, PublishDraws DEF QueueInv
  <1>3. ASSUME NEW q \in Payloads, copies'[q] > 0 PROVE Kept(q)'
    <2>1. CASE q = p
      BY <1>2, <2>1 DEF Kept, InMemory
    <2>2. CASE q # p
      <3>1. Kept(q)
        BY <1>2, <1>3, <2>2 DEF LostInv
      <3>2. InMemory(q) => InMemory(q)'
        BY <1>2 DEF InMemory
      <3>3. \A k \in DOMAIN dead : Keeps(k, q) => Keeps(k, q)'
        BY <2>2 DEF Keeps
      <3>4. QED
        BY <3>1, <3>2, <3>3 DEF Kept
    <2>3. QED
      BY <2>1, <2>2
  <1>4. \A n \in Messages : At(n, "handled")' => effects'[n[1]] > 0
    BY DEF LostInv, At
  <1>5. QED
    BY <1>3, <1>4 DEF LostInv

\* A row that comes into the table, and a message that may leave the memory.
LEMMA InsertKeeps ==
    ASSUME QueueInv, LostInv, NEW m \in Messages, Insert(m),
           UNCHANGED <<copies, entry, published, effects, lost>>,
           \A n \in queue \cup inflight : n = m \/ n \in queue' \cup inflight'
    PROVE  \A p \in Payloads : copies'[p] > 0 => Kept(p)'
  <1>0. PICK last : last = Len(dead) + 1
    OBVIOUS
  <1>1. /\ Len(dead) \in Nat /\ DOMAIN dead = 1..Len(dead) /\ DOMAIN dead' = 1..last
        /\ \A k \in DOMAIN dead : dead'[k] = dead[k]
        /\ dead'[last].payload = m[1] /\ dead'[last].status = "pending"
    BY <1>0, Inserted DEF QueueInv
  <1>2. ASSUME NEW p \in Payloads, copies'[p] > 0 PROVE Kept(p)'
    <2>1. CASE p = m[1]
      <3>1. \A a \in Replayers : entry'[a] # last
        BY <1>0, <1>1 DEF QueueInv, TableOK
      <3>2. last \in DOMAIN dead'
        BY <1>0, <1>1
      <3>3. Keeps(last, p)'
        BY <1>1, <2>1, <3>1 DEF Keeps
      <3>4. QED
        BY <3>2, <3>3 DEF Kept
    <2>2. CASE p # m[1]
      <3>1. Kept(p)
        BY <1>2 DEF LostInv
      <3>2. InMemory(p) => InMemory(p)'
        BY <2>2 DEF InMemory
      <3>3. \A k \in DOMAIN dead : k \in DOMAIN dead' /\ (Keeps(k, p) => Keeps(k, p)')
        BY <1>0, <1>1 DEF Keeps
      <3>4. QED
        BY <3>1, <3>2, <3>3 DEF Kept
    <2>3. QED
      BY <2>1, <2>2
  <1>3. QED
    BY <1>2

LEMMA LostNext ==
    ASSUME QueueInv, LostInv, [Next]_vars
    PROVE  LostInv'
  <1>1. ASSUME NEW p \in Payloads, PublishFirst(p) PROVE LostInv'
    BY <1>1, PublishKeeps DEF PublishFirst, replay, history
  <1>2. ASSUME NEW a \in Replayers, PublishEntry(a) PROVE LostInv'
    <2>1. entry[a] \in DOMAIN dead
      BY <1>2 DEF PublishEntry, QueueInv, TableOK
    <2>2. PICK p \in Payloads : p = dead[entry[a]].payload
      BY <2>1, EntryOf DEF QueueInv
    <2>3. Publish(p) /\ UNCHANGED <<inflight, calls, dead, entry, effects, lost>>
      BY <1>2, <2>2 DEF PublishEntry, history
    <2>4. \A b \in Replayers : published'[b] => published[b] \/ (entry[b] \in DOMAIN dead /\ dead[entry[b]].payload = p)
      BY <1>2, <2>1, <2>2 DEF PublishEntry, QueueInv, TableOK
    <2>5. QED
      BY <2>3, <2>4, PublishKeeps
  <1>3. ASSUME UNCHANGED <<copies, dead, entry, published, effects>>, lost \subseteq lost',
               \A n \in queue \cup inflight : n \in queue' \cup inflight' \/ effects[n[1]] > 0
        PROVE  \A p \in Payloads : copies'[p] > 0 => Kept(p)'
    BY <1>3, MemoryKept DEF QueueInv, TableOK
  <1>4. UNCHANGED effects => \A p \in Payloads : effects'[p] \in Nat /\ effects[p] <= effects'[p]
    BY DEF QueueInv, TableOK
  <1>5. {"waiting", "handling", "handled", "sending"} \subseteq Stages /\ "none" \notin Stages
    BY DEF Stages
  <1>6. ASSUME NEW m \in Messages, Dispatch(m) PROVE LostInv'
    <2>1. \A n \in queue \cup inflight : n \in queue' \cup inflight'
      BY <1>6 DEF Dispatch
    <2>2. UNCHANGED <<copies, dead, entry, published, effects, lost>>
      BY <1>6 DEF Dispatch, replay, history
    <2>3. \A n \in Messages : At(n, "handled")' => effects'[n[1]] > 0
      <3>1. CASE running
        BY <1>4, <1>5, <1>6, <2>2, <3>1, HandledStays DEF Dispatch
      <3>2. CASE ~ running
        BY <1>6, <2>2, <3>2 DEF Dispatch, LostInv, At
      <3>3. QED
        BY <3>1, <3>2
    <2>4. QED
      BY <1>3, <2>1, <2>2, <2>3 DEF LostInv
  <1>7. ASSUME NEW m \in Messages, AcquireSlot(m) PROVE LostInv'
    <2>1. UNCHANGED <<copies, queue, inflight, dead, entry, published, effects, lost>>
      BY <1>7 DEF AcquireSlot, replay, history
    <2>2. \A n \in Messages : At(n, "handled")' => effects'[n[1]] > 0
      BY <1>4, <1>5, <1>7, <2>1, HandledStays DEF AcquireSlot
    <2>3. QED
      BY <1>3, <2>1, <2>2 DEF LostInv
  <1>8. ASSUME NEW m \in Messages, Handle(m) PROVE LostInv'
    <2>1. UNCHANGED <<copies, queue, inflight, dead, entry, published, lost>>
      BY <1>8 DEF Handle, replay, history
    <2>2. m[1] \in Payloads
      BY DEF Messages
    <2>3. /\ \A p \in Payloads : effects'[p] \in Nat /\ effects[p] <= effects'[p]
          /\ effects'[m[1]] > 0
      BY <1>8, <2>2 DEF Handle, QueueInv, TableOK
    <2>4. \A n \in Messages : At(n, "handled")' => effects'[n[1]] > 0
      BY <1>5, <1>8, <2>3, HandledStays DEF Handle
    <2>5. \A p \in Payloads : copies'[p] > 0 => Kept(p)'
      BY <2>1, <2>3, MemoryKept
    <2>6. QED
      BY <2>4, <2>5 DEF LostInv
  <1>9. ASSUME NEW m \in Messages, Succeed(m) PROVE LostInv'
    <2>1. UNCHANGED <<copies, dead, entry, published, effects, lost>>
      BY <1>9 DEF Succeed, replay, history
    <2>2. effects[m[1]] > 0
      BY <1>9 DEF Succeed, LostInv
    <2>3. \A n \in queue \cup inflight : n \in queue' \cup inflight' \/ effects[n[1]] > 0
      BY <1>9, <2>2, AckLeaves DEF Succeed
    <2>4. \A n \in Messages : At(n, "handled")' => effects'[n[1]] > 0
      BY <1>4, <1>5, <1>9, <2>1, HandledStays DEF Succeed
    <2>5. QED
      BY <1>3, <2>1, <2>3, <2>4 DEF LostInv
  <1>10. ASSUME NEW m \in Messages, Fail(m) PROVE LostInv'
    <2>1. UNCHANGED <<copies, dead, entry, published, effects, lost>>
      BY <1>10 DEF Fail, replay, history
    <2>2. \A n \in queue \cup inflight : n \in queue' \cup inflight'
      BY <1>10, AckLeaves DEF Fail
    <2>3. Move(m, "handling", "sending") \/ Move(m, "handling", "none")
      BY <1>10 DEF Fail
    <2>4. \A n \in Messages : At(n, "handled")' => effects'[n[1]] > 0
      BY <1>4, <1>5, <1>10, <2>1, <2>3, HandledStays DEF Fail
    <2>5. QED
      BY <1>3, <2>1, <2>2, <2>4 DEF LostInv
  <1>11. ASSUME NEW m \in Messages, Sent(m) PROVE LostInv'
    <2>1. UNCHANGED <<copies, entry, published, effects, lost>>
      BY <1>11 DEF Sent, replay, history
    <2>2. \A p \in Payloads : copies'[p] > 0 => Kept(p)'
      BY <1>11, <2>1, InsertKeeps, AckLeaves DEF Sent
    <2>3. \A n \in Messages : At(n, "handled")' => effects'[n[1]] > 0
      BY <1>4, <1>5, <1>11, <2>1, HandledStays DEF Sent
    <2>4. QED
      BY <2>2, <2>3 DEF LostInv
  <1>12. ASSUME NEW m \in Messages, SendFails(m) PROVE LostInv'
    <2>1. UNCHANGED <<copies, entry, published, effects, lost>>
      BY <1>12 DEF SendFails, replay
    <2>2. \A n \in queue \cup inflight : n \in queue' \cup inflight'
      BY <1>12, AckLeaves DEF SendFails
    <2>3. \A p \in Payloads : copies'[p] > 0 => Kept(p)'
      <3>1. CASE Insert(m)
        BY <2>1, <2>2, <3>1, InsertKeeps
      <3>2. CASE UNCHANGED dead
        BY <1>3, <2>1, <2>2, <3>2
      <3>3. QED
        BY <1>12, <3>1, <3>2 DEF SendFails
    <2>4. \A n \in Messages : At(n, "handled")' => effects'[n[1]] > 0
      BY <1>4, <1>5, <1>12, <2>1, HandledStays DEF SendFails
    <2>5. QED
      BY <2>3, <2>4 DEF LostInv
  <1>13. CASE (\E m \in Messages : VisibilityTimeout(m)) \/ StopWorker \/ StartWorker \/ UNCHANGED vars
    <2>1. UNCHANGED <<copies, calls, dead, entry, published, effects, lost>>
      BY <1>13 DEF VisibilityTimeout, StopWorker, StartWorker, vars, memory, replay, history
    <2>2. \A n \in queue \cup inflight : n \in queue' \cup inflight'
      BY <1>13 DEF VisibilityTimeout, StopWorker, StartWorker, vars, memory
    <2>3. \A n \in Messages : At(n, "handled")' => effects'[n[1]] > 0
      BY <2>1 DEF LostInv, At
    <2>4. QED
      BY <1>3, <2>1, <2>2, <2>3 DEF LostInv
  <1>14. CASE Crash
    <2>1. /\ UNCHANGED <<copies, dead, effects>> /\ lost \subseteq lost'
          /\ \A n \in queue \cup inflight : n[1] \in lost'
          /\ calls' = [n \in Messages |-> NoCalls] /\ \A a \in Replayers : ~ published'[a]
      BY <1>14 DEF Crash
    <2>2. ASSUME NEW p \in Payloads, copies'[p] > 0 PROVE Kept(p)'
      <3>1. Kept(p)
        BY <2>1, <2>2 DEF LostInv
      <3>2. InMemory(p) => p \in lost'
        BY <2>1 DEF InMemory
      <3>3. \A k \in DOMAIN dead : Keeps(k, p) => Keeps(k, p)'
        BY <2>1 DEF Keeps
      <3>4. QED
        BY <2>1, <3>1, <3>2, <3>3 DEF Kept
    <2>3. \A n \in Messages : ~ At(n, "handled")'
      BY <1>5, <2>1 DEF At, NoCalls
    <2>4. QED
      BY <2>2, <2>3 DEF LostInv
  <1>15. ASSUME NEW k \in DOMAIN dead, ExpireEntry(k) PROVE LostInv'
    <2>1. /\ DOMAIN dead' = DOMAIN dead /\ \A j \in DOMAIN dead : j # k => dead'[j] = dead[j]
          /\ dead'[k].payload = dead[k].payload /\ dead'[k].status = "expired"
      BY <1>15, StatusSet DEF ExpireEntry, QueueInv
    <2>2. UNCHANGED <<copies, queue, inflight, calls, entry, published, effects, lost>>
      BY <1>15 DEF ExpireEntry, memory, replay, history
    <2>3. ASSUME NEW p \in Payloads, copies'[p] > 0 PROVE Kept(p)'
      <3>1. Kept(p)
        BY <2>2, <2>3 DEF LostInv
      <3>2. InMemory(p) => InMemory(p)'
        BY <2>2 DEF InMemory
      <3>3. \A j \in DOMAIN dead : Keeps(j, p) => Keeps(j, p)'
        BY <2>1, <2>2 DEF Keeps
      <3>4. QED
        BY <2>1, <2>2, <3>1, <3>2, <3>3 DEF Kept
    <2>4. \A n \in Messages : At(n, "handled")' => effects'[n[1]] > 0
      BY <2>2 DEF LostInv, At
    <2>5. QED
      BY <2>3, <2>4 DEF LostInv
  <1>16. ASSUME NEW k \in DOMAIN dead, NEW a \in Replayers, FindEntry(a, k) PROVE LostInv'
    <2>1. UNCHANGED <<copies, queue, inflight, calls, dead, published, effects, lost>>
      BY <1>16 DEF FindEntry, memory
    <2>2. ~ published[a] /\ \A b \in Replayers : b # a => entry'[b] = entry[b]
      BY <1>16 DEF FindEntry, QueueInv, TableOK
    <2>3. ASSUME NEW p \in Payloads, copies'[p] > 0 PROVE Kept(p)'
      <3>1. Kept(p)
        BY <2>1, <2>3 DEF LostInv
      <3>2. InMemory(p) => InMemory(p)'
        BY <2>1 DEF InMemory
      <3>3. \A j \in DOMAIN dead : Keeps(j, p) => Keeps(j, p)'
        BY <2>1, <2>2 DEF Keeps
      <3>4. QED
        BY <2>1, <3>1, <3>2, <3>3 DEF Kept
    <2>4. \A n \in Messages : At(n, "handled")' => effects'[n[1]] > 0
      BY <2>1 DEF LostInv, At
    <2>5. QED
      BY <2>3, <2>4 DEF LostInv
  <1>17. ASSUME NEW a \in Replayers, MarkReplayed(a) PROVE LostInv'
    <2>1. entry[a] \in DOMAIN dead /\ published[a]
      BY <1>17 DEF MarkReplayed, QueueInv, TableOK
    <2>2. /\ DOMAIN dead' = DOMAIN dead /\ \A j \in DOMAIN dead : j # entry[a] => dead'[j] = dead[j]
      BY <1>17, <2>1, StatusSet DEF MarkReplayed, QueueInv
    <2>3. UNCHANGED <<copies, queue, inflight, calls, effects, lost>>
      BY <1>17 DEF MarkReplayed, memory, history
    <2>4. \A b \in Replayers : /\ published'[b] => published[b] /\ entry'[b] = entry[b]
      BY <1>17 DEF MarkReplayed, QueueInv, TableOK
    <2>5. ASSUME NEW p \in Payloads, copies'[p] > 0 PROVE Kept(p)'
      <3>1. Kept(p)
        BY <2>3, <2>5 DEF LostInv
      <3>2. InMemory(p) => InMemory(p)'
        BY <2>3 DEF InMemory
      <3>3. \A j \in DOMAIN dead : Keeps(j, p) => Keeps(j, p)'
        BY <2>1, <2>2, <2>4 DEF Keeps
      <3>4. QED
        BY <2>2, <2>3, <3>1, <3>2, <3>3 DEF Kept
    <2>6. \A n \in Messages : At(n, "handled")' => effects'[n[1]] > 0
      BY <2>3 DEF LostInv, At
    <2>7. QED
      BY <2>5, <2>6 DEF LostInv
  <1>18. QED
    BY <1>1, <1>2, <1>6, <1>7, <1>8, <1>9, <1>10, <1>11, <1>12, <1>13, <1>14, <1>15, <1>16, <1>17
       DEF Next, Deliver

LEMMA LostInit == Init => LostInv
  BY DEF Init, LostInv, At, NoCalls, Stages

LEMMA LostHolds == Spec => [](QueueInv /\ LostInv)
  <1>1. Init => QueueInv /\ LostInv
    BY QueueInit, LostInit DEF QueueInv
  <1>2. QueueInv /\ LostInv /\ [Next]_vars => (QueueInv /\ LostInv)'
    BY QueueNext, LostNext
  <1>3. QED
    BY <1>1, <1>2, PTL DEF Spec

\* in-memory-queue.ts, queue-worker.ts and dead-letter-queue.ts: a payload that
\* was published has been handled, or is in the memory, or is in the table and
\* not replayed, unless a crash took it: no failed send, timeout, late answer or
\* replay loses it, for any number of workers' calls and replayers.
THEOREM NothingIsLost == Spec => []NeverLost
  <1>1. LostInv => NeverLost
    BY DEF LostInv, NeverLost, Kept, Keeps, InTable
  <1>2. QED
    BY <1>1, LostHolds, PTL

------------------------------------------------------------------------------
(* Nothing is handled twice without a cause.                               *)

One(s) == [NoCalls EXCEPT ![s] = 1]

LEMMA OneIs ==
    ASSUME NEW s \in Stages
    PROVE  One(s) \in [Stages -> Nat] /\ \A r \in Stages : One(s)[r] > 0 <=> r = s
  BY DEF One, NoCalls

\* The one call of a message moves.
LEMMA OneMoves ==
    ASSUME calls \in [Messages -> [Stages -> Nat]], NEW m \in Messages, OneCall(m),
           NEW from \in Stages \cup {"none"}, NEW to \in Stages \cup {"none"}, from # to,
           from # "none" => At(m, from), from = "none" => m \notin inflight,
           Move(m, from, to)
    PROVE  /\ \A n \in Messages \ {m} : calls'[n] = calls[n]
           /\ from # "none" => m \in inflight /\ calls[m] = One(from)
           /\ calls'[m] = IF to = "none" THEN NoCalls ELSE One(to)
  <1>1. /\ calls' \in [Messages -> [Stages -> Nat]]
        /\ \A n \in Messages \ {m} : calls'[n] = calls[n]
        /\ \A s \in Stages : /\ s = to => calls'[m][s] = calls[m][s] + 1
                             /\ s = from => calls'[m][s] = calls[m][s] - 1
                             /\ s # to /\ s # from => calls'[m][s] = calls[m][s]
    BY Moves
  <1>2. "none" \notin Stages /\ NoCalls \in [Stages -> Nat] /\ \A s \in Stages : NoCalls[s] = 0
    BY DEF Stages, NoCalls
  <1>3. ASSUME from # "none" PROVE m \in inflight /\ calls[m] = One(from)
    <2>1. from \in Stages /\ calls[m][from] > 0
      BY <1>3 DEF At
    <2>2. calls[m] # NoCalls
      BY <1>2, <2>1
    <2>3. PICK s \in Stages : calls[m] = One(s)
      BY <2>2 DEF OneCall, One
    <2>4. QED
      BY <2>1, <2>2, <2>3, OneIs DEF OneCall
  <1>4. from = "none" => calls[m] = NoCalls
    BY DEF OneCall
  <1>5. \A s \in Stages : calls[m][s] = IF s = from THEN 1 ELSE 0
    BY <1>2, <1>3, <1>4 DEF One, NoCalls
  <1>6. \A s \in Stages : calls'[m][s] = IF s = to THEN 1 ELSE 0
    BY <1>1, <1>5
  <1>7. calls'[m] = [s \in Stages |-> calls'[m][s]]
    BY <1>1
  <1>8. calls'[m] = IF to = "none" THEN NoCalls ELSE One(to)
    BY <1>2, <1>6, <1>7 DEF One, NoCalls
  <1>9. QED
    BY <1>1, <1>3, <1>8

\* A step that opens no place for a payload and closes none that was handled.
LEMMA OneStays ==
    ASSUME NEW p \in Payloads, OnePlace(p), copies'[p] = copies[p], effects'[p] = effects[p],
           \A m \in Messages : m[1] = p => OneCall(m)',
           Live(p)' \subseteq Live(p), Open(p)' \subseteq Open(p),
           \A m \in Live(p)' : At(m, "handled") => At(m, "handled")',
           \A k \in DOMAIN dead' : dead'[k].payload = p =>
               /\ k \in DOMAIN dead /\ dead[k].payload = p
               /\ \A a, b \in AtEntry(k)' : a = b
    PROVE  OnePlace(p)'
  BY DEF OnePlace

\* A message that is published when no place is left.
LEMMA OnePublished ==
    ASSUME QueueInv, NEW p \in Payloads, OnePlace(p), Publish(p),
           Live(p) = {}, Open(p)' = {}, effects[p] = 0, UNCHANGED <<inflight, calls, effects, dead, entry>>
    PROVE  OnePlace(p)'
  <1>1. PICK m : m = <<p, copies[p] + 1>>
    OBVIOUS
  <1>2. /\ m \in Messages /\ m \notin Drawn /\ m[1] = p /\ queue' = queue \cup {m}
        /\ copies'[p] = copies[p] + 1 /\ copies[p] \in Nat
    BY <1>1, PublishDraws DEF QueueInv, MemoryOK
  <1>3. Live(p)' \subseteq {m}
    BY <1>2 DEF Live
  <1>4. \A n \in Messages : n[1] = p => OneCall(n)'
    BY DEF OnePlace, OneCall
  <1>5. \A k \in DOMAIN dead' : dead'[k].payload = p => \A a, b \in AtEntry(k)' : a = b
    BY DEF OnePlace, AtEntry
  <1>6. copies'[p] # 0
    BY <1>2
  <1>7. QED
    BY <1>3, <1>4, <1>5, <1>6 DEF OnePlace

\* A message of another payload that is published.
LEMMA OneOtherPublished ==
    ASSUME QueueInv, NEW p \in Payloads, OnePlace(p), NEW q \in Payloads, q # p, Publish(q),
           UNCHANGED <<inflight, calls, effects>>, Open(p)' \subseteq Open(p),
           \A k \in DOMAIN dead' : dead'[k].payload = p =>
               k \in DOMAIN dead /\ dead[k].payload = p /\ \A a, b \in AtEntry(k)' : a = b
    PROVE  OnePlace(p)'
  <1>1. PICK m : m = <<q, copies[q] + 1>>
    OBVIOUS
  <1>2. m[1] # p /\ queue' = queue \cup {m} /\ copies'[p] = copies[p]
    BY <1>1, PublishDraws DEF QueueInv
  <1>3. Live(p)' = Live(p)
    BY <1>2 DEF Live
  <1>4. \A n \in Messages : n[1] = p => OneCall(n)'
    BY DEF OnePlace, OneCall
  <1>5. \A n \in Live(p)' : At(n, "handled") => At(n, "handled")'
    BY DEF At
  <1>6. QED
    BY <1>2, <1>3, <1>4, <1>5, OneStays

\* A step of one call of the consumer, the table left alone.
LEMMA OneDelivers ==
    ASSUME QueueInv, NEW p \in Payloads, OnePlace(p),
           UNCHANGED <<copies, dead, entry, published, effects>>,
           NEW m \in Messages, m[1] = p => OneCall(m)',
           \A n \in Messages \ {m} : calls'[n] = calls[n] /\ (n \in inflight' <=> n \in inflight),
           queue' \cup inflight' \subseteq queue \cup inflight,
           m[1] = p /\ m \in queue' \cup inflight' => ~ At(m, "handled")
    PROVE  OnePlace(p)'
  <1>1. \A n \in Messages : n[1] = p => OneCall(n)'
    BY DEF OnePlace, OneCall
  <1>2. Live(p)' \subseteq Live(p) /\ Open(p)' = Open(p)
    BY DEF Live, Open, AtEntry
  <1>3. \A n \in Live(p)' : At(n, "handled") => At(n, "handled")'
    <2>1. \A n \in Live(p)' : n \in Messages /\ n[1] = p /\ n \in queue' \cup inflight'
      BY DEF Live, QueueInv, MemoryOK
    <2>2. QED
      BY <2>1 DEF At
  <1>4. \A k \in DOMAIN dead' : dead'[k].payload = p =>
            k \in DOMAIN dead /\ dead[k].payload = p /\ \A a, b \in AtEntry(k)' : a = b
    BY DEF OnePlace, AtEntry
  <1>5. QED
    BY <1>1, <1>2, <1>3, <1>4, OneStays

\* A row of another payload that comes into the table.
LEMMA OneOtherInserted ==
    ASSUME QueueInv, NEW p \in Payloads, OnePlace(p), UNCHANGED <<copies, entry, published, effects>>,
           NEW m \in Messages, m[1] # p, Insert(m),
           \A n \in Messages \ {m} : calls'[n] = calls[n] /\ (n \in inflight' <=> n \in inflight),
           queue' \cup inflight' \subseteq queue \cup inflight
    PROVE  OnePlace(p)'
  <1>0. PICK last : last = Len(dead) + 1
    OBVIOUS
  <1>1. /\ Len(dead) \in Nat /\ DOMAIN dead = 1..Len(dead) /\ DOMAIN dead' = 1..last
        /\ \A k \in DOMAIN dead : dead'[k] = dead[k]
        /\ dead'[last].payload = m[1]
    BY <1>0, Inserted DEF QueueInv
  <1>2. \A k \in DOMAIN dead' : k \in DOMAIN dead \/ k = last
    BY <1>0, <1>1
  <1>3. \A k \in DOMAIN dead' : dead'[k].payload = p =>
            k \in DOMAIN dead /\ dead[k].payload = p /\ dead'[k] = dead[k] /\ AtEntry(k)' = AtEntry(k)
    BY <1>1, <1>2 DEF AtEntry
  <1>4. Open(p)' \subseteq Open(p)
    BY <1>3 DEF Open, AtEntry
  <1>5. \A k \in DOMAIN dead' : dead'[k].payload = p =>
            k \in DOMAIN dead /\ dead[k].payload = p /\ \A a, b \in AtEntry(k)' : a = b
    BY <1>3 DEF OnePlace
  <1>6. \A n \in Messages : n[1] = p => OneCall(n)'
    BY DEF OnePlace, OneCall
  <1>7. Live(p)' \subseteq Live(p) /\ \A n \in Live(p)' : n \in Messages /\ n # m
    BY DEF Live, QueueInv, MemoryOK
  <1>8. \A n \in Live(p)' : At(n, "handled") => At(n, "handled")'
    BY <1>7 DEF At
  <1>9. QED
    BY <1>4, <1>5, <1>6, <1>7, <1>8, OneStays

\* The send of a payload's last call: its place is the new row.
LEMMA OneInserted ==
    ASSUME QueueInv, NEW p \in Payloads, OnePlace(p), UNCHANGED <<copies, entry, published, effects>>,
           NEW m \in Messages, At(m, "sending"), Insert(m), Move(m, "sending", "none"), Ack(m)
    PROVE  OnePlace(p)'
  <1>0. PICK last : last = Len(dead) + 1
    OBVIOUS
  <1>1. /\ Len(dead) \in Nat /\ DOMAIN dead = 1..Len(dead) /\ DOMAIN dead' = 1..last
        /\ \A k \in DOMAIN dead : dead'[k] = dead[k]
        /\ dead'[last].payload = m[1] /\ dead'[last].status = "pending"
    BY <1>0, Inserted DEF QueueInv
  <1>2. /\ \A k \in DOMAIN dead' : k \in DOMAIN dead \/ k = last
        /\ last # 0 /\ last \notin DOMAIN dead
    BY <1>0, <1>1
  <1>3. AtEntry(last)' = {}
    BY <1>0, <1>1 DEF QueueInv, TableOK, AtEntry
  <1>4. \A k \in DOMAIN dead : AtEntry(k)' = AtEntry(k)
    BY DEF AtEntry
  <1>5. \A n \in Messages \ {m} : calls'[n] = calls[n] /\ (n \in inflight' <=> n \in inflight)
    BY Moves DEF Ack, QueueInv, MemoryOK, Stages
  <1>6. queue' = queue /\ inflight' = inflight \ {m}
    BY DEF Ack
  <1>7. \A k \in DOMAIN dead' : dead'[k].payload = p => \A a, b \in AtEntry(k)' : a = b
    BY <1>1, <1>2, <1>3, <1>4 DEF OnePlace
  <1>8. CASE m[1] # p
    BY <1>5, <1>6, <1>8, OneOtherInserted
  <1>9. CASE m[1] = p
    <2>1. /\ m \in inflight /\ calls[m] = One("sending") /\ calls'[m] = NoCalls
      <3>1. OneCall(m)
        BY <1>9 DEF OnePlace
      <3>2. "sending" \in Stages /\ "sending" # "none" /\ calls \in [Messages -> [Stages -> Nat]]
        BY DEF QueueInv, MemoryOK, Stages
      <3>3. QED
        BY <3>1, <3>2, OneMoves
    <2>2. m \in Live(p) /\ ~ At(m, "handled")
      BY <1>9, <2>1, OneIs DEF Live, At, Stages
    <2>3. Open(p) = {} /\ effects[p] = 0 /\ \A n \in Live(p) : n = m
      BY <2>2 DEF OnePlace
    <2>4. Live(p)' = {}
      <3>1. m \notin queue
        BY <2>1 DEF QueueInv, MemoryOK
      <3>2. QED
        BY <1>6, <2>3, <3>1 DEF Live
    <2>5. Open(p)' \subseteq {last}
      <3>1. ASSUME NEW k \in Open(p)', k # last PROVE FALSE
        <4>1. k \in DOMAIN dead
          BY <1>2, <3>1 DEF Open
        <4>2. k \in Open(p)
          BY <1>1, <1>4, <4>1 DEF Open
        <4>3. QED
          BY <2>3, <4>2
      <3>2. QED
        BY <3>1
    <2>6. \A n \in Messages : n[1] = p => OneCall(n)'
      <3>1. OneCall(m)'
        BY <1>6, <2>1 DEF OneCall
      <3>2. QED
        BY <1>5, <3>1 DEF OnePlace, OneCall
    <2>7. copies'[p] # 0
      BY <1>9, <2>1 DEF QueueInv, MemoryOK, Drawn, Messages
    <2>8. QED
      BY <1>7, <2>3, <2>4, <2>5, <2>6, <2>7 DEF OnePlace
  <1>10. QED
    BY <1>8, <1>9

LEMMA OneNext ==
    ASSUME QueueInv, OneInv, [Next]_vars
    PROVE  OneInv'
  <1>1. \A p \in Payloads : Clean(p)' => Clean(p)
    <2>1. timedOut \subseteq timedOut' /\ uncertain \subseteq uncertain' /\ reread \subseteq reread'
      <3>1. CASE UNCHANGED <<timedOut, uncertain, reread>>
        BY <3>1
      <3>2. CASE ~ UNCHANGED <<timedOut, uncertain, reread>>
        <4>1. \/ \E m \in Messages : VisibilityTimeout(m) \/ SendFails(m)
              \/ Crash \/ \E k \in DOMAIN dead, a \in Replayers : FindEntry(a, k)
          BY <3>2 DEF Next, Deliver, PublishFirst, Dispatch, AcquireSlot, Handle, Succeed, Fail, Sent,
             StopWorker, StartWorker, ExpireEntry, PublishEntry, MarkReplayed, vars, history
        <4>2. QED
          BY <4>1 DEF VisibilityTimeout, SendFails, Crash, FindEntry
      <3>3. QED
        BY <3>1, <3>2
    <2>2. QED
      BY <2>1 DEF Clean
  <1> SUFFICES ASSUME NEW p \in Payloads, Clean(p)' PROVE OnePlace(p)'
    BY DEF OneInv
  <1>2. Clean(p) /\ OnePlace(p)
    BY <1>1 DEF OneInv
  <1>3. /\ {"waiting", "handling", "handled", "sending"} \subseteq Stages /\ "none" \notin Stages
        /\ calls \in [Messages -> [Stages -> Nat]]
    BY DEF Stages, QueueInv, MemoryOK
  <1>4. \A m \in Messages : m[1] = p => OneCall(m)
    BY <1>2 DEF OnePlace
  <1>5. ASSUME UNCHANGED <<copies, queue, inflight, calls, effects>>, Open(p)' \subseteq Open(p),
               \A k \in DOMAIN dead' : dead'[k].payload = p =>
                   k \in DOMAIN dead /\ dead[k].payload = p /\ \A a, b \in AtEntry(k)' : a = b
        PROVE  OnePlace(p)'
    <2>1. \A m \in Messages : m[1] = p => OneCall(m)'
      BY <1>4, <1>5 DEF OneCall
    <2>2. Live(p)' = Live(p)
      BY <1>5 DEF Live
    <2>3. \A m \in Live(p)' : At(m, "handled") => At(m, "handled")'
      BY <1>5 DEF At
    <2>4. QED
      BY <1>2, <1>5, <2>1, <2>2, <2>3, OneStays
  <1>6. ASSUME UNCHANGED <<dead, entry, published>>
        PROVE  /\ Open(p)' = Open(p)
               /\ \A k \in DOMAIN dead' : dead'[k].payload = p =>
                      k \in DOMAIN dead /\ dead[k].payload = p /\ \A a, b \in AtEntry(k)' : a = b
    BY <1>2, <1>6 DEF OnePlace, Open, AtEntry
  <1>7. ASSUME NEW q \in Payloads, PublishFirst(q) PROVE OnePlace(p)'
    <2>1. UNCHANGED <<inflight, calls, dead, entry, published, effects>> /\ copies[q] = 0 /\ Publish(q)
      BY <1>7 DEF PublishFirst, replay
    <2>2. CASE q = p
      <3>1. effects[p] = 0 /\ Open(p) = {}
        BY <1>2, <2>1, <2>2 DEF OnePlace, Open
      <3>2. Live(p) = {}
        BY <2>1, <2>2 DEF QueueInv, MemoryOK, Drawn, Live, Messages
      <3>3. QED
        BY <1>2, <1>6, <2>1, <2>2, <3>1, <3>2, OnePublished
    <2>3. CASE q # p
      BY <1>2, <1>6, <2>1, <2>3, OneOtherPublished
    <2>4. QED
      BY <2>2, <2>3
  <1>8. ASSUME NEW a \in Replayers, PublishEntry(a) PROVE OnePlace(p)'
    <2>1. entry[a] \in DOMAIN dead
      BY <1>8 DEF PublishEntry, QueueInv, TableOK
    <2>2. PICK k \in DOMAIN dead : k = entry[a]
      BY <2>1
    <2>3. PICK q \in Payloads : q = dead[k].payload
      BY <2>2, EntryOf DEF QueueInv
    <2>4. /\ UNCHANGED <<inflight, calls, dead, entry, effects>> /\ Publish(q) /\ ~ published[a]
          /\ published'[a] /\ \A b \in Replayers \ {a} : published'[b] = published[b]
      BY <1>8, <2>2, <2>3 DEF PublishEntry, QueueInv, TableOK
    <2>5. \A j \in DOMAIN dead : AtEntry(j)' = AtEntry(j)
      BY <2>4 DEF AtEntry
    <2>6. \A j \in DOMAIN dead' : dead'[j].payload = p =>
              j \in DOMAIN dead /\ dead[j].payload = p /\ \A b, c \in AtEntry(j)' : b = c
      BY <1>2, <2>4, <2>5 DEF OnePlace
    <2>7. Open(p)' \subseteq Open(p) \ {k}
      <3>1. ASSUME NEW j \in Open(p)' PROVE j \in Open(p) /\ j # k
        <4>1. /\ j \in DOMAIN dead /\ dead[j].payload = p
              /\ dead[j].status = "pending" \/ AtEntry(j) # {}
              /\ \A b \in AtEntry(j) : ~ published'[b]
          BY <2>4, <2>5 DEF Open
        <4>2. a \notin AtEntry(j)
          BY <2>4, <4>1
        <4>3. j # k
          BY <2>2, <4>2 DEF AtEntry
        <4>4. \A b \in AtEntry(j) : ~ published[b]
          BY <2>4, <4>1 DEF AtEntry
        <4>5. QED
          BY <4>1, <4>3, <4>4 DEF Open
      <3>2. QED
        BY <3>1
    <2>8. CASE q = p
      <3>1. k \in Open(p)
        <4>1. a \in AtEntry(k)
          BY <2>2 DEF AtEntry
        <4>2. \A b \in AtEntry(k) : b = a
          BY <1>2, <2>3, <2>8, <4>1 DEF OnePlace
        <4>3. QED
          BY <2>3, <2>4, <2>8, <4>1, <4>2 DEF Open
      <3>2. Open(p) = {k} /\ Live(p) = {} /\ effects[p] = 0
        BY <1>2, <3>1 DEF OnePlace
      <3>3. Open(p)' = {}
        BY <2>7, <3>2
      <3>4. QED
        BY <1>2, <2>4, <2>8, <3>2, <3>3, OnePublished
    <2>9. CASE q # p
      BY <1>2, <2>4, <2>6, <2>7, <2>9, OneOtherPublished
    <2>10. QED
      BY <2>8, <2>9
  <1>9. ASSUME NEW m \in Messages, Dispatch(m) PROVE OnePlace(p)'
    <2>1. UNCHANGED <<copies, dead, entry, published, effects>> /\ m \in queue
      BY <1>9 DEF Dispatch, replay
    <2>2. CASE running
      <3>1. /\ queue' = queue \ {m} /\ inflight' = inflight \cup {m} /\ Move(m, "none", "waiting")
            /\ m \notin inflight
        BY <1>9, <2>2 DEF Dispatch, QueueInv, MemoryOK
      <3>2. \A n \in Messages \ {m} : calls'[n] = calls[n] /\ (n \in inflight' <=> n \in inflight)
        BY <1>3, <3>1, Moves
      <3>3. m[1] = p => OneCall(m)'
        <4>1. m[1] = p => calls'[m] = One("waiting")
          BY <1>3, <1>4, <3>1, OneMoves
        <4>2. QED
          BY <1>3, <3>1, <4>1 DEF OneCall, One
      <3>4. m[1] = p => ~ At(m, "handled")
        BY <1>3, <1>4, <3>1 DEF OneCall, At, NoCalls
      <3>5. QED
        BY <1>2, <2>1, <3>1, <3>2, <3>3, <3>4, OneDelivers
    <2>3. CASE ~ running
      BY <1>5, <1>6, <1>9, <2>1, <2>3 DEF Dispatch
    <2>4. QED
      BY <2>2, <2>3
  <1>10. ASSUME NEW m \in Messages, NEW from \in {"handling", "handled", "sending"},
                NEW to \in {"none", "sending"}, to # from, At(m, from), Move(m, from, to),
                UNCHANGED <<copies, dead, entry, published, effects>>,
                \/ to # "none" /\ from # "handled" /\ UNCHANGED <<queue, inflight>>
                \/ to = "none" /\ Ack(m)
                \/ to = "none" /\ Nack(m) /\ from # "handled"
         PROVE  OnePlace(p)'
    <2>1. /\ \A n \in Messages \ {m} : calls'[n] = calls[n] /\ (n \in inflight' <=> n \in inflight)
          /\ queue' \cup inflight' \subseteq queue \cup inflight
      BY <1>3, <1>10, Moves DEF Ack, Nack
    <2>2. m[1] = p => /\ m \in inflight /\ m \notin queue /\ calls[m] = One(from)
                      /\ calls'[m] = IF to = "none" THEN NoCalls ELSE One(to)
      <3>1. m[1] = p => /\ m \in inflight /\ calls[m] = One(from)
                        /\ calls'[m] = IF to = "none" THEN NoCalls ELSE One(to)
        BY <1>3, <1>4, <1>10, OneMoves
      <3>2. QED
        BY <3>1 DEF QueueInv, MemoryOK
    <2>3. m[1] = p => OneCall(m)'
      BY <1>3, <1>10, <2>2 DEF OneCall, One, Ack, Nack
    <2>4. m[1] = p /\ m \in queue' \cup inflight' => ~ At(m, "handled")
      BY <1>3, <1>10, <2>2, OneIs DEF At, Ack
    <2>5. QED
      BY <1>2, <1>10, <2>1, <2>3, <2>4, OneDelivers
  <1>11. ASSUME NEW m \in Messages, AcquireSlot(m) PROVE OnePlace(p)'
    <2>1. /\ UNCHANGED <<copies, queue, inflight, dead, entry, published, effects>>
          /\ At(m, "waiting") /\ Move(m, "waiting", "handling")
      BY <1>11 DEF AcquireSlot, replay
    <2>2. \A n \in Messages \ {m} : calls'[n] = calls[n]
      BY <1>3, <2>1, Moves
    <2>3. m[1] = p => /\ m \in inflight /\ calls[m] = One("waiting") /\ calls'[m] = One("handling")
      BY <1>3, <1>4, <2>1, OneMoves
    <2>4. m[1] = p => OneCall(m)' /\ ~ At(m, "handled")
      BY <1>3, <2>1, <2>3, OneIs DEF OneCall, One, At
    <2>5. QED
      BY <1>2, <2>1, <2>2, <2>4, OneDelivers
  <1>12. ASSUME NEW m \in Messages, Handle(m) PROVE OnePlace(p)'
    <2>1. /\ UNCHANGED <<copies, queue, inflight, dead, entry, published>>
          /\ At(m, "handling") /\ Move(m, "handling", "handled")
          /\ effects' = [effects EXCEPT ![m[1]] = @ + 1]
      BY <1>12 DEF Handle, replay
    <2>2. \A n \in Messages \ {m} : calls'[n] = calls[n]
      BY <1>3, <2>1, Moves
    <2>3. m[1] = p => /\ m \in inflight /\ calls[m] = One("handling") /\ calls'[m] = One("handled")
      BY <1>3, <1>4, <2>1, OneMoves
    <2>4. m[1] = p => OneCall(m)' /\ ~ At(m, "handled") /\ At(m, "handled")'
      BY <1>3, <2>1, <2>3, OneIs DEF OneCall, One, At
    <2>5. \A n \in Messages : n[1] = p => OneCall(n)'
      BY <1>4, <2>1, <2>2, <2>4 DEF OneCall
    <2>6. Live(p)' = Live(p)
      BY <2>1 DEF Live
    <2>7. CASE m[1] = p
      <3>1. m \in Live(p) /\ ~ At(m, "handled")
        BY <2>3, <2>4, <2>7 DEF Live
      <3>2. effects[p] = 0 /\ Open(p) = {} /\ \A n \in Live(p) : n = m
        BY <1>2, <3>1 DEF OnePlace
      <3>3. effects'[p] = 1
        BY <2>1, <2>7, <3>2 DEF QueueInv, TableOK
      <3>4. copies'[p] # 0
        BY <2>1, <2>3, <2>7 DEF QueueInv, MemoryOK, Drawn, Messages
      <3>5. QED
        BY <1>6, <2>1, <2>4, <2>5, <2>6, <2>7, <3>2, <3>3, <3>4 DEF OnePlace
    <2>8. CASE m[1] # p
      <3>1. effects'[p] = effects[p]
        BY <2>1, <2>8 DEF QueueInv, TableOK
      <3>2. \A n \in Live(p)' : n \in Messages /\ n # m
        BY <2>6, <2>8 DEF Live, QueueInv, MemoryOK
      <3>3. \A n \in Live(p)' : At(n, "handled") => At(n, "handled")'
        BY <2>2, <3>2 DEF At
      <3>4. QED
        BY <1>2, <1>6, <2>1, <2>5, <2>6, <3>1, <3>3, OneStays
    <2>9. QED
      BY <2>7, <2>8
  <1>13. ASSUME NEW m \in Messages, Succeed(m) PROVE OnePlace(p)'
    BY <1>10, <1>13 DEF Succeed, replay
  <1>14. ASSUME NEW m \in Messages, Fail(m) PROVE OnePlace(p)'
    BY <1>10, <1>14 DEF Fail, replay
  <1>15. ASSUME NEW m \in Messages, Sent(m) PROVE OnePlace(p)'
    BY <1>2, <1>15, OneInserted DEF Sent, replay
  <1>16. ASSUME NEW m \in Messages, SendFails(m) PROVE OnePlace(p)'
    <2>1. /\ UNCHANGED <<copies, entry, published, effects>> /\ Nack(m)
          /\ At(m, "sending") /\ Move(m, "sending", "none")
      BY <1>16 DEF SendFails, replay
    <2>2. CASE UNCHANGED dead
      BY <1>10, <2>1, <2>2
    <2>3. CASE Insert(m) /\ uncertain' = uncertain \cup {m[1]}
      <3>1. m[1] # p
        BY <2>3 DEF Clean
      <3>2. /\ \A n \in Messages \ {m} : calls'[n] = calls[n] /\ (n \in inflight' <=> n \in inflight)
            /\ queue' \cup inflight' \subseteq queue \cup inflight
        BY <1>3, <2>1, Moves DEF Nack
      <3>3. QED
        BY <1>2, <2>1, <2>3, <3>1, <3>2, OneOtherInserted
    <2>4. QED
      BY <1>16, <2>2, <2>3 DEF SendFails
  <1>17. ASSUME NEW m \in Messages, VisibilityTimeout(m) PROVE OnePlace(p)'
    <2>1. /\ UNCHANGED <<copies, calls, dead, entry, published, effects>> /\ m[1] # p
          /\ inflight' = inflight \ {m} /\ queue' = queue \cup {m} /\ m \in inflight
      BY <1>17 DEF VisibilityTimeout, replay, Clean
    <2>2. QED
      BY <1>2, <2>1, OneDelivers
  <1>18. CASE StopWorker \/ StartWorker \/ UNCHANGED vars
    <2>1. UNCHANGED <<copies, queue, inflight, calls, effects, dead, entry, published>>
      BY <1>18 DEF StopWorker, StartWorker, vars, memory, replay
    <2>2. QED
      BY <1>5, <1>6, <2>1
  <1>19. CASE Crash
    <2>1. /\ UNCHANGED <<copies, dead, effects>> /\ queue' = {} /\ inflight' = {}
          /\ calls' = [n \in Messages |-> NoCalls]
          /\ entry' = [a \in Replayers |-> 0]
          /\ reread' = reread \cup {dead[entry[a]].payload : a \in {b \in Replayers : published[b]}}
      BY <1>19 DEF Crash
    <2>2. \A m \in Messages : OneCall(m)'
      BY <2>1 DEF OneCall
    <2>3. Live(p)' = {}
      BY <2>1 DEF Live
    <2>4. \A k \in DOMAIN dead : AtEntry(k)' = {}
      BY <2>1 DEF AtEntry, QueueInv, TableOK
    <2>5. \A a \in Replayers : published[a] => dead[entry[a]].payload # p
      BY <2>1 DEF Clean
    <2>6. Open(p)' \subseteq Open(p)
      BY <2>1, <2>4, <2>5 DEF Open, AtEntry
    <2>7. QED
      BY <1>2, <2>1, <2>2, <2>3, <2>4, <2>6, OneStays
  <1>20. ASSUME NEW k \in DOMAIN dead, ExpireEntry(k) PROVE OnePlace(p)'
    <2>1. /\ DOMAIN dead' = DOMAIN dead /\ \A j \in DOMAIN dead : j # k => dead'[j] = dead[j]
          /\ dead'[k].payload = dead[k].payload /\ dead'[k].status = "expired"
      BY <1>20, StatusSet DEF ExpireEntry, QueueInv
    <2>2. UNCHANGED <<copies, queue, inflight, calls, entry, published, effects>>
      BY <1>20 DEF ExpireEntry, memory, replay
    <2>3. \A j \in DOMAIN dead : AtEntry(j)' = AtEntry(j) /\ dead'[j].payload = dead[j].payload
      BY <2>1, <2>2 DEF AtEntry
    <2>4. Open(p)' \subseteq Open(p)
      BY <2>1, <2>2, <2>3 DEF Open
    <2>5. \A j \in DOMAIN dead' : dead'[j].payload = p =>
              j \in DOMAIN dead /\ dead[j].payload = p /\ \A a, b \in AtEntry(j)' : a = b
      BY <1>2, <2>1, <2>3 DEF OnePlace
    <2>6. QED
      BY <1>5, <2>2, <2>4, <2>5
  <1>21. ASSUME NEW k \in DOMAIN dead, NEW a \in Replayers, FindEntry(a, k) PROVE OnePlace(p)'
    <2>1. /\ UNCHANGED <<copies, queue, inflight, calls, dead, published, effects>>
          /\ entry[a] = 0 /\ ~ published[a] /\ entry'[a] = k /\ dead[k].status = "pending"
          /\ \A b \in Replayers \ {a} : entry'[b] = entry[b]
          /\ dead[k].payload = p => AtEntry(k) = {}
      BY <1>21 DEF FindEntry, memory, Replayable, Clean, QueueInv, TableOK
    <2>2. \A j \in DOMAIN dead : j # 0
      BY DEF QueueInv, TableOK
    <2>3. /\ AtEntry(k)' = AtEntry(k) \cup {a}
          /\ \A j \in DOMAIN dead : j # k => AtEntry(j)' = AtEntry(j)
      BY <2>1, <2>2 DEF AtEntry
    <2>4. Open(p)' \subseteq Open(p)
      BY <2>1, <2>3 DEF Open
    <2>5. \A j \in DOMAIN dead' : dead'[j].payload = p =>
              j \in DOMAIN dead /\ dead[j].payload = p /\ \A b, c \in AtEntry(j)' : b = c
      BY <1>2, <2>1, <2>3 DEF OnePlace
    <2>6. QED
      BY <1>5, <2>1, <2>4, <2>5
  <1>22. ASSUME NEW a \in Replayers, MarkReplayed(a) PROVE OnePlace(p)'
    <2>1. entry[a] \in DOMAIN dead /\ published[a]
      BY <1>22 DEF MarkReplayed, QueueInv, TableOK
    <2>2. PICK k \in DOMAIN dead : k = entry[a]
      BY <2>1
    <2>3. /\ DOMAIN dead' = DOMAIN dead /\ \A j \in DOMAIN dead : j # k => dead'[j] = dead[j]
          /\ dead'[k].payload = dead[k].payload /\ dead'[k].status = "replayed"
      BY <1>22, <2>2, StatusSet DEF MarkReplayed, QueueInv
    <2>4. /\ UNCHANGED <<copies, queue, inflight, calls, effects>>
          /\ entry'[a] = 0 /\ ~ published'[a]
          /\ \A b \in Replayers \ {a} : entry'[b] = entry[b] /\ published'[b] = published[b]
      BY <1>22 DEF MarkReplayed, memory, QueueInv, TableOK
    <2>5. \A j \in DOMAIN dead : j # 0
      BY DEF QueueInv, TableOK
    <2>6. \A j \in DOMAIN dead : AtEntry(j)' = AtEntry(j) \ {a}
      BY <2>4, <2>5 DEF AtEntry
    <2>7. \A j \in DOMAIN dead' : dead'[j].payload = p =>
              j \in DOMAIN dead /\ dead[j].payload = p /\ \A b, c \in AtEntry(j)' : b = c
      BY <1>2, <2>3, <2>6 DEF OnePlace
    <2>8. Open(p)' \subseteq Open(p)
      <3>1. ASSUME NEW j \in Open(p)' PROVE j \in Open(p)
        <4>1. CASE j = k
          <5>1. dead[k].payload = p /\ AtEntry(k)' # {}
            BY <2>3, <4>1 DEF Open
          <5>2. PICK b \in AtEntry(k) : b # a
            BY <2>6, <5>1
          <5>3. a \in AtEntry(k)
            BY <2>2 DEF AtEntry
          <5>4. QED
            BY <1>2, <5>1, <5>2, <5>3 DEF OnePlace
        <4>2. CASE j # k
          <5>1. j \in DOMAIN dead /\ a \notin AtEntry(j)
            BY <2>2, <2>3, <4>2 DEF Open, AtEntry
          <5>2. AtEntry(j)' = AtEntry(j) /\ \A b \in AtEntry(j) : published'[b] = published[b]
            BY <2>4, <2>6, <5>1 DEF AtEntry
          <5>3. QED
            BY <2>3, <4>2, <5>1, <5>2 DEF Open
        <4>3. QED
          BY <4>1, <4>2
      <3>2. QED
        BY <3>1
    <2>9. QED
      BY <1>5, <2>4, <2>7, <2>8
  <1>23. QED
    BY <1>7, <1>8, <1>9, <1>11, <1>12, <1>13, <1>14, <1>15, <1>16, <1>17, <1>18, <1>19, <1>20,
       <1>21, <1>22 DEF Next, Deliver

LEMMA OneInit == Init => OneInv
  <1> SUFFICES ASSUME Init, NEW p \in Payloads PROVE OnePlace(p)
    BY DEF OneInv
  <1>1. \A m \in Messages : OneCall(m)
    BY DEF Init, OneCall
  <1>2. Live(p) = {} /\ Open(p) = {} /\ DOMAIN dead = {}
    BY DEF Init, Live, Open
  <1>3. effects[p] = 0
    BY DEF Init
  <1>4. QED
    BY <1>1, <1>2, <1>3 DEF OnePlace

\* in-memory-queue.ts, queue-worker.ts and dead-letter-queue.ts: a payload is
\* handled at most once, and a handled one is not left waiting in the table
\* unless its replayer is about to mark it, except after a visibility timeout,
\* a send of unknown outcome, or an entry's replay that another one overlapped
\* or a crash cut short: the code has no other way to handle one twice.
THEOREM OnceUnlessCaused == Spec => []DuplicatesHaveACause
  <1>1. Init => QueueInv /\ OneInv
    BY QueueInit, OneInit DEF QueueInv
  <1>2. QueueInv /\ OneInv /\ [Next]_vars => (QueueInv /\ OneInv)'
    BY QueueNext, OneNext
  <1>3. QueueInv /\ OneInv => DuplicatesHaveACause
    <2> SUFFICES ASSUME QueueInv, OneInv, NEW p \in Payloads \ (timedOut \cup uncertain \cup reread)
                 PROVE  /\ effects[p] <= 1
                        /\ effects[p] = 1 /\ InTable(p, "pending") =>
                              \E a \in Replayers : published[a] /\ dead[entry[a]].payload = p
      BY DEF DuplicatesHaveACause
    <2>1. OnePlace(p)
      BY DEF OneInv, Clean
    <2>2. ASSUME effects[p] = 1, NEW k \in DOMAIN dead, dead[k].payload = p, dead[k].status = "pending"
          PROVE  \E a \in Replayers : published[a] /\ dead[entry[a]].payload = p
      <3>1. k \notin Open(p)
        BY <2>1, <2>2 DEF OnePlace
      <3>2. PICK a \in AtEntry(k) : published[a]
        BY <2>2, <3>1 DEF Open
      <3>3. QED
        BY <2>2, <3>2 DEF AtEntry
    <2>3. QED
      BY <2>1, <2>2 DEF OnePlace, InTable
  <1>4. QED
    BY <1>1, <1>2, <1>3, PTL DEF Spec
==============================================================================
