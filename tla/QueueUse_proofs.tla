--------------------------- MODULE QueueUse_proofs ---------------------------
(***************************************************************************)
(* Proofs about one queue of the MCP server, for every ring size, every    *)
(* set of bytes and every bound on the length of a write: the indices and  *)
(* slots keep their type, and a ring that is never filled exactly is a     *)
(* first-in first-out store of bytes.                                      *)
(***************************************************************************)
EXTENDS QueueUse, TLAPS

-----------------------------------------------------------------------------
(* Arithmetic of the ring. *)

(* The remainder of a number below two turns.                               *)
LEMMA RemainderOfTwoTurns ==
  ASSUME NEW a \in 0 .. 2 * QUEUE_SIZE - 1
  PROVE  a % QUEUE_SIZE = IF a < QUEUE_SIZE THEN a ELSE a - QUEUE_SIZE
BY QueueSizeAssumption

(* The fields of a queue. *)
LEMMA QueueFields ==
  ASSUME NEW q \in Queues
  PROVE  /\ q.store \in Index /\ q.read \in Index
         /\ q.store \in 0 .. QUEUE_SIZE - 1
         /\ q.read \in 0 .. QUEUE_SIZE - 1
         /\ q.data \in [Index -> BYTE]
BY DEF Queues, Index

(* An index moved by at most one turn.                                      *)
LEMMA AdvanceOneTurn ==
  ASSUME NEW i \in Index, NEW n \in 0 .. QUEUE_SIZE
  PROVE  /\ Advance(i, n) = IF i + n < QUEUE_SIZE THEN i + n
                                                  ELSE i + n - QUEUE_SIZE
         /\ Advance(i, n) \in Index
<1>1. i + n \in 0 .. 2 * QUEUE_SIZE - 1
  BY QueueSizeAssumption DEF Index
<1>2. QED
  BY <1>1, RemainderOfTwoTurns, QueueSizeAssumption DEF Remainder, Advance, Index

(* An index moved on is an index. *)
LEMMA AdvanceInIndex ==
  ASSUME NEW i \in Index, NEW n \in Nat
  PROVE  Advance(i, n) \in Index
BY QueueSizeAssumption DEF Remainder, Advance, Index

(* The offset from one index to another, without %. *)
LEMMA OffsetOneTurn ==
  ASSUME NEW i \in Index, NEW base \in Index
  PROVE  /\ Offset(i, base) = IF i >= base THEN i - base
                                           ELSE QUEUE_SIZE + i - base
         /\ Offset(i, base) \in Index
BY QueueSizeAssumption DEF Offset, Index

(* The distance from one index to another going round the ring, without %.  *)
Distance(from, to) ==
  IF to >= from THEN to - from ELSE QUEUE_SIZE + to - from

(* An index moved n on, as long as it stays within a turn of a base index.  *)
LEMMA DistanceGrows ==
  ASSUME NEW base \in 0 .. QUEUE_SIZE - 1, NEW i \in 0 .. QUEUE_SIZE - 1,
         NEW n \in Nat, Distance(base, i) + n < QUEUE_SIZE
  PROVE  Distance(base, IF i + n < QUEUE_SIZE THEN i + n
                                              ELSE i + n - QUEUE_SIZE)
           = Distance(base, i) + n
<1>1. CASE i >= base
  BY <1>1, QueueSizeAssumption DEF Distance
<1>2. CASE i < base
  BY <1>2, QueueSizeAssumption DEF Distance
<1>3. QED
  BY <1>1, <1>2

(* The n-th slot after the read index, seen from the store index.           *)
LEMMA DistanceFromStore ==
  ASSUME NEW read \in 0 .. QUEUE_SIZE - 1, NEW store \in 0 .. QUEUE_SIZE - 1,
         NEW n \in 0 .. QUEUE_SIZE - 1
  PROVE  Distance(store, IF read + n < QUEUE_SIZE THEN read + n
                                                  ELSE read + n - QUEUE_SIZE)
           = IF n < Distance(read, store)
               THEN QUEUE_SIZE - Distance(read, store) + n
               ELSE n - Distance(read, store)
<1>1. CASE store >= read
  BY <1>1, QueueSizeAssumption DEF Distance
<1>2. CASE store < read
  BY <1>2, QueueSizeAssumption DEF Distance
<1>3. QED
  BY <1>1, <1>2

(* number_bytes_in_queue_to_read is the distance from read to store.        *)
LEMMA NumberToReadIsDistance ==
  ASSUME NEW q \in Queues
  PROVE  /\ NumberToRead(q) = IF q.store >= q.read
                                THEN q.store - q.read
                                ELSE QUEUE_SIZE + q.store - q.read
         /\ NumberToRead(q) \in 0 .. QUEUE_SIZE - 1
<1>1. (QUEUE_SIZE + q.store) - q.read \in 0 .. 2 * QUEUE_SIZE - 1
  BY QueueFields, QueueSizeAssumption
<1>2. QED
  BY <1>1, QueueFields, RemainderOfTwoTurns, QueueSizeAssumption
     DEF NumberToRead

(* The free count and the space check of queue.c against the unread count.  *)
LEMMA FreeSlots ==
  ASSUME NEW q \in Queues, NEW n \in Nat \ {0}
  PROVE  /\ NumberFree(q) = QUEUE_SIZE - NumberToRead(q)
         /\ SpaceAvailable(q, n) <=>
              IF NumberToRead(q) = 0 THEN n < QUEUE_SIZE
                                     ELSE NumberToRead(q) + n <= QUEUE_SIZE
<1>1. (QUEUE_SIZE - q.store) + q.read \in 0 .. 2 * QUEUE_SIZE - 1
  BY QueueFields, QueueSizeAssumption
<1>2. ((QUEUE_SIZE - q.store) + q.read) % QUEUE_SIZE =
        IF NumberToRead(q) = 0 THEN 0 ELSE QUEUE_SIZE - NumberToRead(q)
  BY <1>1, QueueFields, RemainderOfTwoTurns, NumberToReadIsDistance,
     QueueSizeAssumption
<1>3. q.store = q.read <=> NumberToRead(q) = 0
  BY QueueFields, NumberToReadIsDistance, QueueSizeAssumption
<1>4. QED
  BY <1>2, <1>3, NumberToReadIsDistance, QueueSizeAssumption
     DEF NumberFree, SpaceAvailable

-----------------------------------------------------------------------------
(* What reading and writing do to the unread bytes. *)

(* What is peeked are bytes. *)
LEMMA PeekIsSequence ==
  ASSUME NEW q \in Queues, NEW n \in Nat
  PROVE  /\ Peek(q, n) \in Seq(BYTE)
         /\ Len(Peek(q, n)) = n
         /\ \A i \in 1 .. n : Peek(q, n)[i] = q.data[Advance(q.read, i - 1)]
<1>1. ASSUME NEW i \in 1 .. n
      PROVE  ReadAhead(q, i - 1) \in BYTE
  <2>1. Advance(q.read, i - 1) \in Index
    BY AdvanceInIndex, QueueFields DEF Index
  <2>2. QED
    BY <2>1, QueueFields DEF ReadAhead
<1>2. Peek(q, n) \in [1 .. n -> BYTE]
  BY <1>1 DEF Peek
<1>3. QED
  BY <1>2 DEF Peek, ReadAhead

(* What is unread are bytes. *)
LEMMA UnreadIsSequence ==
  ASSUME NEW q \in Queues
  PROVE  /\ Unread(q) \in Seq(BYTE)
         /\ Len(Unread(q)) = NumberToRead(q)
         /\ \A i \in 1 .. NumberToRead(q) :
              Unread(q)[i] = q.data[Advance(q.read, i - 1)]
<1>1. NumberToRead(q) \in Nat
  BY NumberToReadIsDistance
<1>2. QED
  BY <1>1, PeekIsSequence DEF Unread

(* Two sequences with the same length and the same elements.                *)
LEMMA SameSequence ==
  ASSUME NEW s \in Seq(BYTE), NEW t \in Seq(BYTE), Len(s) = Len(t),
         \A i \in 1 .. Len(s) : s[i] = t[i]
  PROVE  s = t
OBVIOUS

(* Reading n bytes takes the first n unread bytes away, in order.           *)
LEMMA ReadTakesPrefix ==
  ASSUME NEW q \in Queues, NEW n \in 0 .. NumberToRead(q)
  PROVE  /\ IncrementRead(q, n) \in Queues
         /\ NumberToRead(IncrementRead(q, n)) = NumberToRead(q) - n
         /\ Unread(q) = Peek(q, n) \o Unread(IncrementRead(q, n))
<1> DEFINE r == IncrementRead(q, n)
           len == NumberToRead(q)
<1>1. /\ len \in 0 .. QUEUE_SIZE - 1 /\ len \in Nat
      /\ n \in 0 .. len /\ n \in Nat
  BY NumberToReadIsDistance, QueueSizeAssumption
<1>2. q.read \in Index /\ Advance(q.read, n) \in Index
  BY <1>1, AdvanceInIndex, QueueFields
<1>3. /\ r.read = Advance(q.read, n)
      /\ r.data = q.data /\ r.store = q.store
      /\ r \in Queues
  BY <1>2 DEF IncrementRead, Queues
<1> HIDE DEF r, len
<1>4. NumberToRead(r) = len - n
  <2>1. r.read = IF q.read + n < QUEUE_SIZE THEN q.read + n
                                            ELSE q.read + n - QUEUE_SIZE
    BY <1>1, <1>2, <1>3, AdvanceOneTurn, QueueSizeAssumption
  <2>2. NumberToRead(r) = IF r.store >= r.read
                            THEN r.store - r.read
                            ELSE QUEUE_SIZE + r.store - r.read
    BY <1>3, NumberToReadIsDistance
  <2>3. len = IF q.store >= q.read THEN q.store - q.read
                                   ELSE QUEUE_SIZE + q.store - q.read
    BY NumberToReadIsDistance DEF len
  <2>4. QED
    BY <1>1, <1>3, <2>1, <2>2, <2>3, QueueFields, QueueSizeAssumption
<1>5. /\ Unread(q) \in Seq(BYTE) /\ Len(Unread(q)) = len
      /\ Unread(r) \in Seq(BYTE) /\ Len(Unread(r)) = len - n
      /\ Peek(q, n) \in Seq(BYTE) /\ Len(Peek(q, n)) = n
  <2>1. n \in Nat
    BY <1>1
  <2>2. QED
    BY <1>3, <1>4, <2>1, UnreadIsSequence, PeekIsSequence DEF len
<1>6. ASSUME NEW i \in 1 .. len
      PROVE  Unread(q)[i] = (Peek(q, n) \o Unread(r))[i]
  <2>1. Unread(q)[i] = q.data[Advance(q.read, i - 1)]
    BY UnreadIsSequence DEF len
  <2>2. CASE i <= n
    <3>1. Peek(q, n)[i] = q.data[Advance(q.read, i - 1)]
      BY <1>1, <2>2, PeekIsSequence
    <3>2. QED
      BY <1>1, <1>5, <2>1, <2>2, <3>1
  <2>3. CASE i > n
    <3>1. i - n \in 1 .. len - n
      BY <1>1, <2>3
    <3>2. (Peek(q, n) \o Unread(r))[i] = Unread(r)[i - n]
      BY <1>1, <1>5, <2>3, <3>1
    <3>3. Unread(r)[i - n] = q.data[Advance(r.read, i - n - 1)]
      BY <1>3, <1>4, <3>1, UnreadIsSequence
    <3>4. Advance(r.read, i - n - 1) = Advance(q.read, i - 1)
      <4>1. i - 1 \in 0 .. QUEUE_SIZE /\ i - n - 1 \in 0 .. QUEUE_SIZE
            /\ n \in 0 .. QUEUE_SIZE
        BY <1>1, <2>3, QueueSizeAssumption
      <4>2. /\ r.read = IF q.read + n < QUEUE_SIZE THEN q.read + n
                                             ELSE q.read + n - QUEUE_SIZE
            /\ Advance(q.read, i - 1) =
                 IF q.read + (i - 1) < QUEUE_SIZE
                   THEN q.read + (i - 1)
                   ELSE q.read + (i - 1) - QUEUE_SIZE
        BY <1>2, <1>3, <4>1, AdvanceOneTurn
      <4>3. r.read \in Index
        BY <1>3, QueueFields
      <4>4. Advance(r.read, i - n - 1) =
              IF r.read + (i - n - 1) < QUEUE_SIZE
                THEN r.read + (i - n - 1)
                ELSE r.read + (i - n - 1) - QUEUE_SIZE
        BY <4>1, <4>3, AdvanceOneTurn
      <4>5. q.read \in 0 .. QUEUE_SIZE - 1
        BY QueueFields
      <4>6. QED
        BY <1>1, <4>1, <4>2, <4>4, <4>5, QueueSizeAssumption
    <3>5. QED
      BY <2>1, <3>2, <3>3, <3>4
  <2>4. i <= n \/ i > n
    BY <1>1
  <2>5. QED
    BY <2>2, <2>3, <2>4, Zenon
<1>7. Unread(q) = Peek(q, n) \o Unread(r)
  <2>1. /\ Peek(q, n) \o Unread(r) \in Seq(BYTE)
        /\ Len(Peek(q, n) \o Unread(r)) = len
    BY <1>1, <1>5
  <2>2. QED
    BY <1>5, <1>6, <2>1, SameSequence
<1>8. QED
  BY <1>3, <1>4, <1>7 DEF r, len

(* A write keeps the slots and the indices in their ranges.                 *)
LEMMA StoreInQueues ==
  ASSUME NEW q \in Queues, NEW s \in Seq(BYTE)
  PROVE  /\ StoreBytes(q, s) \in Queues
         /\ StoreBytes(q, s).read = q.read
         /\ StoreBytes(q, s).store = Advance(q.store, Len(s))
         /\ StoreBytes(q, s).data =
              [i \in Index |-> IF Offset(i, q.store) < Len(s)
                                 THEN s[Offset(i, q.store) + 1]
                                 ELSE q.data[i]]
<1>1. Len(s) \in Nat
  OBVIOUS
<1>2. q.store \in Index /\ Advance(q.store, Len(s)) \in Index
  BY <1>1, AdvanceInIndex, QueueFields
<1>3. [i \in Index |-> IF Offset(i, q.store) < Len(s)
                         THEN s[Offset(i, q.store) + 1]
                         ELSE q.data[i]] \in [Index -> BYTE]
  <2>1. ASSUME NEW i \in Index, Offset(i, q.store) < Len(s)
        PROVE  s[Offset(i, q.store) + 1] \in BYTE
    <3>1. Offset(i, q.store) \in 0 .. QUEUE_SIZE - 1
      BY <1>2, <2>1, OffsetOneTurn DEF Index
    <3>2. Offset(i, q.store) + 1 \in 1 .. Len(s)
      BY <1>1, <2>1, <3>1
    <3>3. QED
      BY <3>2
  <2>2. QED
    BY <2>1, QueueFields
<1>4. QED
  BY <1>2, <1>3 DEF StoreBytes, Queues

(* Writing s where it fits puts s behind the unread bytes, which stay.      *)
LEMMA StoreAppends ==
  ASSUME NEW q \in Queues, NEW s \in Seq(BYTE),
         NumberToRead(q) + Len(s) < QUEUE_SIZE
  PROVE  /\ StoreBytes(q, s) \in Queues
         /\ NumberToRead(StoreBytes(q, s)) = NumberToRead(q) + Len(s)
         /\ Unread(StoreBytes(q, s)) = Unread(q) \o s
<1> DEFINE r == StoreBytes(q, s)
           len == NumberToRead(q)
<1>1. /\ len \in 0 .. QUEUE_SIZE - 1 /\ len \in Nat
      /\ Len(s) \in 0 .. QUEUE_SIZE - 1 /\ Len(s) \in Nat
      /\ len + Len(s) < QUEUE_SIZE
  <2>1. len \in 0 .. QUEUE_SIZE - 1 /\ Len(s) \in Nat
    BY NumberToReadIsDistance
  <2>2. QED
    BY <2>1, QueueSizeAssumption
<1>2. /\ q.read \in Index /\ q.store \in Index
      /\ Advance(q.store, Len(s)) \in Index
  BY <1>1, AdvanceInIndex, QueueFields
<1>3. /\ r.read = q.read
      /\ r.store = Advance(q.store, Len(s))
      /\ r.data = [i \in Index |-> IF Offset(i, q.store) < Len(s)
                                     THEN s[Offset(i, q.store) + 1]
                                     ELSE q.data[i]]
      /\ r \in Queues
  BY StoreInQueues
<1> HIDE DEF r, len
<1>4. NumberToRead(r) = len + Len(s)
  <2>1. r.store = IF q.store + Len(s) < QUEUE_SIZE
                    THEN q.store + Len(s)
                    ELSE q.store + Len(s) - QUEUE_SIZE
    BY <1>1, <1>2, <1>3, AdvanceOneTurn, QueueSizeAssumption
  <2>2. NumberToRead(r) = Distance(q.read, r.store)
    BY <1>3, NumberToReadIsDistance DEF Distance
  <2>3. len = Distance(q.read, q.store)
    BY NumberToReadIsDistance DEF len, Distance
  <2>4. Distance(q.read, r.store) = Distance(q.read, q.store) + Len(s)
    BY <1>1, <2>1, <2>3, DistanceGrows, QueueFields
  <2>5. QED
    BY <2>2, <2>3, <2>4
<1>5. /\ Unread(q) \in Seq(BYTE) /\ Len(Unread(q)) = len
      /\ Unread(r) \in Seq(BYTE) /\ Len(Unread(r)) = len + Len(s)
  BY <1>3, <1>4, UnreadIsSequence DEF len
<1>6. ASSUME NEW i \in 1 .. len + Len(s)
      PROVE  Unread(r)[i] = (Unread(q) \o s)[i]
  <2> DEFINE slot == Advance(q.read, i - 1)
  <2>1. /\ slot = IF q.read + (i - 1) < QUEUE_SIZE
                    THEN q.read + (i - 1)
                    ELSE q.read + (i - 1) - QUEUE_SIZE
        /\ slot \in Index
    <3>1. i - 1 \in 0 .. QUEUE_SIZE
      BY <1>1, QueueSizeAssumption
    <3>2. QED
      BY <1>2, <3>1, AdvanceOneTurn
  <2>2. Unread(r)[i] = r.data[slot]
    BY <1>3, <1>4, UnreadIsSequence
  <2> HIDE DEF slot
  <2>3. Offset(slot, q.store) = IF i - 1 < len THEN QUEUE_SIZE - len + (i - 1)
                                               ELSE (i - 1) - len
    <3>1. Offset(slot, q.store) = Distance(q.store, slot)
      BY <1>2, <2>1, OffsetOneTurn DEF Distance
    <3>2. len = Distance(q.read, q.store)
      BY NumberToReadIsDistance DEF len, Distance
    <3>3. i - 1 \in 0 .. QUEUE_SIZE - 1
      BY <1>1, QueueSizeAssumption
    <3>4. QED
      BY <2>1, <3>1, <3>2, <3>3, DistanceFromStore, QueueFields
  <2>4. CASE i <= len
    <3>1. Unread(q)[i] = q.data[slot]
      BY <1>1, <2>4, UnreadIsSequence DEF len, slot
    <3>2. ~(Offset(slot, q.store) < Len(s))
      BY <1>1, <2>3, <2>4, QueueSizeAssumption
    <3>3. r.data[slot] = q.data[slot]
      BY <1>3, <2>1, <3>2
    <3>4. (Unread(q) \o s)[i] = Unread(q)[i]
      BY <1>1, <1>5, <2>4
    <3>5. QED
      BY <2>2, <3>1, <3>3, <3>4
  <2>5. CASE i > len
    <3>1. /\ Offset(slot, q.store) < Len(s)
          /\ Offset(slot, q.store) + 1 = i - len
          /\ i - len \in 1 .. Len(s)
      BY <1>1, <2>3, <2>5
    <3>2. r.data[slot] = s[i - len]
      BY <1>3, <2>1, <3>1
    <3>3. (Unread(q) \o s)[i] = s[i - len]
      BY <1>1, <1>5, <2>5, <3>1
    <3>4. QED
      BY <2>2, <3>2, <3>3
  <2>6. i <= len \/ i > len
    BY <1>1
  <2>7. QED
    BY <2>4, <2>5, <2>6, Zenon
<1>7. Unread(r) = Unread(q) \o s
  <2>1. /\ Unread(q) \o s \in Seq(BYTE)
        /\ Len(Unread(q) \o s) = len + Len(s)
    BY <1>1, <1>5
  <2>2. QED
    BY <1>5, <1>6, <2>1, SameSequence
<1>8. QED
  BY <1>3, <1>4, <1>7 DEF r, len

-----------------------------------------------------------------------------
(* Type correctness. *)

(* Data are bytes, one at least. *)
LEMMA DataIsSequence == Data \subseteq {s \in Seq(BYTE) : Len(s) > 0}
BY MaxDataAssumption DEF Data

(* The queue of init_queue is a queue. *)
LEMMA InitQueueInQueues == InitQueue \in Queues
BY QueueSizeAssumption, ByteAssumption DEF InitQueue, Queues, Index

(* Every index and slot of the ring stays in its range, the mark is a slot, *)
(* and only bytes go in and come out, whatever the callers of queue.c do    *)
(* and however long they run.                                               *)
THEOREM TypeCorrect == Spec => []TypeOK
<1>1. Init => TypeOK
  BY InitQueueInQueues DEF Init, TypeOK, Operations
<1>2. TypeOK /\ [Next]_vars => TypeOK'
  <2> SUFFICES ASSUME TypeOK, [Next]_vars
               PROVE  TypeOK'
    OBVIOUS
  <2>1. /\ queue \in Queues
        /\ hold \in Index \cup {NoMark}
        /\ io \in [op : Operations, bytes : Seq(BYTE)]
    BY DEF TypeOK
  <2>2. ASSUME NEW b \in BYTE, StoreByte(b)
        PROVE  TypeOK'
    <3>1. <<b>> \in Seq(BYTE)
      OBVIOUS
    <3>2. QED
      BY <2>1, <2>2, <3>1, StoreInQueues DEF StoreByte, TypeOK, Operations
  <2>3. ASSUME NEW s \in Data, WritePacket(s)
        PROVE  TypeOK'
    <3>1. s \in Seq(BYTE)
      BY DataIsSequence
    <3>2. WriteData(queue, s) \in Queues
      BY <2>1, <3>1, StoreInQueues DEF WriteData
    <3>3. QED
      BY <2>1, <2>3, <3>1, <3>2 DEF WritePacket, TypeOK, Operations
  <2>4. ASSUME NEW s \in Data, RefusePacket(s)
        PROVE  TypeOK'
    BY <2>1, <2>4, DataIsSequence DEF RefusePacket, TypeOK, Operations
  <2>5. CASE SendByte
    <3>1. /\ IncrementRead(queue, 1) \in Queues
          /\ CurrentByte(queue) \in BYTE
      BY <2>1, AdvanceInIndex, QueueFields
         DEF IncrementRead, Queues, CurrentByte
    <3>2. QED
      BY <2>1, <2>5, <3>1 DEF SendByte, TypeOK, Operations
  <2>6. ASSUME NEW n \in 1 .. MaxData, GetData(n)
        PROVE  TypeOK'
    <3>1. n \in Nat
      OBVIOUS
    <3>2. /\ IncrementRead(queue, n) \in Queues
          /\ Peek(queue, n) \in Seq(BYTE)
      BY <2>1, <3>1, AdvanceInIndex, QueueFields, PeekIsSequence
         DEF IncrementRead, Queues
    <3>3. QED
      BY <2>1, <2>6, <3>2 DEF GetData, TypeOK, Operations
  <2>7. CASE LookThree
    BY <2>1, <2>7, PeekIsSequence DEF LookThree, TypeOK, Operations
  <2>8. CASE HoldReadPointer
    BY <2>1, <2>8, QueueFields DEF HoldReadPointer, TypeOK
  <2>9. CASE KeepRead
    BY <2>1, <2>9 DEF KeepRead, TypeOK
  <2>10. CASE Rewind
    BY <2>1, <2>10 DEF Rewind, TypeOK, Queues
  <2>11. CASE Reset
    BY <2>1, <2>11, InitQueueInQueues DEF Reset, TypeOK
  <2>12. CASE UNCHANGED vars
    BY <2>1, <2>12 DEF vars, TypeOK
  <2>13. QED
    BY <2>2, <2>3, <2>4, <2>5, <2>6, <2>7, <2>8, <2>9, <2>10, <2>11, <2>12
       DEF Next
<1>3. QED
  BY <1>1, <1>2, PTL DEF Spec

-----------------------------------------------------------------------------
(* The ring implements the byte store. *)

(* The queue of init_queue has nothing in it. *)
LEMMA InitQueueIsEmpty == Unread(InitQueue) = << >>
<1>1. NumberToRead(InitQueue) = 0
  BY InitQueueInQueues, NumberToReadIsDistance DEF InitQueue
<1>2. QED
  BY <1>1, InitQueueInQueues, UnreadIsSequence

(* Stepping back to the mark does not depend on where the reader is.        *)
LEMMA HeldQueueOfRead ==
  ASSUME NEW q \in Queues, NEW i, NEW h
  PROVE  [[q EXCEPT !.read = i] EXCEPT !.read = h] = [q EXCEPT !.read = h]
BY DEF Queues

(* A write of n bytes that passes the space check and does not fill the     *)
(* ring exactly leaves a slot unused.                                       *)
LEMMA AcceptedWriteFits ==
  ASSUME NEW q \in Queues, NEW n \in Nat \ {0}, NumberToRead(q) + n # QUEUE_SIZE
  PROVE  /\ SpaceAvailable(q, n) <=> NumberToRead(q) + n < QUEUE_SIZE
         /\ NumberFree(q) >= n <=> NumberToRead(q) + n < QUEUE_SIZE
<1>1. NumberToRead(q) \in 0 .. QUEUE_SIZE - 1
  BY NumberToReadIsDistance
<1>2. QED
  BY <1>1, FreeSlots, QueueSizeAssumption

(* As long as no write fills the ring exactly, each queue of the MCP server *)
(* is a first-in first-out byte store, wherever it has wrapped: nothing is  *)
(* lost, invented or reordered, a write is refused only when it does not    *)
(* fit, and a rewind to the hold pointer gives back every byte read since.  *)
THEOREM RingIsFifo ==
  ASSUME MayFillExactly = FALSE
  PROVE  Spec => RefinesByteFifo
<1>1. Init => Fifo!Init
  BY InitQueueIsEmpty DEF Init, Fifo!Init
<1>2. TypeOK /\ [Next]_vars => [Fifo!Next]_(Fifo!vars)
  <2> SUFFICES ASSUME TypeOK, [Next]_vars
               PROVE  Fifo!Next \/ UNCHANGED Fifo!vars
    OBVIOUS
  <2>1. queue \in Queues
    BY DEF TypeOK
  <2>2. ASSUME NEW s \in Seq(BYTE), Len(s) > 0, hold = NoMark, hold' = NoMark,
               NumberToRead(queue) + Len(s) < QUEUE_SIZE,
               queue' = StoreBytes(queue, s), io' = [op |-> "put", bytes |-> s]
        PROVE  Fifo!Put
    <3>1. /\ Len(Unread(queue)) + Len(s) < QUEUE_SIZE
          /\ Unread(queue)' = Unread(queue) \o s
      BY <2>1, <2>2, StoreAppends, UnreadIsSequence
    <3>2. QED
      BY <2>2, <3>1 DEF Fifo!Put
  <2>3. ASSUME NEW b \in BYTE, StoreByte(b)
        PROVE  Fifo!Put
    <3> DEFINE s == <<b>>
    <3>1. s \in Seq(BYTE) /\ Len(s) = 1
      OBVIOUS
    <3>2. NumberToRead(queue) + 1 < QUEUE_SIZE
      <4>1. NumberFree(queue) = QUEUE_SIZE - NumberToRead(queue)
        BY <2>1, FreeSlots
      <4>2. /\ NumberToRead(queue) \in 0 .. QUEUE_SIZE - 1
            /\ NumberFree(queue) > 0
            /\ NumberToRead(queue) + 1 # QUEUE_SIZE
        BY <2>1, <2>3, NumberToReadIsDistance DEF StoreByte, Offered
      <4>3. QED
        BY <4>1, <4>2, QueueSizeAssumption
    <3>3. /\ queue' = StoreBytes(queue, s) /\ io' = [op |-> "put", bytes |-> s]
          /\ hold = NoMark /\ hold' = NoMark
      BY <2>3 DEF StoreByte
    <3> HIDE DEF s
    <3>4. Len(s) > 0 /\ NumberToRead(queue) + Len(s) < QUEUE_SIZE
      BY <3>1, <3>2
    <3>5. QED
      BY <2>2, <3>1, <3>3, <3>4
  <2>4. ASSUME NEW s \in Data, WritePacket(s)
        PROVE  Fifo!Put
    <3>1. s \in Seq(BYTE) /\ Len(s) \in Nat \ {0}
      BY DataIsSequence
    <3>2. /\ NumberToRead(queue) + Len(s) < QUEUE_SIZE
          /\ queue' = StoreBytes(queue, s)
      BY <2>1, <2>4, <3>1, AcceptedWriteFits DEF WritePacket, Offered, WriteData
    <3>3. QED
      BY <2>2, <2>4, <3>1, <3>2 DEF WritePacket
  <2>5. ASSUME NEW s \in Data, RefusePacket(s)
        PROVE  Fifo!Refuse
    <3>1. s \in Seq(BYTE) /\ Len(s) \in Nat \ {0}
      BY DataIsSequence
    <3>2. NumberToRead(queue) \in Nat /\ Len(Unread(queue)) = NumberToRead(queue)
      BY <2>1, NumberToReadIsDistance, UnreadIsSequence
    <3>3. NumberToRead(queue) + Len(s) >= QUEUE_SIZE
      BY <2>1, <2>5, <3>1, <3>2, FreeSlots, QueueSizeAssumption
         DEF RefusePacket
    <3>4. QED
      BY <2>5, <3>2, <3>3 DEF RefusePacket, Fifo!Refuse, HeldQueue
  <2>6. ASSUME NEW n \in 0 .. NumberToRead(queue),
               queue' = IncrementRead(queue, n), hold' = hold,
               io' = [op |-> "take", bytes |-> Peek(queue, n)]
        PROVE  Fifo!Take
    <3>1. Unread(queue) = Peek(queue, n) \o Unread(queue)'
      BY <2>1, <2>6, ReadTakesPrefix
    <3>2. HeldQueue' = HeldQueue
      BY <2>1, <2>6, HeldQueueOfRead DEF HeldQueue, IncrementRead
    <3>3. QED
      BY <2>6, <3>1, <3>2 DEF Fifo!Take
  <2>7. ASSUME SendByte PROVE Fifo!Take
    <3>1. 1 \in 0 .. NumberToRead(queue)
      BY <2>1, <2>7, NumberToReadIsDistance DEF SendByte
    <3>2. Peek(queue, 1) = <<CurrentByte(queue)>>
      <4>1. Advance(queue.read, 1 - 1) = queue.read
        BY <2>1, AdvanceOneTurn, QueueFields, QueueSizeAssumption DEF Index
      <4>2. /\ Peek(queue, 1) \in Seq(BYTE) /\ Len(Peek(queue, 1)) = 1
            /\ Peek(queue, 1)[1] = CurrentByte(queue)
        <5>1. 1 \in Nat /\ 1 \in 1 .. 1
          OBVIOUS
        <5>2. QED
          BY <2>1, <4>1, <5>1, PeekIsSequence DEF CurrentByte
      <4>3. QED
        BY <4>2
    <3>3. QED
      BY <2>6, <2>7, <3>1, <3>2 DEF SendByte
  <2>8. ASSUME NEW n \in 1 .. MaxData, GetData(n)
        PROVE  Fifo!Take
    <3>1. n \in 0 .. NumberToRead(queue)
      BY <2>1, <2>8, NumberToReadIsDistance, MaxDataAssumption DEF GetData
    <3>2. QED
      BY <2>6, <2>8, <3>1 DEF GetData
  <2>9. ASSUME LookThree PROVE Fifo!Look
    <3>1. 3 \in 0 .. NumberToRead(queue)
      BY <2>1, <2>9, NumberToReadIsDistance DEF LookThree
    <3>2. /\ Peek(queue, 3) \in Seq(BYTE) /\ Len(Peek(queue, 3)) = 3
          /\ Unread(queue) \in Seq(BYTE)
          /\ Len(Unread(queue)) = NumberToRead(queue)
      BY <2>1, PeekIsSequence, UnreadIsSequence
    <3>3. ASSUME NEW i \in 1 .. 3
          PROVE  Peek(queue, 3)[i] = Unread(queue)[i]
      <4>1. 3 \in Nat /\ i \in 1 .. NumberToRead(queue)
        BY <2>1, <3>1, NumberToReadIsDistance
      <4>2. /\ Peek(queue, 3)[i] = queue.data[Advance(queue.read, i - 1)]
            /\ Unread(queue)[i] = queue.data[Advance(queue.read, i - 1)]
        BY <2>1, <4>1, PeekIsSequence, UnreadIsSequence
      <4>3. QED
        BY <4>2
    <3>4. Peek(queue, 3) = SubSeq(Unread(queue), 1, 3)
      BY <3>1, <3>2, <3>3
    <3>5. UNCHANGED <<Unread(queue), HeldQueue, hold>>
      BY <2>9 DEF LookThree, HeldQueue
    <3>6. QED
      BY <2>9, <3>1, <3>2, <3>4, <3>5 DEF LookThree, Fifo!Look
  <2>10. ASSUME HoldReadPointer PROVE Fifo!Mark
    <3>1. HeldQueue' = queue
      BY <2>1, <2>10 DEF HoldReadPointer, HeldQueue, Queues
    <3>2. hold' # NoMark
      BY <2>1, <2>10, QueueFields DEF HoldReadPointer, NoMark
    <3>3. QED
      BY <2>10, <3>1, <3>2 DEF HoldReadPointer, Fifo!Mark
  <2>11. ASSUME KeepRead PROVE Fifo!Commit
    BY <2>11 DEF KeepRead, Fifo!Commit
  <2>12. ASSUME Rewind PROVE Fifo!Rewind
    BY <2>12 DEF Rewind, Fifo!Rewind, HeldQueue
  <2>13. ASSUME Reset PROVE Fifo!Clear
    BY <2>13, InitQueueIsEmpty DEF Reset, Fifo!Clear
  <2>14. ASSUME UNCHANGED vars PROVE UNCHANGED Fifo!vars
    BY <2>14 DEF vars, Fifo!vars, HeldQueue
  <2>15. QED
    BY <2>3, <2>4, <2>5, <2>7, <2>8, <2>9, <2>10, <2>11, <2>12, <2>13, <2>14,
       <2>6 DEF Next, Fifo!Next
<1>3. QED
  BY <1>1, <1>2, TypeCorrect, PTL DEF Spec, RefinesByteFifo, Fifo!Spec

=============================================================================
