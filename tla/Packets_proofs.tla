--------------------------- MODULE Packets_proofs ---------------------------
(***************************************************************************)
(* What the proofs about users of Packets have in common: least numbers,   *)
(* the ring when it is read on, and how far the functions of packet.c move *)
(* it.                                                                     *)
(***************************************************************************)
EXTENDS Packets, FiniteSetTheorems, SequenceTheorems, TLAPS

(* A set of natural numbers that is not empty has a least one: the least of *)
(* the intervals 0 .. k, ordered by inclusion, is that of the least k.      *)
LEMMA LeastNumber ==
  ASSUME NEW T, T \subseteq Nat, T # {}
  PROVE  \E x \in T : \A y \in T : x <= y
<1>1. PICK n \in T : TRUE
  OBVIOUS
<1> DEFINE S == {0 .. k : k \in {j \in T : j <= n}}
<1>2. IsWellFoundedOn(StrictSubsetOrdering(0 .. n), SUBSET (0 .. n))
  <2>1. IsFiniteSet(0 .. n)
    BY FS_Interval
  <2>2. FiniteSubsetsOf(0 .. n) = SUBSET (0 .. n)
    BY <2>1, FS_FiniteSubsetsOfFinite, Zenon
  <2>3. QED
    BY <2>2, FS_StrictSubsetOrderingWellFounded, Zenon
<1>3. S \subseteq SUBSET (0 .. n) /\ S # {}
  BY <1>1
<1>4. PICK s \in S : \A r \in S : <<r, s>> \notin StrictSubsetOrdering(0 .. n)
  BY <1>2, <1>3, WFMin, Zenon
<1>5. PICK x \in T : x <= n /\ s = 0 .. x
  BY <1>4
<1>6. ASSUME NEW y \in T, ~(x <= y)
      PROVE  FALSE
  <2>1. x \in 0 .. x /\ x \notin 0 .. y
    BY <1>5, <1>6
  <2>2. /\ 0 .. y \in S
        /\ 0 .. y \subseteq 0 .. x /\ 0 .. y # 0 .. x
        /\ 0 .. y \subseteq 0 .. n /\ 0 .. x \subseteq 0 .. n
    BY <2>1, <1>5, <1>6
  <2>3. <<0 .. y, s>> \in StrictSubsetOrdering(0 .. n)
    BY <2>2, <1>5 DEF StrictSubsetOrdering
  <2>4. QED
    BY <2>2, <2>3, <1>4
<1>7. QED
  BY <1>6

-----------------------------------------------------------------------------
(* The ring. *)

(* The fields of a queue. *)
LEMMA Fields ==
  ASSUME NEW q \in Queues
  PROVE  /\ q.store \in 0 .. QUEUE_SIZE - 1 /\ q.read \in 0 .. QUEUE_SIZE - 1
         /\ q.data \in [Index -> BYTE]
         /\ QUEUE_SIZE \in Nat /\ QUEUE_SIZE >= 2
BY QueueSizeAssumption DEF Queues, Index

(* The remainder of a number below two turns. *)
LEMMA BelowTwoTurns ==
  ASSUME NEW a \in 0 .. 2 * QUEUE_SIZE - 1
  PROVE  a % QUEUE_SIZE = IF a < QUEUE_SIZE THEN a ELSE a - QUEUE_SIZE
BY QueueSizeAssumption

(* An index moved on by less than a turn. *)
LEMMA OneTurn ==
  ASSUME NEW i \in Index, NEW n \in 0 .. QUEUE_SIZE - 1
  PROVE  Advance(i, n) = IF i + n < QUEUE_SIZE THEN i + n ELSE i + n - QUEUE_SIZE
<1>1. i + n \in 0 .. 2 * QUEUE_SIZE - 1
  BY QueueSizeAssumption DEF Index
<1> QED
  BY <1>1, BelowTwoTurns, QueueSizeAssumption DEF Remainder, Advance, Index

(* The bytes to read, without a remainder. *)
LEMMA ToRead ==
  ASSUME NEW q \in Queues
  PROVE  /\ NumberToRead(q) = IF q.store >= q.read THEN q.store - q.read
                                                    ELSE QUEUE_SIZE + q.store - q.read
         /\ NumberToRead(q) \in 0 .. QUEUE_SIZE - 1
<1>1. (QUEUE_SIZE + q.store) - q.read \in 0 .. 2 * QUEUE_SIZE - 1
  BY Fields
<1>2. QED
  BY <1>1, BelowTwoTurns, Fields DEF NumberToRead

(* A byte looked at is a byte. *)
LEMMA AheadIsByte ==
  ASSUME NEW q \in Queues, NEW n \in Nat
  PROVE  ReadAhead(q, n) \in BYTE
<1>1. Advance(q.read, n) \in Index
  BY Fields DEF Remainder, Advance, Index
<1>2. QED
  BY <1>1, Fields DEF ReadAhead

(* The unread bytes are as many as there are to read. *)
LEMMA UnreadBytes ==
  ASSUME NEW q \in Queues
  PROVE  Unread(q) \in Seq(BYTE) /\ Len(Unread(q)) = NumberToRead(q)
<1> DEFINE n == NumberToRead(q)
<1>1. n \in Nat
  BY ToRead
<1>2. \A i \in 1 .. n : ReadAhead(q, i - 1) \in BYTE
  <2> SUFFICES ASSUME NEW i \in 1 .. n PROVE ReadAhead(q, i - 1) \in BYTE
    OBVIOUS
  <2>1. i - 1 \in Nat
    BY <1>1
  <2> QED
    BY <2>1, AheadIsByte
<1>3. Unread(q) = [i \in 1 .. n |-> ReadAhead(q, i - 1)]
  BY DEF Unread, Peek
<1> QED
  BY <1>1, <1>2, <1>3

(* Reading no more than there is to read takes as many away. *)
LEMMA ReadForward ==
  ASSUME NEW q \in Queues, NEW n \in 0 .. NumberToRead(q)
  PROVE  /\ IncrementRead(q, n) \in Queues
         /\ NumberToRead(IncrementRead(q, n)) = NumberToRead(q) - n
<1> DEFINE r == IncrementRead(q, n)
<1>1. q.read + n \in 0 .. 2 * QUEUE_SIZE - 1 /\ n \in 0 .. QUEUE_SIZE - 1
  BY ToRead, Fields
<1>2. /\ r.read = (IF q.read + n < QUEUE_SIZE THEN q.read + n
                                              ELSE q.read + n - QUEUE_SIZE)
      /\ r.store = q.store /\ r.data = q.data
  <2>1. Advance(q.read, n) = IF q.read + n < QUEUE_SIZE THEN q.read + n
                                                         ELSE q.read + n - QUEUE_SIZE
    BY <1>1, Fields, OneTurn DEF Index
  <2>2. r.read = Advance(q.read, n) /\ r.store = q.store /\ r.data = q.data
    BY DEF IncrementRead, Queues
  <2> QED
    BY <2>1, <2>2
<1>3. r.read \in Index
  BY <1>1, <1>2, Fields DEF Index
<1>4. r \in Queues
  BY <1>3 DEF IncrementRead, Advance, Queues
<1> HIDE DEF r
<1>5. NumberToRead(r) = NumberToRead(q) - n
  BY <1>1, <1>2, <1>4, ToRead, Fields
<1> QED
  BY <1>4, <1>5 DEF r

(* Wherever it is taken to, the read index stays in the ring. *)
LEMMA ReadStaysIn ==
  ASSUME NEW q \in Queues, NEW n \in Nat
  PROVE  IncrementRead(q, n) \in Queues
<1>1. Advance(q.read, n) \in Index
  BY Fields DEF Remainder, Advance, Index
<1> QED
  BY <1>1 DEF IncrementRead, Queues

(* A byte less than a turn ahead, without a remainder. *)
LEMMA AheadIs ==
  ASSUME NEW q \in Queues, NEW i \in 0 .. QUEUE_SIZE - 1
  PROVE  ReadAhead(q, i) = q.data[IF q.read + i < QUEUE_SIZE THEN q.read + i
                                  ELSE q.read + i - QUEUE_SIZE]
BY Fields, OneTurn DEF ReadAhead, Index

(* What is ahead of a queue that has been read on. *)
LEMMA AheadAfter ==
  ASSUME NEW q \in Queues, NEW n \in 0 .. NumberToRead(q),
         NEW i \in 0 .. NumberToRead(q) - n
  PROVE  ReadAhead(IncrementRead(q, n), i) = ReadAhead(q, n + i)
<1> DEFINE r == IncrementRead(q, n)
<1>1. /\ NumberToRead(q) \in 0 .. QUEUE_SIZE - 1
      /\ n \in 0 .. QUEUE_SIZE - 1 /\ i \in 0 .. QUEUE_SIZE - 1
      /\ n + i \in 0 .. QUEUE_SIZE - 1
  BY ToRead, Fields
<1>2. r \in Queues /\ r.data = q.data /\ r.read = Advance(q.read, n)
  BY ReadForward DEF IncrementRead, Queues
<1>3. r.read = IF q.read + n < QUEUE_SIZE THEN q.read + n ELSE q.read + n - QUEUE_SIZE
  BY <1>1, <1>2, OneTurn, Fields DEF Index
<1> HIDE DEF r
<1>4. ReadAhead(r, i) = q.data[IF r.read + i < QUEUE_SIZE THEN r.read + i
                               ELSE r.read + i - QUEUE_SIZE]
  BY <1>1, <1>2, AheadIs
<1>5. ReadAhead(q, n + i) = q.data[IF q.read + (n + i) < QUEUE_SIZE THEN q.read + (n + i)
                                   ELSE q.read + (n + i) - QUEUE_SIZE]
  BY <1>1, AheadIs
<1>6. (IF r.read + i < QUEUE_SIZE THEN r.read + i ELSE r.read + i - QUEUE_SIZE)
        = (IF q.read + (n + i) < QUEUE_SIZE THEN q.read + (n + i)
           ELSE q.read + (n + i) - QUEUE_SIZE)
  BY <1>1, <1>3, Fields
<1> QED
  BY <1>4, <1>5, <1>6 DEF r

(* The byte before the read index is the last that was read. *)
LEMMA PreviousIs ==
  ASSUME NEW q \in Queues, NEW n \in 1 .. NumberToRead(q)
  PROVE  PreviousByte(IncrementRead(q, n)) = ReadAhead(q, n - 1)
<1> DEFINE r == IncrementRead(q, n)
<1>1. /\ NumberToRead(q) \in 0 .. QUEUE_SIZE - 1
      /\ n \in 0 .. NumberToRead(q)
      /\ n \in 0 .. QUEUE_SIZE - 1 /\ n - 1 \in 0 .. QUEUE_SIZE - 1
  BY ToRead, Fields
<1>2. r \in Queues /\ r.data = q.data /\ r.read = Advance(q.read, n)
  BY <1>1, ReadForward DEF IncrementRead, Queues
<1>3. r.read = IF q.read + n < QUEUE_SIZE THEN q.read + n ELSE q.read + n - QUEUE_SIZE
  BY <1>1, <1>2, OneTurn, Fields DEF Index
<1> HIDE DEF r
<1>4. ReadAhead(q, n - 1) = q.data[IF q.read + (n - 1) < QUEUE_SIZE THEN q.read + (n - 1)
                                   ELSE q.read + (n - 1) - QUEUE_SIZE]
  BY <1>1, AheadIs
<1>5. (IF r.read = 0 THEN QUEUE_SIZE - 1 ELSE r.read - 1)
        = (IF q.read + (n - 1) < QUEUE_SIZE THEN q.read + (n - 1)
           ELSE q.read + (n - 1) - QUEUE_SIZE)
  BY <1>1, <1>3, Fields
<1> QED
  BY <1>2, <1>4, <1>5 DEF PreviousByte, r

(* A byte stored in a ring that has room for it comes after those unread.   *)
LEMMA OneStored ==
  ASSUME NEW q \in Queues, NEW b \in BYTE, NumberToRead(q) + 1 # QUEUE_SIZE
  PROVE  /\ StoreBytes(q, <<b>>) \in Queues
         /\ NumberToRead(StoreBytes(q, <<b>>)) = NumberToRead(q) + 1
         /\ \A i \in 0 .. NumberToRead(q) - 1 :
              ReadAhead(StoreBytes(q, <<b>>), i) = ReadAhead(q, i)
         /\ ReadAhead(StoreBytes(q, <<b>>), NumberToRead(q)) = b
<1> DEFINE s == StoreBytes(q, <<b>>)
           n == NumberToRead(q)
<1>1. n \in 0 .. QUEUE_SIZE - 2 /\ QUEUE_SIZE \in Nat /\ QUEUE_SIZE >= 2
  BY ToRead, Fields
<1>2. q.store \in Index
  BY Fields DEF Index
<1>3. \A i \in Index : Offset(i, q.store) < 1 <=> i = q.store
  <2> SUFFICES ASSUME NEW i \in Index PROVE Offset(i, q.store) < 1 <=> i = q.store
    OBVIOUS
  <2> DEFINE o == QUEUE_SIZE + i - q.store
  <2>1. o \in 0 .. 2 * QUEUE_SIZE - 1 /\ o # 0
    BY <1>1, <1>2 DEF Index
  <2>2. Offset(i, q.store) = IF o < QUEUE_SIZE THEN o ELSE o - QUEUE_SIZE
    BY <2>1, BelowTwoTurns DEF Offset
  <2>3. o < QUEUE_SIZE => o >= 1
    BY <2>1
  <2>4. ~(o < QUEUE_SIZE) => (o - QUEUE_SIZE < 1 <=> i = q.store)
    BY <1>1, <1>2 DEF Index
  <2>5. o < QUEUE_SIZE => i # q.store
    BY <1>1, <1>2 DEF Index
  <2> HIDE DEF o
  <2> QED
    BY <2>1, <2>2, <2>3, <2>4, <2>5
<1>4. Offset(q.store, q.store) = 0
  <2>1. QUEUE_SIZE + q.store - q.store = QUEUE_SIZE /\ QUEUE_SIZE \in 0 .. 2 * QUEUE_SIZE - 1
    BY <1>1, <1>2 DEF Index
  <2> QED
    BY <1>1, <2>1, BelowTwoTurns DEF Offset
<1> DEFINE f == [i \in Index |-> IF Offset(i, q.store) < Len(<<b>>)
                                  THEN <<b>>[Offset(i, q.store) + 1] ELSE q.data[i]]
<1>5. f = [i \in Index |-> IF i = q.store THEN b ELSE q.data[i]]
  BY <1>3, <1>4
<1>6. s.data = f /\ s.read = q.read /\ s.store = Advance(q.store, 1)
  BY DEF StoreBytes, Queues
<1>7. s.store = IF q.store + 1 < QUEUE_SIZE THEN q.store + 1 ELSE q.store + 1 - QUEUE_SIZE
  <2>1. 1 \in 0 .. QUEUE_SIZE - 1
    BY <1>1
  <2> QED
    BY <1>2, <1>6, <2>1, OneTurn
<1>8. s.store \in Index
  BY <1>1, <1>2, <1>7 DEF Index
<1>9. f \in [Index -> BYTE]
  BY <1>5, Fields
<1>10. s \in Queues
  BY <1>6, <1>8, <1>9 DEF StoreBytes, Queues
<1> HIDE DEF s, f
<1>11. NumberToRead(s) = n + 1
  BY <1>1, <1>6, <1>7, <1>10, ToRead, Fields
<1>12. ASSUME NEW i \in 0 .. n
       PROVE  /\ i < n => ReadAhead(s, i) = ReadAhead(q, i)
              /\ i = n => ReadAhead(s, i) = b
  <2> DEFINE at == IF q.read + i < QUEUE_SIZE THEN q.read + i ELSE q.read + i - QUEUE_SIZE
  <2>1. i \in 0 .. QUEUE_SIZE - 1
    BY <1>1
  <2>2. ReadAhead(q, i) = q.data[at] /\ ReadAhead(s, i) = s.data[at]
    BY <1>6, <1>10, <2>1, AheadIs
  <2>3. at \in Index /\ (at = q.store <=> i = n)
    <3> DEFINE st == q.store
               rd == q.read
    <3>1. /\ st \in 0 .. QUEUE_SIZE - 1 /\ rd \in 0 .. QUEUE_SIZE - 1
          /\ n = IF st >= rd THEN st - rd ELSE QUEUE_SIZE + st - rd
      BY ToRead, Fields
    <3>2. at = IF rd + i < QUEUE_SIZE THEN rd + i ELSE rd + i - QUEUE_SIZE
      OBVIOUS
    <3> HIDE DEF st, rd, n, at
    <3>3. at \in Index /\ (at = st <=> i = n)
      BY <1>1, <2>1, <3>1, <3>2 DEF Index
    <3> QED
      BY <3>3 DEF st
  <2> HIDE DEF at
  <2> QED
    BY <1>1, <1>5, <1>6, <2>2, <2>3
<1>13. n \in 0 .. n /\ \A i \in 0 .. n - 1 : i \in 0 .. n /\ i < n
  BY <1>1
<1> QED
  BY <1>10, <1>11, <1>12, <1>13 DEF s

(* The least of some numbers is one of them, and no other is less. *)
LEMMA LeastIs ==
  ASSUME NEW S, S \subseteq Nat, S # {}
  PROVE  Least(S) \in S /\ \A j \in S : Least(S) <= j
<1>1. \E i \in S : \A j \in S : i <= j
  BY LeastNumber
<1> QED
  BY <1>1 DEF Least

-----------------------------------------------------------------------------
(* Where the functions of packet.c leave the ring: within what there is to  *)
(* read.                                                                    *)

(* A queue that has been read on from q. *)
Behind(r, q) == r \in Queues /\ NumberToRead(r) <= NumberToRead(q)

(* queue_skip_to_next_packet *)
LEMMA SkipIsBehind ==
  ASSUME NEW q \in Queues PROVE Behind(SkipToNextPacket(q), q)
<1> DEFINE n == NumberToRead(q)
           starts == PacketStarts(q)
<1>1. n \in Nat
  BY ToRead
<1>2. CASE starts # {}
  <2>1. starts \subseteq 0 .. n - 3
    BY DEF PacketStarts
  <2>2. starts \subseteq Nat
    BY <2>1
  <2>3. Least(starts) \in starts
    BY <1>2, <2>2, LeastIs
  <2>4. Least(starts) \in 0 .. n
    BY <1>1, <2>1, <2>3
  <2> QED
    BY <1>1, <1>2, <2>4, ReadForward DEF SkipToNextPacket, Behind
<1>3. CASE starts = {} /\ n >= 3
  <2>1. n - 2 \in 0 .. n
    BY <1>1, <1>3
  <2> QED
    BY <1>1, <1>3, <2>1, ReadForward DEF SkipToNextPacket, Behind
<1>4. CASE starts = {} /\ ~(n >= 3)
  BY <1>1, <1>4 DEF SkipToNextPacket, Behind
<1> QED
  BY <1>2, <1>3, <1>4

(* queue_skip_terminator_of_packet *)
LEMMA TerminatorIsBehind ==
  ASSUME NEW q \in Queues PROVE Behind(SkipTerminator(q), q)
<1>1. NumberToRead(q) \in Nat
  BY ToRead
<1>2. CASE NumberToRead(q) >= 3
  <2>1. 3 \in 0 .. NumberToRead(q)
    BY <1>1, <1>2
  <2> QED
    BY <1>1, <2>1, ReadForward DEF SkipTerminator, Behind
<1>3. CASE ~(NumberToRead(q) >= 3)
  BY <1>1, <1>3 DEF SkipTerminator, Behind
<1> QED
  BY <1>2, <1>3

(* What has been read on twice. *)
LEMMA BehindBoth ==
  ASSUME NEW p \in Queues, NEW q, NEW r, Behind(q, p), Behind(r, q)
  PROVE  Behind(r, p)
BY ToRead DEF Behind

(* The size of a packet is a number. *)
LEMMA SizeIsNumber ==
  ASSUME NEW q \in Queues PROVE PacketSize(q) \in Nat
<1>1. ReadAhead(q, 3) \in Nat /\ ReadAhead(q, 4) \in Nat
  BY AheadIsByte, NumbersAssumption
<1> QED
  BY <1>1 DEF PacketSize

(* A packet that has come can be read past. *)
LEMMA PacketIsBehind ==
  ASSUME NEW q \in Queues, Arrived(q)
  PROVE  Behind(IncrementRead(q, PacketSize(q) + 6), q)
<1>1. /\ PacketSize(q) \in Nat /\ NumberToRead(q) \in Nat
      /\ PacketSize(q) + 6 <= NumberToRead(q)
  BY SizeIsNumber, ToRead DEF Arrived
<1>2. PacketSize(q) + 6 \in 0 .. NumberToRead(q)
  BY <1>1
<1> QED
  BY <1>1, <1>2, ReadForward DEF Behind

(* get_command_text finds a name with a first letter, within the packet. *)
LEMMA CommandIsBehind ==
  ASSUME NEW q \in Queues, Arrived(q), CommandText(q).complete
  PROVE  Behind(CommandText(q).queue, q) /\ CommandText(q).name[1] \in BYTE
<1> DEFINE body == PacketSize(q) - 3
           p == IncrementRead(q, 6)
           ends == {i \in 1 .. body : /\ i < MAX_COMMAND_NAME_LENGTH
                                      /\ ReadAhead(p, i) \in {Space, Newline}}
           e == Least(ends)
           tried == IF body + 1 < MAX_COMMAND_NAME_LENGTH THEN body + 1
                                                          ELSE MAX_COMMAND_NAME_LENGTH
           none(after) == [queue |-> after, complete |-> FALSE, name |-> << >>]
<1>1. /\ PacketSize(q) \in Nat /\ NumberToRead(q) \in Nat
      /\ PacketSize(q) + 6 <= NumberToRead(q)
  BY SizeIsNumber, ToRead DEF Arrived
<1>2. Behind(p, q) /\ NumberToRead(p) = NumberToRead(q) - 6
  <2>1. 6 \in 0 .. NumberToRead(q)
    BY <1>1
  <2> QED
    BY <1>1, <2>1, ReadForward DEF Behind
<1>3. CommandText(q) =
        IF CurrentByte(p) = Newline \/ body = 1 THEN none(IncrementRead(p, 1))
        ELSE IF body = 0 THEN none(p)
        ELSE IF ends # {} THEN [queue |-> IncrementRead(p, e + 1), complete |-> TRUE,
                                name |-> Peek(p, e)]
        ELSE IF tried = MAX_COMMAND_NAME_LENGTH
          THEN none(IncrementRead(IncrementRead(p, tried), body - tried))
        ELSE none(IncrementRead(p, tried))
  BY DEF CommandText
<1>4. \A after : none(after).complete = FALSE
  OBVIOUS
<1> HIDE DEF none
<1>5. /\ ends # {}
      /\ CommandText(q) = [queue |-> IncrementRead(p, e + 1), complete |-> TRUE,
                           name |-> Peek(p, e)]
  BY <1>3, <1>4
<1>6. ends \subseteq 1 .. body
  OBVIOUS
<1>7. e \in 1 .. body
  <2>1. ends \subseteq Nat
    BY <1>6
  <2> QED
    BY <1>5, <1>6, <2>1, LeastIs
<1> HIDE DEF ends, e, p
<1>8. Behind(IncrementRead(p, e + 1), p)
  <2>1. p \in Queues /\ e + 1 \in 0 .. NumberToRead(p) /\ NumberToRead(p) \in Nat
    BY <1>1, <1>2, <1>7, ToRead DEF Behind
  <2> QED
    BY <2>1, ReadForward DEF Behind
<1>9. Peek(p, e)[1] \in BYTE
  <2>1. 1 \in 1 .. e /\ 1 - 1 = 0 /\ 0 \in Nat /\ p \in Queues
    BY <1>2, <1>7 DEF Behind
  <2>2. Peek(p, e)[1] = ReadAhead(p, 0)
    BY <2>1 DEF Peek
  <2> QED
    BY <2>1, <2>2, AheadIsByte
<1> QED
  BY <1>2, <1>5, <1>8, <1>9, BehindBoth

=============================================================================
