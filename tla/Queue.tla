------------------------------- MODULE Queue -------------------------------
(***************************************************************************)
(* The byte ring of the MCP server (queue.c, queue.h) as operators on a    *)
(* queue record: QUEUE_SIZE slots, the slot store_next_byte that the next  *)
(* write fills and the slot read_next_byte that the next read empties.     *)
(* The ring keeps no count: store = read is the only sign of an empty      *)
(* queue.  Every operator returns the queue after the C function of the    *)
(* same purpose, or the value that function returns.                       *)
(***************************************************************************)
EXTENDS Integers, Sequences

CONSTANTS
  QUEUE_SIZE,   (* slots in the ring: 131070 in queue.h, a handful here     *)
  BYTE          (* the byte values the model tells apart                    *)

ASSUME QueueSizeAssumption == QUEUE_SIZE \in Nat /\ QUEUE_SIZE >= 2
ASSUME ByteAssumption == 0 \in BYTE

Index == 0 .. QUEUE_SIZE - 1

Queues == [data : [Index -> BYTE], store : Index, read : Index]

InitQueue == [data |-> [i \in Index |-> 0], store |-> 0, read |-> 0]

-----------------------------------------------------------------------------
(* Moving the two indices around the ring. *)

(* The % of C, which takes the sign of what it divides. *)
Remainder(a) == IF a >= 0 THEN a % QUEUE_SIZE ELSE 0 - ((0 - a) % QUEUE_SIZE)

Advance(index, n) == Remainder(index + n)

(* faulty variant: the index is not taken round the ring *)
IncrementReadUnwrapped(q, n) == [q EXCEPT !.read = @ + n]

IncrementRead(q, n) == [q EXCEPT !.read = Advance(@, n)]

(* How far slot i lies beyond slot base, going round the ring. *)
Offset(i, base) == (QUEUE_SIZE + i - base) % QUEUE_SIZE

NumberToRead(q) == ((QUEUE_SIZE + q.store) - q.read) % QUEUE_SIZE

NumberFree(q) ==
  IF q.store = q.read THEN QUEUE_SIZE
                      ELSE ((QUEUE_SIZE - q.store) + q.read) % QUEUE_SIZE

(* is_queue_space_available: an empty ring offers one slot less than        *)
(* NumberFree, any other ring exactly NumberFree.                           *)
SpaceAvailable(q, n) ==
  \/ q.store = q.read /\ QUEUE_SIZE > n
  \/ ((QUEUE_SIZE - q.store) + q.read) % QUEUE_SIZE >= n

-----------------------------------------------------------------------------
(* Reading. *)

ReadAhead(q, n) == q.data[Advance(q.read, n)]

CurrentByte(q) == q.data[q.read]

PreviousByte(q) ==
  q.data[IF q.read = 0 THEN QUEUE_SIZE - 1 ELSE q.read - 1]

(* The next n bytes, in the order the reads deliver them. *)
Peek(q, n) == [i \in 1 .. n |-> ReadAhead(q, i - 1)]

Unread(q) == Peek(q, NumberToRead(q))

-----------------------------------------------------------------------------
(* Writing.  StoreBytes is the write loop of write_data_to_queue; the       *)
(* callers of queue.c guard it with NumberFree(q) >= Len(s).                *)

(* faulty variant: what runs past the last slot is not stored *)
StoreBytesUnwrapped(q, s) ==
  [q EXCEPT !.data  = [i \in Index |-> IF i - q.store \in 0 .. Len(s) - 1
                                         THEN s[i - q.store + 1]
                                         ELSE q.data[i]],
            !.store = Advance(@, Len(s))]

StoreBytes(q, s) ==
  [q EXCEPT !.data  = [i \in Index |-> IF Offset(i, q.store) < Len(s)
                                         THEN s[Offset(i, q.store) + 1]
                                         ELSE q.data[i]],
            !.store = Advance(@, Len(s))]

(* The queue after write_data_to_queue: all of s, or nothing. *)
WriteData(q, s) == IF NumberFree(q) >= Len(s) THEN StoreBytes(q, s) ELSE q

=============================================================================
