------------------------------ MODULE QueueUse ------------------------------
(***************************************************************************)
(* One queue of the MCP server under the operations its callers make: the  *)
(* main loop stores and sends single bytes, the packet builder writes      *)
(* whole packets where there is space, the parser looks ahead, reads and   *)
(* steps back.  The server is one thread, so every call is one step.       *)
(*                                                                         *)
(* MayFillExactly says whether the load ever leaves exactly QUEUE_SIZE     *)
(* bytes unread.  The code does not prevent it; a client that waits for    *)
(* each response before it sends the next command never gets near it.      *)
(***************************************************************************)
EXTENDS Queue

CONSTANTS
  MaxData,          (* the longest run of bytes written or read in one call *)
  MayFillExactly

ASSUME MaxDataAssumption == MaxData \in Nat \ {0}
ASSUME MayFillExactlyAssumption == MayFillExactly \in BOOLEAN

NoMark == -1

VARIABLES
  queue,            (* Queue in queue.h                                     *)
  hold,             (* hold_read_pointer of the main loop, or NoMark        *)
  io                (* the last call and its bytes (only observed)          *)

vars == <<queue, hold, io>>

Data == UNION {[1 .. n -> BYTE] : n \in 1 .. MaxData}

Operations == {"none", "put", "refused", "take", "look"}

Init ==
  /\ queue = InitQueue
  /\ hold = NoMark
  /\ io = [op |-> "none", bytes |-> << >>]

-----------------------------------------------------------------------------

(* The load on the queue: what the clients keep outstanding. *)
Offered(n) == MayFillExactly \/ NumberToRead(queue) + n # QUEUE_SIZE

(* The main loop stores a byte from the FIFO: free > 0, store, increment.   *)
StoreByte(b) ==
  /\ hold = NoMark
  /\ Offered(1)
  /\ NumberFree(queue) > 0
  /\ queue' = StoreBytes(queue, <<b>>)
  /\ io' = [op |-> "put", bytes |-> <<b>>]
  /\ UNCHANGED hold

(* write_data_to_packet: the whole packet if there is space, else nothing.  *)
WritePacket(s) ==
  /\ hold = NoMark
  /\ Offered(Len(s))
  /\ SpaceAvailable(queue, Len(s))
  /\ queue' = WriteData(queue, s)
  /\ io' = [op |-> "put", bytes |-> s]
  /\ UNCHANGED hold

RefusePacket(s) ==
  /\ hold = NoMark
  /\ ~SpaceAvailable(queue, Len(s))
  /\ io' = [op |-> "refused", bytes |-> s]
  /\ UNCHANGED <<queue, hold>>

(* The main loop sends a byte to the FIFO. *)
SendByte ==
  /\ NumberToRead(queue) > 0
  /\ io' = [op |-> "take", bytes |-> <<CurrentByte(queue)>>]
  /\ queue' = IncrementRead(queue, 1)
  /\ UNCHANGED hold

(* get_data_from_queue, when it returns TRUE. *)
GetData(n) ==
  /\ NumberToRead(queue) >= n
  /\ io' = [op |-> "take", bytes |-> Peek(queue, n)]
  /\ queue' = IncrementRead(queue, n)
  /\ UNCHANGED hold

(* get_next_three_bytes_from_queue, when it returns TRUE. *)
LookThree ==
  /\ NumberToRead(queue) >= 3
  /\ io' = [op |-> "look", bytes |-> Peek(queue, 3)]
  /\ UNCHANGED <<queue, hold>>

(* The main loop marks the start of a packet, and after the command either  *)
(* keeps what was read or puts the read index back to try again later.      *)
HoldReadPointer ==
  /\ hold = NoMark
  /\ hold' = queue.read
  /\ UNCHANGED <<queue, io>>

KeepRead ==
  /\ hold # NoMark
  /\ hold' = NoMark
  /\ UNCHANGED <<queue, io>>

Rewind ==
  /\ hold # NoMark
  /\ queue' = [queue EXCEPT !.read = hold]
  /\ hold' = NoMark
  /\ UNCHANGED io

(* queues_reset, from the RESET command. *)
Reset ==
  /\ queue' = InitQueue
  /\ hold' = NoMark
  /\ UNCHANGED io

Next ==
  \/ \E b \in BYTE : StoreByte(b)
  \/ \E s \in Data : WritePacket(s) \/ RefusePacket(s)
  \/ SendByte
  \/ \E n \in 1 .. MaxData : GetData(n)
  \/ LookThree
  \/ HoldReadPointer \/ KeepRead \/ Rewind
  \/ Reset

Spec == Init /\ [][Next]_vars

-----------------------------------------------------------------------------

TypeOK ==
  /\ queue \in Queues
  /\ hold \in Index \cup {NoMark}
  /\ io \in [op : Operations, bytes : Seq(BYTE)]

(* What would be unread if the reader stepped back to the mark. *)
HeldQueue == [queue EXCEPT !.read = hold]

(* The ring is a first-in first-out store: every call maps to a step of     *)
(* ByteFifo on the bytes between the read and the store index, and the      *)
(* mark protects the bytes between it and the store index.  This is what    *)
(* "without going over unread bytes" in queue.c means, wherever the ring    *)
(* has wrapped.                                                             *)
Fifo ==
  INSTANCE ByteFifo WITH
    CAPACITY <- QUEUE_SIZE,
    contents <- Unread(queue),
    isMarked <- hold # NoMark,
    marked   <- IF hold = NoMark THEN << >> ELSE Unread(HeldQueue)

RefinesByteFifo == Fifo!Spec

=============================================================================
