------------------------------ MODULE Loopback ------------------------------
(***************************************************************************)
(* The loopback test of the card: the CPC program (cpc_cpct main.c) over   *)
(* its driver (fifolib.s), the card, and the Pi program that echoes every  *)
(* byte (loopback.c over fifolib.c).  The CPC looks at a status bit in one *)
(* bus access and moves the byte in another; the Pi samples the data pins  *)
(* and then pulses SO; anything may happen in between.  The CPC program    *)
(* may be stopped and run again at any time, while the Pi goes on.         *)
(*                                                                         *)
(* Test 4 of the program looks at no status bit: whether it works is a     *)
(* matter of the speed of the two machines, and it is left out.            *)
(***************************************************************************)
EXTENDS FifoCard, FiniteSets

CONSTANTS
  SZ,           (* bytes in a test: 8192                                    *)
  QUEUE_SZ,     (* slots of the Pi's ring: 8192                             *)
  MAX_BLOCK,    (* bytes that one call of the driver moves: 255             *)
  MaxRestarts   (* bound: restarts of the CPC program                       *)

ASSUME LoopbackAssumption ==
  /\ SZ \in Nat \ {0} /\ QUEUE_SZ \in Nat \ {0} /\ MAX_BLOCK \in Nat \ {0}
  /\ MaxRestarts \in Nat

Slot == 0 .. QUEUE_SZ - 1

Flush == 0          (* fifo_flush, before the tests *)
Tests == 1 .. 3
Finished == 4

VARIABLES
  test,             (* the part of main() the CPC is in                     *)
  i, j,             (* bytes sent and received in this test                 *)
  call,             (* the call of fifolib.s under way                      *)
  rx,               (* the bytes received in this test, in order            *)
  restarts,
  queue, rptr, wptr,    (* the Pi's ring: rptr is where it stores           *)
  pin,              (* the byte sampled at the data pins                    *)
  pc                (* where the Pi's loop is                               *)

cpcVars == <<test, i, j, call, rx, restarts>>
piVars  == <<queue, rptr, wptr, pin, pc>>
vars    == <<cardVars, cpcVars, piVars>>

Least(m, n) == IF m <= n THEN m ELSE n

(* faulty variant: the loop is always entered at the top *)
EntryPointAtTop(n) == 4

(* The block routines are unrolled four times: the loop is entered so that  *)
(* the count runs out at the last copy, the only one that looks at it.      *)
EntryPoint(n) == IF n % 4 = 0 THEN 4 ELSE n % 4

(* A call that is about to look at the status bit: which FIFO, whether it   *)
(* waits for the bit, the bytes left, those moved, and the copy it is at.   *)
Call(fifo, waits, n) ==
  [fifo |-> fifo, waits |-> waits, left |-> n, moved |-> 0,
   top |-> EntryPoint(n), at |-> "status"]

Calls == [fifo : {"out", "in"}, waits : BOOLEAN, left : 0 .. MAX_BLOCK,
          moved : 0 .. MAX_BLOCK, top : 1 .. 4, at : {"status", "data"}]

(* fifo_out_byte and fifo_in_byte; fifo_put_byte and fifo_get_byte;         *)
(* fifo_out_bytes and fifo_in_bytes.                                        *)
CallOf(t, fifo, n) ==
  CASE t \in {Flush, 1} -> Call(fifo, FALSE, 1)
    [] t = 2            -> Call(fifo, TRUE, 1)
    [] t = 3            -> Call(fifo, FALSE, Least(n, MAX_BLOCK))

Init ==
  /\ up = << >> /\ down = << >>
  /\ test = Flush /\ i = 0 /\ j = 0 /\ rx = << >> /\ restarts = 0
  /\ call = CallOf(Flush, "in", 1)
  /\ queue = [k \in Slot |-> NotAByte] /\ rptr = 0 /\ wptr = 0
  /\ pin = NotAByte /\ pc = "dor"

-----------------------------------------------------------------------------
(* The CPC. *)

(* Bytes are numbered in the order they are sent, so that no two are the    *)
(* same.  The program sends the same random bytes in each test.             *)
FirstByte == 1 + SZ * (Cardinality(Tests) * restarts + test - 1)

(* Where main() goes when a call has returned and m bytes are sent and n    *)
(* received: the tests send if there is something to send, then receive.    *)
StartTest(t) ==
  /\ test' = t /\ i' = 0 /\ j' = 0 /\ rx' = << >>
  /\ call' = IF t = Finished THEN call ELSE CallOf(t, "out", SZ)

GoOn(m, n, bytes) ==
  IF m = SZ /\ n = SZ
    THEN StartTest(test + 1)
    ELSE /\ i' = m /\ j' = n /\ rx' = bytes
         /\ call' = IF n < SZ /\ (call.fifo = "out" \/ m = SZ)
                      THEN CallOf(test, "in", SZ - n)
                      ELSE CallOf(test, "out", SZ - m)
         /\ UNCHANGED test

(* The call returns the number of bytes it has moved. *)
Return(moved, bytes) ==
  IF test = Flush
    THEN IF moved = 0 THEN StartTest(1)
         ELSE call' = CallOf(Flush, "in", 1) /\ UNCHANGED <<test, i, j, rx>>
    ELSE IF call.fifo = "out" THEN GoOn(i + moved, j, bytes)
                              ELSE GoOn(i, j + moved, bytes)

Ready == IF call.fifo = "out" THEN InputReady(up) ELSE OutputReady(down)

LookAtStatus ==
  /\ test # Finished /\ call.at = "status"
  /\ IF Ready THEN /\ call' = [call EXCEPT !.at = "data"]
                   /\ UNCHANGED <<test, i, j, rx>>
     ELSE IF call.waits THEN UNCHANGED <<test, i, j, call, rx>>
     ELSE Return(call.moved, rx)
  /\ UNCHANGED <<cardVars, restarts, piVars>>

(* What comes after the byte: the copy at the end of the loop looks at the  *)
(* count.                                                                   *)
AfterByte(bytes) ==
  IF call.top = 1 /\ call.left = 1
    THEN Return(call.moved + 1, bytes)
    ELSE /\ call' = [call EXCEPT !.at = "status", !.left = @ - 1, !.moved = @ + 1,
                                 !.top = IF @ = 1 THEN 4 ELSE @ - 1]
         /\ rx' = bytes
         /\ UNCHANGED <<test, i, j>>

WriteData ==
  /\ test # Finished /\ call.at = "data" /\ call.fifo = "out"
  /\ up' = ShiftedIn(up, FirstByte + i + call.moved)
  /\ AfterByte(rx)
  /\ UNCHANGED <<down, restarts, piVars>>

(* What fifo_flush reads is dropped. *)
ReadData ==
  /\ test # Finished /\ call.at = "data" /\ call.fifo = "in"
  /\ down' = ShiftedOut(down)
  /\ AfterByte(IF test = Flush THEN rx ELSE Append(rx, Output(down)))
  /\ UNCHANGED <<up, restarts, piVars>>

(* The program is run again: fifo_reset, and from the top. *)
Restart ==
  /\ restarts < MaxRestarts
  /\ restarts' = restarts + 1
  /\ CardReset
  /\ test' = Flush /\ i' = 0 /\ j' = 0 /\ rx' = << >>
  /\ call' = CallOf(Flush, "in", 1)
  /\ UNCHANGED piVars

Cpc == LookAtStatus \/ WriteData \/ ReadData

-----------------------------------------------------------------------------
(* The Pi. *)

(* faulty variant: DOR is not looked at *)
ReadAnyway ==
  /\ pc = "dor"
  /\ pc' = "sample"
  /\ UNCHANGED <<cardVars, cpcVars, queue, rptr, wptr, pin>>

(* GET_DOR *)
LookAtDor ==
  /\ pc = "dor"
  /\ pc' = IF OutputReady(up) THEN "sample" ELSE "dir"
  /\ UNCHANGED <<cardVars, cpcVars, queue, rptr, wptr, pin>>

(* read_fifo_byte: first the pins, then the pulse on SO. *)
SamplePins ==
  /\ pc = "sample"
  /\ pc' = "pulse"
  /\ pin' = Output(up)
  /\ UNCHANGED <<cardVars, cpcVars, queue, rptr, wptr>>

(* faulty variant: the ring is smaller than a test *)
NextSlotOfFewer(slot) == (slot + 1) % (QUEUE_SZ - DEPTH)

NextSlot(slot) == (slot + 1) % QUEUE_SZ

(* faulty variant: the pulse does not get through *)
StoreWithoutPulse ==
  /\ pc = "pulse"
  /\ pc' = "dir"
  /\ queue' = [queue EXCEPT ![rptr] = pin]
  /\ rptr' = NextSlot(rptr)
  /\ UNCHANGED <<cardVars, cpcVars, wptr, pin>>

(* The byte goes to the ring, which may be full: nothing looks.             *)
PulseAndStore ==
  /\ pc = "pulse"
  /\ pc' = "dir"
  /\ up' = ShiftedOut(up)
  /\ queue' = [queue EXCEPT ![rptr] = pin]
  /\ rptr' = NextSlot(rptr)
  /\ UNCHANGED <<down, cpcVars, wptr, pin>>

(* faulty variant: GET_DIR is not looked at *)
LookAtRingOnly ==
  /\ pc = "dir"
  /\ pc' = IF wptr # rptr THEN "write" ELSE "dor"
  /\ UNCHANGED <<cardVars, cpcVars, queue, rptr, wptr, pin>>

(* wptr != rptr && GET_DIR *)
LookAtDir ==
  /\ pc = "dir"
  /\ pc' = IF wptr # rptr /\ InputReady(down) THEN "write" ELSE "dor"
  /\ UNCHANGED <<cardVars, cpcVars, queue, rptr, wptr, pin>>

WriteFifoByte ==
  /\ pc = "write"
  /\ pc' = "dor"
  /\ down' = ShiftedIn(down, queue[wptr])
  /\ wptr' = NextSlot(wptr)
  /\ UNCHANGED <<up, cpcVars, queue, rptr, pin>>

Pi == LookAtDor \/ SamplePins \/ PulseAndStore \/ LookAtDir \/ WriteFifoByte

Next == Cpc \/ Restart \/ Pi

(* Both machines run on; nobody need restart the program.                   *)
Spec == Init /\ [][Next]_vars /\ WF_vars(Cpc) /\ WF_vars(Pi)

-----------------------------------------------------------------------------

InRing == [k \in 1 .. (rptr - wptr) % QUEUE_SZ |-> queue[(wptr + k - 1) % QUEUE_SZ]]

(* The bytes received and those on their way, oldest first. *)
OnTheirWay == rx \o down \o InRing \o up

TypeOK ==
  /\ Len(up) <= DEPTH /\ Len(down) <= DEPTH
  /\ test \in Flush .. Finished /\ i \in 0 .. SZ /\ j \in 0 .. SZ
  /\ call \in Calls /\ call.left + call.moved <= MAX_BLOCK
  /\ rx \in Seq(Nat) /\ Len(rx) <= SZ
  /\ queue \in [Slot -> Nat] /\ rptr \in Slot /\ wptr \in Slot
  /\ pin \in Nat /\ pc \in {"dor", "sample", "pulse", "dir", "write"}

Sent == i + (IF call.fifo = "out" THEN call.moved ELSE 0)

(* Until the program is restarted no byte is lost, doubled or overtaken,    *)
(* although the ring does not look whether it is full: the bytes of a test  *)
(* fit, as the Pi writes down what it can before it reads on.               *)
NothingIsLost ==
  restarts = 0 /\ test \in Tests =>
    OnTheirWay = [k \in 1 .. Sent |-> FirstByte + k - 1]

(* A restart may lose bytes and leave old ones on their way, but it never   *)
(* makes a byte come twice or before an older one.                          *)
NeverOutOfOrder ==
  LET bytes == {k \in DOMAIN OnTheirWay : OnTheirWay[k] # NotAByte}
  IN  \A k, l \in bytes : k < l => OnTheirWay[k] < OnTheirWay[l]

(* The Pi takes up a byte that nobody sent only when a reset has emptied    *)
(* the FIFO under its hands, one for each reset.                            *)
OneStrayByteAReset ==
  Cardinality({k \in DOMAIN OnTheirWay : OnTheirWay[k] = NotAByte}) <= restarts

(* The tests come to their end. *)
TestsFinish == <>(test = Finished \/ restarts > 0)

=============================================================================
