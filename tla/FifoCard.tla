------------------------------ MODULE FifoCard ------------------------------
(***************************************************************************)
(* The card between the CPC and the Pi: two FIFOs of DEPTH bytes, up to    *)
(* the Pi and down to the CPC.  cpld_fifo.v turns the CPC's accesses to    *)
(* the ports &FD80 and &FD81 into shift pulses, status bits and resets; on *)
(* the other side the Pi drives the pins itself (fifolib.c).  Each side    *)
(* sees of a FIFO only whether it may be written (DIR) or read (DOR).      *)
(***************************************************************************)
EXTENDS Integers, Sequences

CONSTANT DEPTH      (* bytes in each FIFO: 16 *)

ASSUME DepthAssumption == DEPTH \in Nat \ {0}

VARIABLES up, down

cardVars == <<up, down>>

NotAByte == 0       (* what an empty FIFO has at its outputs *)

(* faulty variant: one byte more than there is room for *)
InputReadyWhenFull(fifo) == Len(fifo) <= DEPTH

InputReady(fifo) == Len(fifo) < DEPTH
OutputReady(fifo) == fifo # << >>

(* A pulse on SI shifts the byte in, on a full FIFO it does nothing; so for *)
(* SO on an empty one.                                                      *)
ShiftedIn(fifo, byte) == IF InputReady(fifo) THEN Append(fifo, byte) ELSE fifo
ShiftedOut(fifo)      == IF OutputReady(fifo) THEN Tail(fifo) ELSE fifo

Output(fifo) == IF OutputReady(fifo) THEN Head(fifo) ELSE NotAByte

CardReset == up' = << >> /\ down' = << >>

=============================================================================
