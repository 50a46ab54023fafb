------------------------------ MODULE ByteFifo ------------------------------
(***************************************************************************)
(* What the users of a queue.c queue rely on: a first-in first-out store   *)
(* of bytes.  Bytes leave in the order they came, none is lost or invented,*)
(* a write is refused only when it does not fit, and a reader that has     *)
(* read ahead may step back to the place it marked.                        *)
(***************************************************************************)
EXTENDS Integers, Sequences

CONSTANT
  CAPACITY      (* fewer than this many bytes are unread at any time        *)

VARIABLES
  contents,     (* the unread bytes, oldest first                           *)
  isMarked,     (* has the reader marked its place                          *)
  marked,       (* the unread bytes at the mark, << >> when there is none   *)
  io            (* the last operation and the bytes it was given or gave    *)

vars == <<contents, isMarked, marked, io>>

Init ==
  /\ contents = << >>
  /\ isMarked = FALSE
  /\ marked = << >>
  /\ io = [op |-> "none", bytes |-> << >>]

Put ==
  /\ ~isMarked
  /\ io'.op = "put"
  /\ Len(contents) + Len(io'.bytes) < CAPACITY
  /\ contents' = contents \o io'.bytes
  /\ UNCHANGED <<isMarked, marked>>

Refuse ==
  /\ io'.op = "refused"
  /\ Len(contents) + Len(io'.bytes) >= CAPACITY
  /\ UNCHANGED <<contents, isMarked, marked>>

Take ==
  /\ io'.op = "take"
  /\ contents = io'.bytes \o contents'
  /\ UNCHANGED <<isMarked, marked>>

Look ==
  /\ io'.op = "look"
  /\ Len(io'.bytes) <= Len(contents)
  /\ io'.bytes = SubSeq(contents, 1, Len(io'.bytes))
  /\ UNCHANGED <<contents, isMarked, marked>>

Mark ==
  /\ ~isMarked
  /\ isMarked' = TRUE
  /\ marked' = contents
  /\ UNCHANGED <<contents, io>>

Commit ==
  /\ isMarked
  /\ isMarked' = FALSE
  /\ marked' = << >>
  /\ UNCHANGED <<contents, io>>

Rewind ==
  /\ isMarked
  /\ contents' = marked
  /\ isMarked' = FALSE
  /\ marked' = << >>
  /\ UNCHANGED io

Clear ==
  /\ contents' = << >>
  /\ isMarked' = FALSE
  /\ marked' = << >>
  /\ UNCHANGED io

Next == Put \/ Refuse \/ Take \/ Look \/ Mark \/ Commit \/ Rewind \/ Clear

Spec == Init /\ [][Next]_vars

=============================================================================
