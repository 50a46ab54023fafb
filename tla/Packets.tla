------------------------------ MODULE Packets -------------------------------
(***************************************************************************)
(* What packet.c and get_command_text of command.c do to a queue, as       *)
(* operators: where a packet starts, whether it has come and is well       *)
(* formed, and the name of the text command in it.  A packet is            *)
(*     + + + size_low size_high type payload - - -                         *)
(* where the size counts the bytes between the two delimiters.             *)
(***************************************************************************)
EXTENDS Queue, SequencesExt

CONSTANT
  MAX_COMMAND_NAME_LENGTH   (* 30 in mcp_pi.h                               *)

ASSUME NameLengthAssumption == MAX_COMMAND_NAME_LENGTH \in Nat \ {0}
(* Two of the bytes are a packet's size.                                    *)
ASSUME NumbersAssumption == BYTE \subseteq Nat

Plus == 43
Minus == 45
Newline == 10
Space == 32

Text == 1
BinaryCommand == 2
BinaryData == 3
GraphicDirectives == 4
PacketTypes == {Text, BinaryCommand, BinaryData, GraphicDirectives}

(* write_data_to_packet, and the senders on the CPC.  No packet of the      *)
(* models is so long that its size needs the second byte.                   *)
PacketOf(type, payload) ==
  <<Plus, Plus, Plus, Len(payload) + 3, 0, type>> \o payload
    \o <<Minus, Minus, Minus>>

-----------------------------------------------------------------------------
(* Finding a packet. *)

Least(S) == CHOOSE i \in S : \A j \in S : i <= j

(* Where "+++" lies among the unread bytes. *)
PacketStarts(q) ==
  {i \in 0 .. NumberToRead(q) - 3 :
     \A k \in 0 .. 2 : ReadAhead(q, i + k) = Plus}

(* faulty variant: with no "+++" one byte remains *)
SkipToNextPacketLeavingOne(q) ==
  LET starts == PacketStarts(q) IN
  IF starts # {} THEN IncrementRead(q, Least(starts))
  ELSE IF NumberToRead(q) >= 3 THEN IncrementRead(q, NumberToRead(q) - 1)
  ELSE q

(* queue_skip_to_next_packet: with no "+++" two bytes remain, which may be  *)
(* the beginning of one.                                                    *)
SkipToNextPacket(q) ==
  LET starts == PacketStarts(q) IN
  IF starts # {} THEN IncrementRead(q, Least(starts))
  ELSE IF NumberToRead(q) >= 3 THEN IncrementRead(q, NumberToRead(q) - 2)
  ELSE q

(* faulty variant: an unterminated packet is skipped by the length of a     *)
(* terminator, whatever comes next                                          *)
SkipTerminatorBlindly(q) == IncrementRead(q, 3)

SkipTerminator(q) ==
  IF NumberToRead(q) >= 3 /\ Peek(q, 3) = <<Minus, Minus, Minus>>
    THEN IncrementRead(q, 3)
    ELSE q

PacketSize(q) == ReadAhead(q, 3) + 256 * ReadAhead(q, 4)
PacketType(q) == ReadAhead(q, 5)

(* faulty variant: the "+++" and "---" are taken to be part of the size     *)
(* already and added again                                                  *)
ArrivedAndMore(q) ==
  /\ NumberToRead(q) >= 6
  /\ Peek(q, 3) = <<Plus, Plus, Plus>>
  /\ NumberToRead(q) >= PacketSize(q) + 9

(* A "+++" is at hand and all of its packet has come, going by its size.    *)
Arrived(q) ==
  /\ NumberToRead(q) >= 6
  /\ Peek(q, 3) = <<Plus, Plus, Plus>>
  /\ NumberToRead(q) >= PacketSize(q) + 6

(* faulty variant: the terminator is not looked at *)
WellFormedByType(q) == PacketType(q) \in PacketTypes

WellFormed(q) ==
  /\ PacketType(q) \in PacketTypes
  /\ \A k \in 0 .. 2 : ReadAhead(q, 3 + PacketSize(q) + k) = Minus

Packet(q, type) == Arrived(q) /\ WellFormed(q) /\ PacketType(q) = type

-----------------------------------------------------------------------------
(* Text commands. *)

(* get_command_text: the name up to a space or a newline, the queue after   *)
(* it, and whether there is a name.  The end is looked for in one byte more *)
(* than the body has.  If that makes the name too long, the way to the end  *)
(* of the body is one step back, which from slot 0 leads to -1.             *)
CommandText(q) ==
  LET body == PacketSize(q) - 3
      p    == IncrementRead(q, 6)
      ends == {i \in 1 .. body : /\ i < MAX_COMMAND_NAME_LENGTH
                                 /\ ReadAhead(p, i) \in {Space, Newline}}
      tried == IF body + 1 < MAX_COMMAND_NAME_LENGTH THEN body + 1
                                                     ELSE MAX_COMMAND_NAME_LENGTH
      none(after) == [queue |-> after, complete |-> FALSE, name |-> << >>]
  IN  IF CurrentByte(p) = Newline \/ body = 1 THEN none(IncrementRead(p, 1))
      ELSE IF body = 0 THEN none(p)
      ELSE IF ends # {}
        THEN [queue |-> IncrementRead(p, Least(ends) + 1), complete |-> TRUE,
              name |-> Peek(p, Least(ends))]
      ELSE IF tried = MAX_COMMAND_NAME_LENGTH
        THEN none(IncrementRead(IncrementRead(p, tried), body - tried))
      ELSE none(IncrementRead(p, tried))

=============================================================================
