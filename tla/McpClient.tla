----------------------------- MODULE McpClient ------------------------------
(***************************************************************************)
(* Programs on the CPC that send the MCP server a command and read its     *)
(* answer, one after the other, over the card and byte by byte.            *)
(*                                                                         *)
(* The C clients (cpc_c) reset the card, send their command without        *)
(* looking whether the FIFO took each byte, read one answer and end.  The  *)
(* BASIC programs (cpc_asm, with mcplib.s) wait until each byte is through,*)
(* and the terminal sends further commands without a reset.  Any program   *)
(* may be broken off by the user, who starts the next.  The server knows   *)
(* nothing of that: it goes on with what is in its queues.                 *)
(*                                                                         *)
(* The n-th command has the n-th letter for a name, so that commands and   *)
(* answers can be told apart.  in_queue is the sequence of its unread      *)
(* bytes: that the ring is no more and no less is QueueUse's matter, and   *)
(* what packet.c does to it is worked out on a ring that holds them.       *)
(***************************************************************************)
EXTENDS FifoCard, Packets, FiniteSets

CONSTANTS
  CLIENT,       (* the kinds of programs: length of the command's name, and *)
                (* whether the program waits for room in the FIFO           *)
  MaxCommands   (* bound: commands sent in a behaviour                      *)

ASSUME ClientAssumption ==
  CLIENT \subseteq [name : 1 .. MAX_COMMAND_NAME_LENGTH - 1, waits : BOOLEAN]
(* The bytes of commands and of answers are bytes.                          *)
ASSUME SentBytesAssumption ==
  /\ {Newline, Plus, Minus} \subseteq BYTE
  /\ 0 .. MAX_COMMAND_NAME_LENGTH + 3 \subseteq BYTE
  /\ 65 .. 64 + MaxCommands \subseteq BYTE
ASSUME BoundAssumption ==
  /\ MaxCommands \in Nat
  /\ QUEUE_SIZE > MaxCommands * (MAX_COMMAND_NAME_LENGTH + 9)

VARIABLES
  in_queue,     (* the bytes the server has taken and not read yet          *)
  out_queue,    (* the bytes it has to send                                 *)
  commands,     (* commands the programs have begun to send                 *)
  doing,        (* "off", "send", "receive", "done" or "failed"             *)
  waits,        (* does the program wait for room in the FIFO               *)
  to_send,      (* bytes of its command it is still to send                 *)
  missed,       (* has the FIFO not taken a byte of it                      *)
  got,          (* the bytes of an answer so far                            *)
  whole,        (* commands of which every byte has come to in_queue        *)
  served,       (* commands the server has carried out                      *)
  accepted      (* answers the programs took for good                       *)

queueVars   == <<in_queue, out_queue>>
clientVars  == <<commands, doing, waits, to_send, missed, got>>
historyVars == <<whole, served, accepted>>
vars == <<cardVars, queueVars, clientVars, historyVars>>

Letter(n) == 64 + n
Number(letter) == letter - 64

CommandBytes(n, name) ==
  PacketOf(Text, [i \in 1 .. name |-> Letter(n)] \o <<Newline>>)

Init ==
  /\ up = << >> /\ down = << >>
  /\ in_queue = << >> /\ out_queue = << >>
  /\ commands = 0 /\ doing = "off"
  /\ waits = FALSE /\ to_send = << >> /\ missed = FALSE /\ got = << >>
  /\ whole = << >> /\ served = << >> /\ accepted = << >>

-----------------------------------------------------------------------------
(* The programs. *)

(* Bound: the last command only shows what those before it have left.  It   *)
(* is sent by a program that waits.                                         *)
LastWaits(client) == commands + 1 = MaxCommands => client.waits

Begin(client) ==
  /\ commands < MaxCommands /\ LastWaits(client)
  /\ commands' = commands + 1
  /\ to_send' = CommandBytes(commands + 1, client.name)
  /\ doing' = "send"
  /\ waits' = client.waits
  /\ missed' = FALSE /\ got' = << >>
  /\ UNCHANGED <<queueVars, historyVars>>

(* A program is run, whatever became of the one before it: fifo_reset,      *)
(* |FIFORST.                                                                *)
Start(client) == Begin(client) /\ CardReset

(* The terminal asks for the next command, when all went well with the last.*)
Again(client) ==
  /\ doing = "done" /\ waits /\ client.waits
  /\ Begin(client)
  /\ UNCHANGED cardVars

(* With each byte goes a mark that nobody sees: the command that is whole   *)
(* when the byte arrives, or 0.                                             *)
Shift(byte) ==
  up' = ShiftedIn(up, [byte |-> byte,
                       ends |-> IF Len(to_send) = 1 /\ ~missed THEN commands ELSE 0])

(* SendByte of mcplib.s tries again until the FIFO has room, the C clients  *)
(* ignore what fifo_out_byte returns.                                       *)
SendByte ==
  /\ doing = "send"
  /\ waits => InputReady(up)
  /\ Shift(Head(to_send))
  /\ missed' = (missed \/ ~InputReady(up))
  /\ to_send' = Tail(to_send)
  /\ doing' = IF Len(to_send) = 1 THEN "receive" ELSE "send"
  /\ UNCHANGED <<down, queueVars, commands, waits, got, historyVars>>

(* The six bytes in front of an answer. *)
HeaderIsGood(bytes) ==
  SubSeq(bytes, 1, 3) = <<Plus, Plus, Plus>> /\ bytes[6] = Text

(* Six bytes, the payload, and three bytes that are not looked at.          *)
AnswerLength(bytes) == bytes[4] + 256 * bytes[5] + 6

(* read_response_from_pi, ReceivePacket: with a header that is not one the  *)
(* program gives up and leaves the rest where it is.                        *)
ReceiveByte ==
  /\ doing = "receive"
  /\ OutputReady(down)
  /\ down' = ShiftedOut(down)
  /\ LET bytes == Append(got, Output(down)) IN
       IF Len(bytes) = 6 /\ ~HeaderIsGood(bytes)
         THEN doing' = "failed" /\ got' = << >> /\ UNCHANGED accepted
       ELSE IF Len(bytes) > 6 /\ Len(bytes) = AnswerLength(bytes)
         THEN /\ doing' = "done" /\ got' = << >>
              /\ accepted' = Append(accepted, [by |-> commands,
                                               answer |-> Number(bytes[7])])
       ELSE got' = bytes /\ UNCHANGED <<doing, accepted>>
  /\ UNCHANGED <<up, queueVars, commands, waits, to_send, missed, whole, served>>

Client == SendByte \/ ReceiveByte

-----------------------------------------------------------------------------
(* The server. *)

ReadByte ==
  /\ OutputReady(up)
  /\ in_queue' = Append(in_queue, Output(up).byte)
  /\ up' = ShiftedOut(up)
  /\ whole' = IF Output(up).ends = 0 THEN whole ELSE Append(whole, Output(up).ends)
  /\ UNCHANGED <<down, out_queue, clientVars, served, accepted>>

(* faulty variant: the byte is written whether the FIFO has room or not *)
WriteByteBlindly ==
  /\ out_queue # << >>
  /\ down' = ShiftedIn(down, Head(out_queue))
  /\ out_queue' = Tail(out_queue)
  /\ UNCHANGED <<up, in_queue, clientVars, historyVars>>

WriteByte ==
  /\ out_queue # << >>
  /\ InputReady(down)
  /\ down' = ShiftedIn(down, Head(out_queue))
  /\ out_queue' = Tail(out_queue)
  /\ UNCHANGED <<up, in_queue, clientVars, historyVars>>

Ring(bytes) == StoreBytes(InitQueue, bytes)

(* The loop looks for a packet, having skipped to q. *)
NoPacket(q) ==
  /\ ~Arrived(q)
  /\ in_queue' = Unread(q)
  /\ UNCHANGED <<out_queue, served>>

DiscardPacket(q) ==
  /\ Arrived(q) /\ ~WellFormed(q)
  /\ in_queue' = Unread(IncrementRead(q, PacketSize(q) + 6))
  /\ UNCHANGED <<out_queue, served>>

(* A command whose handler answers with one packet, like PING.  No program  *)
(* here sends a packet of another type or a name that is not one, and what  *)
(* the server makes of those is McpInput's matter.                          *)
Serve(q) ==
  /\ Packet(q, Text)
  /\ LET command == CommandText(q)
         letter  == command.name[1]
     IN  /\ command.complete
         /\ in_queue' = Unread(SkipTerminator(command.queue))
         /\ served' = Append(served, Number(letter))
         /\ out_queue' = out_queue \o PacketOf(Text, <<letter>>)

CheckPacket ==
  /\ in_queue # << >>
  /\ \E ring \in {Ring(in_queue)} : \E q \in {SkipToNextPacket(ring)} :
       NoPacket(q) \/ DiscardPacket(q) \/ Serve(q)
  /\ UNCHANGED <<cardVars, clientVars, whole, accepted>>

Next ==
  \/ \E client \in CLIENT : Start(client) \/ Again(client)
  \/ Client \/ ReadByte \/ WriteByte \/ CheckPacket

(* As long as the program or the server can do something, one of them does. *)
Spec == Init /\ [][Next]_vars /\ WF_vars(Client \/ ReadByte \/ WriteByte \/ CheckPacket)

-----------------------------------------------------------------------------

Increasing(s) == \A i, j \in DOMAIN s : i < j => s[i] < s[j]

TypeOK ==
  /\ Len(up) <= DEPTH /\ Len(down) <= DEPTH
  /\ in_queue \in Seq(BYTE) /\ Len(in_queue) < QUEUE_SIZE /\ out_queue \in Seq(BYTE)
  /\ commands \in 0 .. MaxCommands
  /\ doing \in {"off", "send", "receive", "done", "failed"}
  /\ waits \in BOOLEAN /\ missed \in BOOLEAN
  /\ to_send \in Seq(BYTE) /\ got \in Seq(BYTE)
  /\ whole \in Seq(1 .. commands) /\ served \in Seq(Int)

(* Wherever a program is broken off and whichever bytes of a command do not *)
(* fit the FIFO, the server never pieces a command together from what has   *)
(* come: what it carries out is a command that came whole, once and in      *)
(* order.                                                                   *)
ServedWasSent == Increasing(served) /\ Range(served) \subseteq Range(whole)

(* What a program takes for an answer is one: the answer to a command that  *)
(* was carried out, the same never twice, and never one older than the last,*)
(* although resets cut answers off anywhere.                                *)
AcceptedIsWhole ==
  LET answers == [i \in DOMAIN accepted |-> accepted[i].answer] IN
  /\ Increasing(answers) /\ Range(answers) \subseteq Range(served)
  /\ \A i \in DOMAIN accepted : accepted[i].answer <= accepted[i].by

(* The server takes the packet at hand to be longer than any is: the bytes  *)
(* of its size are not the ones that were sent.  It then waits for some     *)
(* thousand bytes and does not see the commands among them.                 *)
WaitsForTooMuch ==
  LET q == SkipToNextPacket(Ring(in_queue)) IN
  NumberToRead(q) >= 5 /\ PacketSize(q) > QUEUE_SIZE

(* Nothing more that has come will be carried out.                          *)
Settled == up = << >> /\ ~Arrived(SkipToNextPacket(Ring(in_queue)))

(* Commands that were broken off or lost bytes. *)
CutShort == (1 .. commands) \ (Range(whole) \cup
              {n \in {commands} : doing = "send" \/ up # << >>})

(* A command that did not come whole costs no more than itself and the      *)
(* command after it, wherever it was cut, unless the cut is before its size.*)
ACutCostsOneMore ==
  Settled /\ ~WaitsForTooMuch =>
    Len(whole) - Len(served) <= Cardinality(CutShort)

(* A program is about to send its command, and nothing of earlier ones is   *)
(* under way.                                                               *)
Fresh ==
  /\ doing = "send"
  /\ \E client \in CLIENT : to_send = CommandBytes(commands, client.name)
  /\ in_queue = << >> /\ out_queue = << >>
  /\ up = << >> /\ down = << >>

FitsOrWaits == waits \/ Len(to_send) <= DEPTH

(* A program that begins with nothing left over from earlier ones gets the  *)
(* answer to its own command, if the FIFO takes its bytes and nobody breaks *)
(* it off.                                                                  *)
FreshProgramIsAnswered ==
  \A n \in 1 .. MaxCommands :
    commands = n /\ Fresh /\ FitsOrWaits
      ~> \/ commands > n
         \/ doing = "done" /\ accepted[Len(accepted)] = [by |-> n, answer |-> n]

=============================================================================
