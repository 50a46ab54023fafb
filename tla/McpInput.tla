------------------------------ MODULE McpInput ------------------------------
(***************************************************************************)
(* How the MCP server reads the commands in the packets it finds in        *)
(* in_queue (Packets): the parameter functions of command.c and the        *)
(* handlers that take their parameters from the queue.  The bytes come one *)
(* at a time and the loop may look at the queue after each of them.        *)
(*                                                                         *)
(* The commands have names of one letter: P (PING), H (HELP), S            *)
(* (SHELLEXEC) and F for PUTFILE, whose help is still to be written.       *)
(***************************************************************************)
EXTENDS Packets

CONSTANTS
  MAX_SHELL_LINE_LENGTH,    (* longest line of SHELLEXEC                    *)
  RING_START,   (* the slots of an empty ring the bytes may start from      *)
  ITEM,         (* what a client may send: the bytes and what they mean     *)
  MaxItems      (* bound: items sent in a behaviour                         *)

ASSUME LengthAssumption ==
  /\ MAX_SHELL_LINE_LENGTH \in Nat \ {0}
  /\ RING_START \subseteq Index
  /\ MaxItems \in Nat

PING == <<80>>
HELP == <<72>>
SHELLEXEC == <<83>>
PUTFILE == <<70>>

PingID == 1
StoreAllocID == 24
InsertAllocID == 25

-----------------------------------------------------------------------------
(* What bytes mean, read as a sequence b.                                   *)

(* Between the two places no "+++" begins, whatever comes after them.       *)
Harmless(b, from, to) ==
  \A p \in from + 1 .. to :
    b[p] = Plus => \E j \in {p + 1, p + 2} : j <= to /\ b[j] # Plus

SizeIn(b) == b[4] + 256 * b[5]

(* As many bytes as the size says, after "+++". *)
Delimited(b) ==
  /\ Len(b) >= 6
  /\ \A p \in 1 .. 3 : b[p] = Plus
  /\ Len(b) = SizeIn(b) + 6

Terminated(b) == \A p \in Len(b) - 2 .. Len(b) : b[p] = Minus

IsPacket(b, type) ==
  Delimited(b) /\ Terminated(b) /\ Len(b) >= 9 /\ b[6] = type

Malformed(b) == Delimited(b) /\ (b[6] \notin PacketTypes \/ ~Terminated(b))

(* Where the name of a text command may end. *)
NameEnds(b) ==
  {p \in 8 .. Len(b) - 3 :
     p <= MAX_COMMAND_NAME_LENGTH + 6 /\ b[p] \in {Space, Newline}}

NameEnd(b) == Least(NameEnds(b))

HasName(b) == b[7] # Newline /\ NameEnds(b) # {}

MeaningOf(name) ==
  IF name = PING THEN "ping"
  ELSE IF name = HELP THEN "help"
  ELSE IF name = SHELLEXEC THEN "shellexec"
  ELSE "unknown"

TextMeaning(b) ==
  IF HasName(b) THEN MeaningOf(SubSeq(b, 7, NameEnd(b) - 1)) ELSE "bad"

(* A handler that reads parameters finds their newline in the packet, and   *)
(* in parameters that none reads there is no "+++".                         *)
IsTextCommand(b) ==
  /\ IsPacket(b, Text)
  /\ Harmless(b, 6, Len(b))
  /\ HasName(b) /\ TextMeaning(b) \in {"help", "shellexec"} =>
       \E p \in NameEnd(b) .. Len(b) - 3 : b[p] = Newline

IsBinaryPing(b) ==
  /\ IsPacket(b, BinaryCommand)
  /\ Len(b) > 9 /\ b[7] = PingID
  /\ Harmless(b, 6, Len(b))

(* A command of n bytes with the data it is not to take.  No "+++" begins   *)
(* in the data but at their first byte.                                     *)
IsRefused(b, id, n) ==
  /\ Len(b) > n
  /\ IsPacket(SubSeq(b, 1, n), BinaryCommand)
  /\ b[7] = id
  /\ Harmless(b, n + 1, Len(b))

Means(b, means) ==
  \/ Harmless(b, 0, Len(b)) /\ means = << >>
  \/ Malformed(b) /\ means = << >>
  \/ (IsPacket(b, BinaryData) \/ IsPacket(b, GraphicDirectives)) /\ means = << >>
  \/ IsTextCommand(b) /\ means = <<TextMeaning(b)>>
  \/ IsBinaryPing(b) /\ means = <<"ping">>
  \/ IsRefused(b, StoreAllocID, 13) /\ means = <<"salloc">>
  \/ IsRefused(b, InsertAllocID, 19) /\ means = <<"ialloc">>

ASSUME ItemAssumption ==
  \A item \in ITEM : item.bytes \in Seq(BYTE) /\ Means(item.bytes, item.means)

-----------------------------------------------------------------------------

VARIABLES
  in_queue,
  coming,       (* bytes the client sends, not yet in in_queue              *)
  sent,         (* how many items the client has sent                       *)
  expected,     (* the commands among them, in order                        *)
  served,       (* the commands the server has taken up                     *)
  help_waits,   (* a HELP that did not complete is in command_states        *)
  strayed       (* a handler has read where its bytes need not be; what     *)
                (* becomes of the server then is not followed               *)

vars == <<in_queue, coming, sent, expected, served, help_waits, strayed>>

(* Bytes long gone have brought the ring to a start. *)
Init ==
  /\ \E i \in RING_START :
       in_queue = [InitQueue EXCEPT !.read = i, !.store = i]
  /\ coming = << >> /\ sent = 0 /\ expected = << >>
  /\ served = << >>
  /\ help_waits = FALSE
  /\ strayed = FALSE

(* The client sends its next item when the last one is on its way. *)
Send(item) ==
  /\ ~strayed
  /\ sent < MaxItems
  /\ coming = << >>
  /\ sent' = sent + 1
  /\ coming' = item.bytes
  /\ expected' = expected \o item.means
  /\ UNCHANGED <<in_queue, served, help_waits, strayed>>

(* The main loop stores a byte.  The client does not fill the ring to its   *)
(* last slot (see QueueUse).                                                *)
ReadByte ==
  /\ ~strayed
  /\ coming # << >>
  /\ NumberFree(in_queue) > 0
  /\ NumberToRead(in_queue) + 1 # QUEUE_SIZE
  /\ in_queue' = StoreBytes(in_queue, <<Head(coming)>>)
  /\ coming' = Tail(coming)
  /\ UNCHANGED <<sent, expected, served, help_waits, strayed>>

-----------------------------------------------------------------------------
(* Packets. *)

(* is_complete_packet_available has skipped to q.                           *)
NoPacket(q) ==
  /\ ~Arrived(q)
  /\ in_queue' = q
  /\ UNCHANGED <<coming, sent, expected, served, help_waits, strayed>>

DiscardPacket(q) ==
  /\ Arrived(q)
  /\ ~WellFormed(q)
  /\ in_queue' = IncrementRead(q, PacketSize(q) + 6)
  /\ UNCHANGED <<coming, sent, expected, served, help_waits, strayed>>

(* BinaryData and GraphicDirectives stay where they are. *)
IgnorePacket(q) ==
  /\ Packet(q, BinaryData) \/ Packet(q, GraphicDirectives)
  /\ in_queue' = q
  /\ UNCHANGED <<coming, sent, expected, served, help_waits, strayed>>

-----------------------------------------------------------------------------
(* Text commands. *)

(* get_command_next_param_text, for a parameter that a newline ends.        *)
ParamText(q) ==
  LET ends == {i \in 0 .. MAX_COMMAND_NAME_LENGTH :
                 ReadAhead(q, i) \in {Space, Newline}}
      n == IF ends = {} THEN MAX_COMMAND_NAME_LENGTH ELSE Least(ends)
  IN  IF ReadAhead(q, n) = Newline
        THEN [queue |-> IncrementRead(q, n + 1), found |-> TRUE, text |-> Peek(q, n)]
        ELSE [queue |-> IncrementRead(q, n), found |-> FALSE, text |-> << >>]

(* The queue after get_all_command_params_text. *)
AfterAllParams(q) ==
  LET ends == {i \in 0 .. MAX_SHELL_LINE_LENGTH : ReadAhead(q, i) = Newline}
  IN  IF ends = {} THEN IncrementRead(q, MAX_SHELL_LINE_LENGTH)
                   ELSE IncrementRead(q, Least(ends) + 1)

(* faulty variant: a parameter is read whether there is one or not *)
CommandHelpOfTopic(q) ==
  [queue |-> ParamText(q).queue, complete |-> TRUE]

(* command_help: the queue after it and whether it is complete, which it is *)
(* not when the help asked for is still to be written.                      *)
CommandHelp(q) ==
  IF PreviousByte(q) = Newline
    THEN [queue |-> q, complete |-> TRUE]
    ELSE LET topic == ParamText(q) IN
         [queue    |-> topic.queue,
          complete |-> ~(topic.found /\ topic.text = PUTFILE)]

(* The queue after its packet's terminator has been skipped.  From -1 it is *)
(* looked for in the byte before the array, which may be any, and in the    *)
(* first two slots, where its last two bytes are.                           *)
PastTerminator(q) ==
  IF q.read \in Index THEN {SkipTerminator(q)} ELSE {q, IncrementRead(q, 3)}

(* The handler leaves the queue at "after". *)
Serve(what, after) ==
  /\ \E q \in {after} : in_queue' \in PastTerminator(q)
  /\ served' = Append(served, what)
  /\ UNCHANGED <<coming, sent, expected>>

BadCommand(command) ==
  /\ ~command.complete
  /\ Serve("bad", command.queue)
  /\ UNCHANGED <<help_waits, strayed>>

Ping(command) ==
  /\ command.complete /\ command.name = PING
  /\ Serve("ping", command.queue)
  /\ UNCHANGED <<help_waits, strayed>>

Help(command) ==
  /\ command.complete /\ command.name = HELP
  /\ LET help == CommandHelp(command.queue) IN
       /\ Serve("help", help.queue)
       /\ help_waits' = (help_waits \/ ~help.complete)
  /\ UNCHANGED strayed

(* The shell's own doings are left out; SHELLEXEC without a parameter finds *)
(* the newline already read.                                                *)
ShellExec(command) ==
  /\ command.complete /\ command.name = SHELLEXEC
  /\ Serve("shellexec", AfterAllParams(command.queue))
  /\ strayed' = (PreviousByte(command.queue) = Newline)
  /\ UNCHANGED help_waits

(* command_unknown leaves the parameters unread. *)
UnknownCommand(command) ==
  /\ command.complete /\ command.name \notin {PING, HELP, SHELLEXEC}
  /\ Serve("unknown", command.queue)
  /\ UNCHANGED <<help_waits, strayed>>

TextCommand(q) ==
  /\ Packet(q, Text)
  /\ \E command \in {CommandText(q)} :
       \/ BadCommand(command) \/ Ping(command) \/ Help(command)
       \/ ShellExec(command) \/ UnknownCommand(command)

-----------------------------------------------------------------------------
(* Binary commands: the ID is the first byte of the payload.  PING stands   *)
(* for all that have no parameters, SALLOC and IALLOC are here for their    *)
(* data.  ItemAssumption has no other IDs: those with parameters only would *)
(* read them as these do, and one that is beyond command_defs, which the    *)
(* code does not look for, is left out.                                     *)

BinaryPing(id, after) ==
  /\ id = PingID
  /\ Serve("ping", after)
  /\ UNCHANGED <<help_waits, strayed>>

(* SALLOC for an allocation there is not, IALLOC beyond the end of one:     *)
(* past the parameters and the terminator, the BinaryData "aimed at this    *)
(* command" is skipped, come or not.                                        *)
Refused(what, params) ==
  LET data == SkipTerminator(params) IN
  /\ Serve(what, SkipToNextPacket(IncrementRead(data, 1)))
  /\ strayed' = (NumberToRead(data) = 0)
  /\ UNCHANGED help_waits

(* The parameters: an allocation and a page of two bytes. *)
StoreRefused(id, after) ==
  /\ id = StoreAllocID
  /\ Refused("salloc", IncrementRead(after, 3))

(* The parameters: an allocation, a place and a length of four bytes each.  *)
InsertRefused(id, after) ==
  /\ id = InsertAllocID
  /\ Refused("ialloc", IncrementRead(after, 9))

BinaryCommandPacket(q) ==
  /\ Packet(q, BinaryCommand)
  /\ \/ BinaryPing(ReadAhead(q, 6), IncrementRead(q, 7))
     \/ StoreRefused(ReadAhead(q, 6), IncrementRead(q, 7))
     \/ InsertRefused(ReadAhead(q, 6), IncrementRead(q, 7))

-----------------------------------------------------------------------------

(* What command_help makes of a queue at -1, where it reads bytes that are  *)
(* not of the array.                                                        *)
HelpOutside(q) ==
  [queue    : {IncrementRead(q, n) : n \in 0 .. MAX_COMMAND_NAME_LENGTH + 1},
   complete : {TRUE}]

(* tick_command runs a HELP that did not complete again, on whatever is in  *)
(* in_queue now.                                                            *)
TickHelp ==
  /\ ~strayed
  /\ help_waits
  /\ \E help \in IF in_queue.read \in Index THEN {CommandHelp(in_queue)}
                                            ELSE HelpOutside(in_queue) :
       /\ in_queue' = help.queue
       /\ help_waits' = ~help.complete
  /\ strayed' = TRUE
  /\ UNCHANGED <<coming, sent, expected, served>>

(* queue_skip_to_next_packet steps over the byte at -1: what follows is the *)
(* rest of a terminator.                                                    *)
Onward(q) == IF q.read \in Index THEN q ELSE IncrementRead(q, 1)

CheckPacket ==
  /\ ~strayed
  /\ \E from \in {Onward(in_queue)} : \E q \in {SkipToNextPacket(from)} :
       \/ NoPacket(q) \/ DiscardPacket(q) \/ IgnorePacket(q)
       \/ TextCommand(q) \/ BinaryCommandPacket(q)

Next ==
  \/ \E item \in ITEM : Send(item)
  \/ ReadByte \/ CheckPacket \/ TickHelp

(* What the client has begun to send comes, and the loop goes on looking.   *)
Spec == Init /\ [][Next]_vars /\ WF_vars(ReadByte) /\ WF_vars(CheckPacket)

-----------------------------------------------------------------------------

(* The read index is one before the ring, with the last two bytes of a      *)
(* terminator behind it.                                                    *)
OneBefore(q) ==
  /\ q \in [data : [Index -> BYTE], store : Index, read : {-1}]
  /\ NumberToRead(q) >= 3 /\ q.data[0] = Minus /\ q.data[1] = Minus

(* The way back of get_command_text may take the read index to -1; nothing  *)
(* else takes an index out of the ring.                                     *)
TypeOK ==
  /\ in_queue \in Queues \/ OneBefore(in_queue)
  /\ coming \in Seq(BYTE) /\ sent \in 0 .. MaxItems
  /\ help_waits \in BOOLEAN /\ strayed \in BOOLEAN

(* Noise between packets, packets without a proper type or terminator, and  *)
(* parameters nobody reads are passed over, wherever the server is when it  *)
(* looks: it takes up the commands that were sent, each once and in order.  *)
ServesWhatWasSent == strayed \/ IsPrefix(served, expected)

(* Between two bytes from the client the server moves forward only, and a   *)
(* command it has taken up lies behind it.                                  *)
MovesForward ==
  coming' = coming =>
    /\ NumberToRead(in_queue') <= NumberToRead(in_queue)
    /\ served' # served => NumberToRead(in_queue') < NumberToRead(in_queue)

(* The server does not read what has not come.                              *)
ReadsWhatHasCome == [][MovesForward]_vars

(* ... except where a handler looks for bytes that need not be there.       *)
StraysOnlyWhereKnown == [][MovesForward \/ strayed']_vars

(* Every command is taken up in the end, unless BinaryData or graphics that *)
(* no command asked for come first.                                         *)
EveryCommandIsServed ==
  []<>(strayed \/ served = expected
         \/ \E q \in {Onward(in_queue)} :
              Packet(q, BinaryData) \/ Packet(q, GraphicDirectives))

=============================================================================
