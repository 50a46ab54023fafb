------------------------------ MODULE McpLoop ------------------------------
(***************************************************************************)
(* The main loop of the MCP server (mcp_pi.c) with its command processor   *)
(* (command_processor.c), the card's two FIFOs and one client.  Packets    *)
(* keep their real sizes in bytes, but not their bytes: each queue is the  *)
(* sequence of packets whose bytes are under way and the number of bytes   *)
(* that have got so far.  The loop and the client interleave at every      *)
(* byte.                                                                   *)
(*                                                                         *)
(* The commands: PING, a malformed text command ("bad"), SHUTDOWN (two     *)
(* stages), RESET, RALLOC (an answer of two packets, the second a page),   *)
(* SALLOC and IALLOC (the command packet is followed by a BinaryData       *)
(* packet), and GETFILE for the file commands that are still to be written.*)
(***************************************************************************)
EXTENDS Integers, Sequences, SequencesExt, SeqSums

CONSTANTS
  COMMAND,              (* the commands the client sends                    *)
  VALUE,                (* the contents of a page                           *)
  NoPage,
  PAGE_SIZE,            (* bytes in the page                                *)
  DATA_SIZE,            (* bytes of BinaryData the client sends             *)
  INSERT_SIZE,          (* bytes it says it inserts                         *)
  OUT_SIZE,             (* slots of out_queue                               *)
  FIFO_DEPTH,           (* bytes in each FIFO of the card: 16               *)
  MAX_COMMAND_STATES,   (* 20 in command_processor.h                        *)
  MAX_COMMAND_WAIT,     (* 20 in mcp_pi.h                                   *)
  MAX_TICK_WAIT,        (* 100 in mcp_pi.h                                  *)
  WINDOW,               (* requests the client keeps open                   *)
  WaitsForPage,         (* does it wait for the page before a next request  *)
  MaxRequests           (* bound: requests in a behaviour                   *)

Commands ==
  {"ping", "bad", "shutdown", "reset", "ralloc", "salloc", "ialloc", "getfile"}

ASSUME CommandAssumption == COMMAND \subseteq Commands
ASSUME SizeAssumption ==
  /\ PAGE_SIZE \in Nat \ {0} /\ DATA_SIZE \subseteq Nat \ {0}
  /\ INSERT_SIZE \subseteq Nat \ {0}
  /\ OUT_SIZE \in Nat \ {0} /\ FIFO_DEPTH \in Nat \ {0}
  /\ MAX_COMMAND_STATES \in Nat \ {0}
  /\ MAX_COMMAND_WAIT \in Nat /\ MAX_TICK_WAIT \in Nat
  /\ WINDOW \in Nat \ {0} /\ MaxRequests \in Nat
  /\ WaitsForPage \in BOOLEAN
ASSUME ValueAssumption == NoPage \notin VALUE

PACKET_OVERHEAD == 9
REAR_DELIMITER_OVERHEAD == 3

(* "wants" is, with a command that stores, the number of bytes it stores.   *)
Packet(what, payload, val, wants) ==
  [what |-> what, size |-> payload + PACKET_OVERHEAD, val |-> val, wants |-> wants]

VARIABLES
  stream,                     (* packets from the read index of in_queue on *)
  in_bytes,                   (* bytes unread in in_queue                   *)
  up,                         (* bytes in the card's FIFO to the Pi         *)
  out,                        (* packets the client has not had whole       *)
  out_bytes,                  (* bytes unread in out_queue                  *)
  down,                       (* bytes in the card's FIFO to the client     *)
  binary_data_receive_mode,
  binary_data_send_mode,
  command_states,             (* the table of commands with a next stage    *)
  page,                       (* the allocation the commands use, or NoPage *)
  halting,                    (* has SHUTDOWN run its second stage          *)
  packet_check_counter,
  tick_check_counter,
  pc,                         (* where the loop is                          *)
  open,                       (* requests sent and not answered in full     *)
  requests                    (* requests so far (only bounds the model)    *)

inVars    == <<stream, in_bytes, up>>
outVars   == <<out, out_bytes, down>>
lockVars  == <<binary_data_receive_mode, binary_data_send_mode>>
stateVars == <<command_states, page, halting>>
loopVars  == <<packet_check_counter, tick_check_counter, pc>>
clientVars == <<open, requests>>
vars == <<inVars, outVars, lockVars, stateVars, loopVars, clientVars>>

Total(packets) == SumOf([i \in 1 .. Len(packets) |-> packets[i].size])

(* Bytes the client has still to write, and bytes of Head(out) it has.      *)
Unwritten == Total(stream) - in_bytes - up
Got == Total(out) - out_bytes - down

(* A slot of the table is free, or holds a command that waits for its time. *)
(* A command that has run a stage and has another is to run "again".        *)
Slots == 1 .. MAX_COMMAND_STATES
Free == [command_id |-> "none", next_exec |-> "never"]
CommandState == {Free} \cup
  [command_id : {"shutdown", "getfile"}, next_exec : {"later", "again", "due"}]

Init ==
  /\ stream = << >> /\ in_bytes = 0 /\ up = 0
  /\ out = << >> /\ out_bytes = 0 /\ down = 0
  /\ binary_data_receive_mode = 0 /\ binary_data_send_mode = 0
  /\ command_states = [i \in Slots |-> Free]
  /\ page \in VALUE
  /\ halting = FALSE
  /\ packet_check_counter = 0 /\ tick_check_counter = 0
  /\ pc = "read"
  /\ open = 0 /\ requests = 0

-----------------------------------------------------------------------------
(* The client. *)

(* The commands that BinaryData follows are marked with what the page is    *)
(* then, if the data is enough: SALLOC wants a page of it, IALLOC as much as*)
(* it says.                                                                 *)
StoringPackets(what, payload, val, size, wants) ==
  <<Packet(what, payload, IF size >= wants THEN val ELSE NoPage, wants),
    Packet("data", size, val, wants)>>

RequestPackets(what, val, size, insert) ==
  CASE what = "ralloc" -> <<Packet(what, 4, NoPage, 0)>>
    [] what = "salloc" -> StoringPackets(what, 4, val, size, PAGE_SIZE)
    [] what = "ialloc" -> StoringPackets(what, 10, val, size, insert)
    [] OTHER -> <<Packet(what, 1, NoPage, 0)>>

Pending(what) == \E p \in Range(stream) \cup Range(out) : p.what \in what

(* RESET goes alone: it throws away whatever is in the queues.  A client    *)
(* stores only to an allocation it knows it has.  GETFILE gets no answer.   *)
Submit(what, val, size, insert) ==
  /\ requests < MaxRequests
  /\ open < IF what = "reset" THEN 1 ELSE WINDOW
  /\ ~Pending({"reset"})
  /\ WaitsForPage => ~Pending({"ralloc", "page"})
  /\ what \in {"salloc", "ialloc"} => page # NoPage
  /\ stream' = stream \o RequestPackets(what, val, size, insert)
  /\ open' = IF what = "getfile" THEN open ELSE open + 1
  /\ requests' = requests + 1
  /\ UNCHANGED <<in_bytes, up, outVars, lockVars, stateVars, loopVars>>

(* The client writes a byte to the card, whose FIFO has room.               *)
ClientWrite ==
  /\ Unwritten > 0
  /\ up < FIFO_DEPTH
  /\ up' = up + 1
  /\ UNCHANGED <<stream, in_bytes, outVars, lockVars, stateVars, loopVars,
                 clientVars>>

(* The client reads a byte; with the last byte of a packet it has it whole. *)
ClientRead ==
  /\ down > 0
  /\ down' = down - 1
  /\ IF Got + 1 = Head(out).size
       THEN /\ out' = Tail(out)
            /\ open' = IF Head(out).last THEN open - 1 ELSE open
       ELSE UNCHANGED <<out, open>>
  /\ UNCHANGED <<inVars, out_bytes, lockVars, stateVars, loopVars, requests>>

-----------------------------------------------------------------------------
(* The loop: read a byte, send a byte.                                      *)

ReadByte ==
  /\ pc = "read"
  /\ pc' = "send"
  /\ IF up > 0
       THEN /\ up' = up - 1
            /\ in_bytes' = in_bytes + 1
            /\ binary_data_receive_mode' =
                 IF binary_data_receive_mode > 0
                   THEN binary_data_receive_mode - 1
                   ELSE binary_data_receive_mode
       ELSE UNCHANGED <<up, in_bytes, binary_data_receive_mode>>
  /\ UNCHANGED <<stream, outVars, binary_data_send_mode, stateVars,
                 packet_check_counter, tick_check_counter, clientVars>>

(* number_bytes_in_queue_to_read(&out_queue): a ring filled to its last     *)
(* slot looks empty.                                                        *)
ToSend == out_bytes % OUT_SIZE

SendByte ==
  /\ pc = "send"
  /\ pc' = "check"
  /\ IF ToSend > 0 /\ down < FIFO_DEPTH
       THEN /\ out_bytes' = out_bytes - 1
            /\ down' = down + 1
            /\ binary_data_send_mode' =
                 IF binary_data_send_mode > 0
                   THEN binary_data_send_mode - 1
                   ELSE binary_data_send_mode
       ELSE UNCHANGED <<out_bytes, down, binary_data_send_mode>>
  /\ UNCHANGED <<inVars, out, binary_data_receive_mode, stateVars,
                 packet_check_counter, tick_check_counter, clientVars>>

-----------------------------------------------------------------------------
(* The loop: process a packet.                                              *)

Unlocked == binary_data_receive_mode = 0 /\ binary_data_send_mode = 0

CheckingPackets ==
  /\ pc = "check"
  /\ pc' = "tick"
  /\ packet_check_counter >= MAX_COMMAND_WAIT /\ Unlocked
  /\ packet_check_counter' = 0
  /\ UNCHANGED <<tick_check_counter, up, down, clientVars>>

NotChecking ==
  /\ pc = "check"
  /\ pc' = "tick"
  /\ ~(packet_check_counter >= MAX_COMMAND_WAIT /\ Unlocked)
  /\ packet_check_counter' =
       IF packet_check_counter < MAX_COMMAND_WAIT
         THEN packet_check_counter + 1 ELSE packet_check_counter
  /\ UNCHANGED <<inVars, outVars, lockVars, stateVars, tick_check_counter,
                 clientVars>>

(* queue_skip_to_next_packet, when what is left of a packet read in part    *)
(* heads the stream: as far as the next "+++" if that has come, else up to  *)
(* the last two bytes.                                                      *)
Skipped ==
  IF stream = << >> \/ Head(stream).what # "rest" THEN 0
  ELSE IF in_bytes >= Head(stream).size + 3 THEN Head(stream).size
  ELSE IF in_bytes >= 3 THEN in_bytes - 2 ELSE 0

(* The stream and its unread bytes with that skipped.                       *)
Found ==
  IF Skipped = 0 THEN stream
  ELSE IF Skipped = Head(stream).size THEN Tail(stream)
  ELSE <<[Head(stream) EXCEPT !.size = @ - Skipped]>> \o Tail(stream)

Unread == in_bytes - Skipped

(* is_complete_packet_available: all of the packet at the head has come.    *)
IsComplete(packets, n) ==
  packets # << >> /\ Head(packets).what # "rest" /\ n >= Head(packets).size

Complete(what) ==
  CheckingPackets /\ IsComplete(Found, Unread) /\ Head(Found).what = what

NothingRead ==
  stream' = Found /\ in_bytes' = Unread

(* faulty variant: the terminator is skipped twice *)
CommandReadAndMore ==
  stream' = Tail(Found) /\ in_bytes' = Unread - Head(Found).size - REAR_DELIMITER_OVERHEAD

(* The packet at the head is read, and its terminator.                      *)
CommandRead ==
  stream' = Tail(Found) /\ in_bytes' = Unread - Head(Found).size

NoPacket ==
  /\ CheckingPackets
  /\ ~IsComplete(Found, Unread)
  /\ NothingRead
  /\ UNCHANGED <<out, out_bytes, lockVars, stateVars>>

(* BinaryData where a command was expected: the packet stays where it is.   *)
UnexpectedData ==
  /\ Complete("data")
  /\ NothingRead
  /\ UNCHANGED <<out, out_bytes, lockVars, stateVars>>

-----------------------------------------------------------------------------
(* Answers. *)

(* is_queue_space_available(&out_queue, n): see Queue.                      *)
SpaceAvailable(n) ==
  IF ToSend = 0 THEN OUT_SIZE > n ELSE out_bytes + n <= OUT_SIZE

Answer(what, payload, val, last) ==
  [what |-> what, size |-> payload + PACKET_OVERHEAD, val |-> val,
   last |-> last]

(* A write to a ring that is already filled to its last slot goes over the  *)
(* unread bytes: that is the subject of QueueUse and left out here.         *)
RingFilled == out_bytes = OUT_SIZE

Put(packets) ==
  /\ ~RingFilled
  /\ out' = out \o packets
  /\ out_bytes' = out_bytes + Total(packets)

(* write_data_to_packet by a handler that ignores its result.               *)
Write(answer) ==
  IF SpaceAvailable(answer.size) THEN Put(<<answer>>)
                                 ELSE UNCHANGED <<out, out_bytes>>

(* The out_queue space that command_defs asks for these commands.           *)
OUT_QUEUE_SPACE == 30

(* A binary command that process_command lets run, and one it does not: the *)
(* read index is put back and the command found again later.                *)
MayRun(what) == Complete(what) /\ SpaceAvailable(OUT_QUEUE_SPACE)

(* faulty variant: the read index is not put back *)
PostponeTaken ==
  /\ \E what \in Commands \ {"bad"} : Complete(what)
  /\ ~SpaceAvailable(OUT_QUEUE_SPACE)
  /\ CommandRead
  /\ UNCHANGED <<out, out_bytes, lockVars, stateVars>>

Postpone ==
  /\ \E what \in Commands \ {"bad"} : Complete(what)
  /\ ~SpaceAvailable(OUT_QUEUE_SPACE)
  /\ NothingRead
  /\ UNCHANGED <<out, out_bytes, lockVars, stateVars>>

-----------------------------------------------------------------------------
(* The commands. *)

(* "Bad Text Command\n", without a look at the space.                       *)
BadCommand ==
  /\ Complete("bad")
  /\ CommandRead
  /\ Write(Answer("bad", 17, NoPage, TRUE))
  /\ UNCHANGED <<lockVars, stateVars>>

Ping ==
  /\ MayRun("ping")
  /\ CommandRead
  /\ Write(Answer("ping", 6, NoPage, TRUE))
  /\ UNCHANGED <<lockVars, stateVars>>

(* A command with a next stage waits for it in the last free slot, and is   *)
(* given up if there is none.                                               *)
KeepForLater(what) ==
  LET free == {i \in Slots : command_states[i] = Free}
  IN  command_states' =
        [i \in Slots |-> IF i \in free /\ \A j \in free : j <= i
                           THEN [command_id |-> what, next_exec |-> "later"]
                           ELSE command_states[i]]

(* The first stage answers, the second shuts the Pi down.                   *)
Shutdown ==
  /\ MayRun("shutdown")
  /\ CommandRead
  /\ Write(Answer("shutdown", 23, NoPage, TRUE))
  /\ KeepForLater("shutdown")
  /\ UNCHANGED <<lockVars, page, halting>>

(* Nothing but FALSE for an answer, at every stage. *)
GetFile ==
  /\ MayRun("getfile")
  /\ CommandRead
  /\ KeepForLater("getfile")
  /\ UNCHANGED <<out, out_bytes, lockVars, page, halting>>

Reset ==
  /\ MayRun("reset")
  /\ stream' = << >> /\ in_bytes' = 0
  /\ out' = <<Answer("reset", 3, NoPage, TRUE)>>
  /\ out_bytes' = 3 + PACKET_OVERHEAD
  /\ page' = NoPage
  /\ command_states' = [i \in Slots |-> Free]
  /\ UNCHANGED <<lockVars, halting>>

RetrieveRefused ==
  /\ MayRun("ralloc")
  /\ page = NoPage
  /\ CommandRead
  /\ Put(<<Answer("ralloc", 5, NoPage, TRUE)>>)
  /\ UNCHANGED <<lockVars, stateVars>>

PageAnswer ==
  <<Answer("ralloc", 5, NoPage, FALSE), Answer("page", PAGE_SIZE, page, TRUE)>>

(* faulty variant: the lock is for both packets of the answer *)
SendLockOfBoth(unread) == Total(PageAnswer) + unread

(* set_binary_data_send_lock_mode, with the unread bytes of in_queue.       *)
SendLock(unread) == PAGE_SIZE + PACKET_OVERHEAD + unread

(* faulty variant: the lock is set before the space is looked at *)
RetrieveNoSpaceLocked ==
  /\ MayRun("ralloc")
  /\ page # NoPage
  /\ ~SpaceAvailable(Total(PageAnswer))
  /\ NothingRead
  /\ binary_data_send_mode' = SendLock(Unread)
  /\ UNCHANGED <<out, out_bytes, binary_data_receive_mode, stateVars>>

(* The command returns FALSE and is put back. *)
RetrieveNoSpace ==
  /\ MayRun("ralloc")
  /\ page # NoPage
  /\ ~SpaceAvailable(Total(PageAnswer))
  /\ NothingRead
  /\ UNCHANGED <<out, out_bytes, lockVars, stateVars>>

(* The lock is set while the terminator of the command is still unread.     *)
Retrieve ==
  /\ MayRun("ralloc")
  /\ page # NoPage
  /\ SpaceAvailable(Total(PageAnswer))
  /\ CommandRead
  /\ Put(PageAnswer)
  /\ binary_data_send_mode' =
       SendLock(Unread - Head(Found).size + REAR_DELIMITER_OVERHEAD)
  /\ UNCHANGED <<binary_data_receive_mode, stateVars>>

(* SALLOC and IALLOC: how many bytes of the BinaryData are wanted, what     *)
(* follows the command, and its unread bytes.                               *)
Wanted == Head(Found).wants
AfterCommand == Tail(Found)
UnreadAfter == Unread - Head(Found).size

(* faulty variant: the bytes that have come are not taken off *)
ReceiveLockOfWholePage(unread) == Wanted + PACKET_OVERHEAD

(* set_binary_data_receive_lock_mode, with the unread bytes of in_queue.    *)
ReceiveLock(unread) == Wanted + PACKET_OVERHEAD - unread

MayStore == (MayRun("salloc") \/ MayRun("ialloc")) /\ page # NoPage

(* faulty variant: the command is not put back *)
StoreWaitsTaken ==
  /\ MayStore
  /\ ~IsComplete(AfterCommand, UnreadAfter)
  /\ CommandRead
  /\ binary_data_receive_mode' = ReceiveLock(UnreadAfter)
  /\ UNCHANGED <<out, out_bytes, binary_data_send_mode, stateVars>>

(* The BinaryData has not come whole: the command returns FALSE, is put     *)
(* back, and the lock counts the bytes that are missing.                    *)
StoreWaits ==
  /\ MayStore
  /\ ~IsComplete(AfterCommand, UnreadAfter)
  /\ NothingRead
  /\ binary_data_receive_mode' = ReceiveLock(UnreadAfter)
  /\ UNCHANGED <<out, out_bytes, binary_data_send_mode, stateVars>>

DataPayload == Head(AfterCommand).size - PACKET_OVERHEAD

(* Too little BinaryData: no answer, and the BinaryData stays unread.       *)
StoreTooShort ==
  /\ MayStore
  /\ IsComplete(AfterCommand, UnreadAfter)
  /\ DataPayload < Wanted
  /\ CommandRead
  /\ UNCHANGED <<out, out_bytes, lockVars, stateVars>>

(* As many bytes of BinaryData as are wanted are read.  Their terminator is *)
(* skipped if it comes next; what is left of a longer packet is skipped     *)
(* later.  IALLOC answers with three bytes, SALLOC with five.               *)
Store ==
  /\ MayStore
  /\ IsComplete(AfterCommand, UnreadAfter)
  /\ DataPayload >= Wanted
  /\ page' = Head(AfterCommand).val
  /\ LET what == Head(Found).what
     IN  Put(<<Answer(what, IF what = "ialloc" THEN 3 ELSE 5, NoPage, TRUE)>>)
  /\ LET left == DataPayload - Wanted + REAR_DELIMITER_OVERHEAD
     IN  IF DataPayload = Wanted
           THEN /\ stream' = Tail(AfterCommand)
                /\ in_bytes' = UnreadAfter - Head(AfterCommand).size
           ELSE /\ stream' = <<[Head(AfterCommand) EXCEPT !.what = "rest",
                                                          !.size = left]>>
                             \o Tail(AfterCommand)
                /\ in_bytes' = UnreadAfter - Head(AfterCommand).size + left
  /\ UNCHANGED <<lockVars, command_states, halting>>

CheckPacket ==
  \/ NotChecking \/ NoPacket \/ UnexpectedData \/ Postpone
  \/ BadCommand \/ Ping \/ Shutdown \/ GetFile \/ Reset
  \/ RetrieveRefused \/ RetrieveNoSpace \/ Retrieve
  \/ StoreWaits \/ StoreTooShort \/ Store

-----------------------------------------------------------------------------
(* The loop: tick a command that waits for its time.                        *)

(* The time of a waiting command comes.  A period of 100 ms or more is long *)
(* for the loop: a command that has just run is not due again before those  *)
(* that were due with it have run.                                          *)
TimePasses(i) ==
  /\ \/ command_states[i].next_exec = "later"
     \/ /\ command_states[i].next_exec = "again"
        /\ \A j \in Slots : command_states[j].next_exec # "due"
  /\ command_states' = [command_states EXCEPT ![i].next_exec = "due"]
  /\ UNCHANGED <<inVars, outVars, lockVars, page, halting, loopVars, clientVars>>

NoTick ==
  /\ pc = "tick"
  /\ pc' = "read"
  /\ ~(tick_check_counter >= MAX_TICK_WAIT /\ Unlocked)
  /\ tick_check_counter' =
       IF tick_check_counter < MAX_TICK_WAIT
         THEN tick_check_counter + 1 ELSE tick_check_counter
  /\ UNCHANGED <<inVars, outVars, lockVars, stateVars, packet_check_counter,
                 clientVars>>

(* faulty variant: the time of the next stage is not set *)
TickedStaysDue(state) ==
  IF state.command_id = "shutdown" THEN Free ELSE state

(* tick_command: the first slot that is due runs its next stage, after      *)
(* which SHUTDOWN is complete and GETFILE is not.                           *)
Ticked(state) ==
  IF state.command_id = "shutdown" THEN Free
                                   ELSE [state EXCEPT !.next_exec = "again"]

TickCommand ==
  /\ pc = "tick"
  /\ pc' = "read"
  /\ tick_check_counter >= MAX_TICK_WAIT /\ Unlocked
  /\ tick_check_counter' = 0
  /\ LET due   == {i \in Slots : command_states[i].next_exec = "due"}
         first == {i \in due : \A j \in due : i <= j}
     IN  /\ command_states' =
              [i \in Slots |-> IF i \in first THEN Ticked(command_states[i])
                                              ELSE command_states[i]]
         /\ halting' =
              (halting \/ \E i \in first :
                            command_states[i].command_id = "shutdown")
  /\ UNCHANGED <<inVars, outVars, lockVars, page, packet_check_counter,
                 clientVars>>

Loop == ReadByte \/ SendByte \/ CheckPacket \/ NoTick \/ TickCommand

Next ==
  \/ \E what \in COMMAND, val \in VALUE, size \in DATA_SIZE, insert \in INSERT_SIZE :
       Submit(what, val, size, insert)
  \/ ClientWrite \/ ClientRead
  \/ \E i \in Slots : TimePasses(i)
  \/ Loop

(* The server loops for ever, a client that has sent part of a request      *)
(* sends the rest and reads what comes, and time passes.  A client need not *)
(* make another request.                                                    *)
Fairness ==
  WF_vars(Loop) /\ WF_vars(ClientWrite) /\ WF_vars(ClientRead)
  /\ \A i \in Slots : WF_vars(TimePasses(i))

Spec == Init /\ [][Next]_vars /\ Fairness

-----------------------------------------------------------------------------

TypeOK ==
  /\ in_bytes \in 0 .. Total(stream)
  /\ Unwritten >= 0 /\ Got >= 0
  /\ up \in 0 .. FIFO_DEPTH /\ down \in 0 .. FIFO_DEPTH
  /\ out_bytes \in 0 .. OUT_SIZE
  /\ binary_data_receive_mode \in Int /\ binary_data_send_mode \in Nat
  /\ command_states \in [Slots -> CommandState]
  /\ page \in VALUE \cup {NoPage}
  /\ halting \in BOOLEAN
  /\ packet_check_counter \in 0 .. MAX_COMMAND_WAIT
  /\ tick_check_counter \in 0 .. MAX_TICK_WAIT
  /\ pc \in {"read", "send", "check", "tick"}
  /\ open \in 0 .. WINDOW /\ requests \in 0 .. MaxRequests

(* The commands and answers under way. *)
Brief(packets) ==
  [i \in 1 .. Len(packets) |-> [what |-> packets[i].what, val |-> packets[i].val]]

Request == [what : Commands, val : VALUE \cup {NoPage}]

(* However the bytes come, wherever the loop is and however often a command *)
(* is put back and found again, each command is carried out once, in the    *)
(* order of the requests, and the client gets its answers in that order.    *)
Service ==
  INSTANCE CommandService WITH
    asked <- Those(Brief(stream), Request),
    owed  <- Brief(out)

RefinesCommandService == Service!Spec

(* The receive lock counts the bytes of the BinaryData that are still to    *)
(* come, so that it ends with the last of them and never before or after.   *)
ReceiveLockCountsMissingBytes ==
  binary_data_receive_mode # 0 =>
    /\ Len(stream) >= 2 /\ stream[1].what \in {"salloc", "ialloc"} /\ stream[2].what = "data"
    /\ binary_data_receive_mode = stream[1].size + stream[2].size - in_bytes

(* The send lock ends, and before the page has been sent: it is set to the  *)
(* size of the page's packet and the terminator of RALLOC, and counts the   *)
(* 14 bytes of the first packet, and what was unread before, off with the   *)
(* rest.  When it ends at least 11 bytes of the page are still to be sent.  *)
SendLockCountsBytesToSend ==
  binary_data_send_mode # 0 => binary_data_send_mode + 11 <= out_bytes

(* Every request is answered, as long as each SALLOC and IALLOC is followed *)
(* by as much BinaryData as it wants and no answer fills out_queue to its   *)
(* last slot.                                                               *)
RequestsAreAnswered ==
  open > 0 ~>
    \/ open = 0
    \/ RingFilled
    \/ \E p \in Range(stream) :
         p.what = "data" /\ p.size # p.wants + PACKET_OVERHEAD

(* The locks end: "Once complete then commands will be processed again".    *)
LocksEnd == []<>Unlocked

ResetRan == \E p \in Range(out) : p.what = "reset"

(* A SHUTDOWN that has a slot of the table is carried out, unless a RESET   *)
(* comes first, whatever else is in the table.                              *)
StoredShutdownHappens ==
  (\E i \in Slots : command_states[i].command_id = "shutdown") ~>
    (halting \/ ResetRan)

(* The client is told "SHUTDOWN IN 10 SECONDS", and so it is.               *)
AnsweredShutdownHappens ==
  (\E p \in Range(out) : p.what = "shutdown") ~> (halting \/ ResetRan)

=============================================================================
