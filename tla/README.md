# CPC-CPLINK in TLA+

CPC-CPLINK joins an Amstrad CPC to a Raspberry Pi with two small FIFOs on a
card. On the Pi runs the Master Control Program (MCP), a server that takes
commands from the CPC: it answers, keeps memory for it, loads and saves files.
This directory holds TLA+ modules of the program, TLC runs on small instances
of them, and TLAPS proofs for instances of any size. `PROJECT.json` lists the
components, the runs, the lines of code behind each definition, what the runs found
and the hazards in the code with the properties that are aimed at them.

    tlc -workers 2 -config QueueUse.cfg MCQueueUse      (one line of "Runs")
    tlapm QueueUse_proofs.tla

Paths below are relative to `src/`; the MCP server is in
`sw/examples/mcp/rpi_c`.

## The system

### Components

**FIFO card** (`src/cpld_fifo.v`, `pcb/`). Two FIFOs of 16 bytes, one for each
direction. The CPC sees a status port (DIR: there is room to write; DOR: there is
a byte to read) and a data port; each data access shifts its FIFO. The Pi sees
data pins, DIR and DOR pins, and pulses SI and SO itself. A write to the status
port resets both FIFOs. *Hard:* nothing but the status bits keeps the two sides
apart, and the reset comes at any time. *Correct:* a byte is shifted into a FIFO
with room only, and out once.

**Pi driver** (`sw/commonlib/rpi_c/fifolib.c`). `read_fifo_byte` samples the pins
and then pulses SO; `write_fifo_byte` sets the pins and pulses SI. The caller looks
at DOR and DIR first. No state of its own.

**CPC drivers** (`fifolib.s`, copied into each C client; `fiforsx.s` for BASIC).
Single bytes, single bytes with waiting, blocks of up to 255 bytes in a loop
unrolled by four, and blocks without looking at the status. *Hard:* status and
data are separate accesses; the entry point of the unrolled loop depends on the
count. *Correct:* the number returned is the number moved.

**Byte queue** (`queue.c`). A ring of QUEUE_SIZE bytes, a store and a read index,
both taken modulo QUEUE_SIZE. `in_queue` and `out_queue` are two of them.
Operations: store a byte, write a packet if there is space, read, look ahead, step
the read index on or back. *Hard:* store = read means empty, and wraparound is
everywhere. *Correct:* first in, first out; a refused write leaves no trace.

**Main loop and locks** (`mcp_pi.c`). For ever: one byte from the card to
`in_queue`, one byte from `out_queue` to the card, every MAX_COMMAND_WAIT turns a
look for a packet, every MAX_TICK_WAIT turns a tick. A packet that the command
processor does not take is put back by resetting the read index. The *receive
lock* (`binary_data_receive_mode`) and the *send lock* (`binary_data_send_mode`)
count bytes of a page that are to come or to go; while one is not 0, no packet is
looked for and no command ticked. *Hard:* the locks are computed from how many
bytes happen to be in `in_queue`. *Correct:* they end, the one with the last byte
that comes, the other while there is still something to send.

**Packets and command parsing** (`packet.c`, `command.c`). A packet is `+++`, a
size of two bytes, a type, a payload, `---`. Finding one skips noise, checks size,
type and terminator. Text commands are read up to a space or a newline, binary
commands by an ID and a fixed number of parameter bytes. *Hard:* the server looks
while bytes are still coming; handlers read parameters without asking whether
they have come. *Correct:* every command sent is taken up once and in order,
whatever noise lies between.

**Command processor** (`command_processor.c`). Looks whether `out_queue` has the
space that `command_defs` says the command needs, runs it, and keeps a command
that returns FALSE and has a tick time in one of MAX_COMMAND_STATES slots, to be
run again when its time has come. *Hard:* put back and tried again, a full
table, an always due command in front of another. *Correct:* each command is
carried out exactly once and its later stages happen.

**Commands** (`command_general.c`, `command_memory.c`, `command_file.c`). Text: PING,
SHUTDOWN, REBOOT (two stages), RESET, HELP, TIME, DATE, VERSION, TRON, TROFF,
WIFIIP, SHELLEXEC. Memory: CALLOC, FALLOC, RALLOC, SALLOC, IALLOC, XALLOC,
PILALLOC, PISALLOC. The file commands are stubs that return FALSE. *Hard:* RALLOC
answers with two packets; SALLOC and IALLOC are followed by a BinaryData packet
that may not have come.

**Memory store** (`memstore_manager.c`). MAX_MEMORY_ALLOCATIONS - 1 allocations of
pages, each with an optional stream of the file it was loaded from. *Hard:* ranges
that overlap, the last byte of an allocation, an error after half of the work.
*Correct:* a command changes the bytes it names, shifts as far as it says, and
nothing when it is refused.

**Loopback programs** (`sw/examples/loopback`). The CPC sends 8192 random bytes in
four ways, the Pi echoes, the CPC compares.

**Clients.** `mcplib.s` with a BASIC program for each command and a terminal
(`cpc_asm`), and C programs (`cpc_c`): ten that send one command and read one
answer, `alloctest` for the memory commands, `helptest`. Each begins with a reset of
the card. *Hard:* the C programs do not look whether the FIFO has taken a byte; a
program that is broken off leaves half a command in `in_queue` and an answer in
`out_queue`, and neither the server nor the next program knows. *Correct:* no
command is pieced together from two; an answer is believed only if it is one.
`alloctest` believes whatever it reads.

**Bootstrap** (`sw/examples/bootstrap`). The Pi fills the FIFO to the brim and sends
a loader of 45 bytes, then a program; one line of BASIC on the CPC reads 61 bytes,
16 of filling and the loader, without a look at the status, and calls it. *Hard:*
the filling goes by the flags of a FIFO that holds anything to begin with. *Correct:*
the loader lies where it is called and the program runs whole.

**VDU demonstrations**; build files, board files and tools.

### How they interact

    BASIC / C client                           MCP server (one thread)
          |                                             |
     CPC driver  --up-->    FIFO card   --up-->   Pi driver --> in_queue --> parser
          |     <-down--   (16 + 16 bytes) <-down--   |    <-- out_queue <-- handlers
                                                                 |
                                                  command_states, memstore, locks

The CPC, the card and the Pi are concurrent. The Pi server is one thread without
interrupts, so each call of a handler is one step, and what interleaves is the
loop with the client, byte by byte. Nothing is persisted but the files of PILALLOC
and PISALLOC; what restarts is the CPC program, while the Pi goes on.

## Modules

| module | models | role |
|---|---|---|
| `Queue` | `queue.c` | operators on a ring: free count, space, look ahead, step |
| `QueueUse` | the callers of `queue.c` | state machine of one ring with every use made of it |
| `ByteFifo` | what the callers rely on | abstract: a sequence with a mark |
| `QueueUse_proofs` | | theorems about `QueueUse` |
| `SeqSums` | | sums and selections of sequences, as recursive functions |
| `McpLoop` | `mcp_pi.c`, `command_processor.c`, handlers, `mcplib.s` | the loop, locks, table, card and one client |
| `McpLoop_proofs` | | lemmas about `SeqSums`; theorems about `McpLoop` |
| `CommandService` | what a client relies on | abstract: requests, a page, answers |
| `Packets` | `packet.c`, `get_command_text` | operators on a ring: where a packet starts, whether it has come, its command |
| `Packets_proofs` | | lemmas about `Packets`, for both of its users |
| `McpInput` | `command.c`, handlers' reads | the server as it reads commands from a ring of bytes |
| `McpInput_proofs` | | theorems about `McpInput` |
| `McpClient` | C clients, `mcplib.s`, terminal, reduced server | programs that are broken off and started, over the card, on bytes |
| `McpClient_proofs` | | theorems about `McpClient` |
| `Memstore` | `memstore_manager.c`, `command_memory.c` | allocations, their bytes, files and streams |
| `Memstore_proofs` | | theorems about `Memstore` and `AllocTest` |
| `PageStore` | what the memory commands promise | what an insert, a cut or a load makes of the bytes |
| `AllocTest` | `alloctest/src/main.c` | a client of the memory commands, over `Memstore` |
| `FifoCard` | `cpld_fifo.v` | the two FIFOs |
| `Bootstrap` | `bootstrap.c`, `bootloader.s` | the Pi and the CPC, over the card |
| `Bootstrap_proofs` | | theorems about `Bootstrap` |
| `Loopback` | loopback `main.c`, `fifolib.s`, `fifolib.c`, `loopback.c` | two programs over the card |
| `Loopback_proofs` | | theorems about `Loopback` |
| `MC...` | | values of the constants for TLC |

Definitions keep the names of the code where it has one. A definition marked
"faulty variant" is a plausible slip in the definition below it; nothing uses it.
With it in place of the definition below it, some property of the runs fails,
which shows that the property depends on that piece of code.

### QueueUse over Queue, and ByteFifo

`queue` is the `Queue` struct: `data`, `store`, `read`. `NumberFree`,
`SpaceAvailable` and `NumberToRead` are the three functions that count. The ring
has no notion of full: with QUEUE_SIZE unread bytes it looks empty. The constant
`MayFillExactly` says whether the load ever gets there (`Offered`): with FALSE the
clients keep less outstanding, as every client in the repository does; with TRUE
nothing stops it, as in the code. `hold` is `hold_read_pointer`; between
`HoldReadPointer` and `KeepRead` or `Rewind` bytes are only read, since the loop is
inside one turn and stores no byte. `WritePacket` is one step
(`write_data_to_packet` checks the space and then writes all). `io` is observed only.
`ByteFifo` is the store: bytes are taken from the front, put at the end, refused
only when they do not fit; a mark can be returned to.

### McpLoop, and CommandService

Sizes are kept, bytes are not. `stream` holds the packets from the read index of
`in_queue` to the last byte the client is still to write; `in_bytes` of those bytes
are unread in `in_queue` and `up` are in the card. `out`, `out_bytes` and `down` are
the same the other way. So every packet has its real length (9 bytes around the
payload), the loop and the client interleave at every byte, and a packet is found
when its last byte has come. `pc` is the place in the loop: `ReadByte`, `SendByte`,
`CheckPacket` (one disjunct for each branch of the `switch` and each outcome of each
handler), `TickCommand` or `NoTick`. A handler is one step, with the space check
before it, the put back or the skipped terminator after it, and the locks it sets.
Time is `TimePasses`: a waiting slot becomes due at any time; one that has just
run becomes due again only when no other is due, as 100 ms or more is long
against a turn of the loop. The client may keep WINDOW requests open. It sends
whatever COMMAND holds: PING stands for every command with one short answer,
`bad` for a malformed text command, GETFILE for the stubs. SALLOC and IALLOC are
followed by a packet of data and differ in how much of it they want: a page, or the
length among the parameters (`wants`; the constant INSERT_SIZE holds the lengths
a client may ask for).

`CommandService` is what a client may rely on: requests are served one at a time,
once, in order; answers come in order; a page read is the page last written. The
mapping takes the packets in `stream` that are commands for the requests and the
packets in `out` for the answers owed.

### Packets and McpInput

`Packets` holds what `packet.c` does to a queue, as operators on the ring of `Queue`;
`McpInput` and `McpClient` are built on it. In `McpInput` a client sends up
to MaxItems items (`Send`), whose bytes come one by one into a ring, which starts at several places
so that packets lie across its end. After each byte the loop may look. Commands have
names of one letter and the limits of a name are small, so that bodies of every
length up to one too many are sent, with and without an end of the name.

A body that is one byte shorter than the longest name and has no end of a name is
the one for which an index leaves the ring: `get_command_text` looks one byte beyond
the body, finds itself too long and steps by `packet_body_size - index`, which is -1.
C's `%` takes the sign of what it divides (`Remainder`), so from slot 0 the read index
goes to -1, and bytes are read from before the array until the index is moved on. The
two remaining bytes of the terminator are in slots 0 and 1 then, so the next skip brings it
back into the ring and nothing is served wrongly; `PastTerminator`, `Onward` and
`HelpOutside` let the byte before the array be any, and `TypeOK` says what holds at -1
(`OneBefore`).

Of the binary commands there are PING, for those without parameters, and the refused
SALLOC and IALLOC. An ID beyond `command_defs`, for which the code does not look, is left
out. `strayed` becomes true where a handler reads
bytes that need not have come: `StraysOnlyWhereKnown` says that there are four such
places and no more (a refused SALLOC, a refused IALLOC, SHELLEXEC without a
parameter, a HELP that is run again later). What the server does after that is not
followed.

What a client may send is said apart from the server, on the bytes as a sequence. An item
is bytes and what they mean, the commands the server should take up for them, and
`ItemAssumption` says which meaning goes with which bytes (`Means`):

- noise in which no `+++` begins, whatever follows it (`Harmless`): no command;
- a packet of an unknown type or without terminator, its bytes as many as its size says: none;
- BinaryData and GraphicDirectives: none, and they block what follows them;
- a text command: what its name means, or "bad" if it has no proper name;
- a binary PING; a SALLOC or IALLOC that is refused, with its data.

`PacketOf` is how clients build packets, `Delimited` is what the bytes must be, so items
that no client builds are among them. TLC evaluates the assumption for the items of the
run. It leaves out what the server does misread:

- A `+++` inside what is skipped byte by byte, as parameters of PING or the data of a
  refused IALLOC are: the server takes it for a packet. `mcplib.s` lets a program send any
  text. Nor does the server see the end of a parameter outside its packet: HELP and
  SHELLEXEC read to the newline, and one without a newline is left out.
- The data of a refused IALLOC or SALLOC that are 40 bytes long (or 40 more than a multiple of
  256). The low byte of their size is then 43, a `+`; the skip goes one byte on and finds
  `+++` there again. It takes the high byte and the type for a size of 768 and more, and waits.

### McpClient

A program is started, resets the card (`Start`), sends its command byte by byte,
reads an answer and is done; the user may start another at any time, which breaks
the one before it off between any two bytes. A program with `waits` TRUE is a BASIC
program with `mcplib.s`, whose `SendByte` tries until the FIFO has room; the terminal
may go on without a reset (`Again`). With `waits` FALSE it is a C client: a byte that
does not fit is lost (`missed`). The server is reduced to what meets them: it moves
bytes and carries out text commands with one answer. The n-th command has the n-th
letter for its name and its answer is that letter, so `served` and `accepted` tell
whose answer a program took. The whole parser of `Packets` works on the bytes;
`in_queue` is the sequence of the unread bytes, put into a ring for each look, which
is sound by the theorem RingIsFifo.

Lengths matter: the packet of PING has 14 bytes, that of SHUTDOWN 18, the FIFO
holds 16. The instance has 11, 13 and 11. Two facts come out:

- *A cut costs at most one command more*, if the cut comes after the size bytes: the
  broken packet takes bytes of the next for its own, is found without terminator and
  discarded, and what is left of the next is skipped. That holds while the longest
  packet is at most 5 bytes longer than the shortest.
- *A cut before the size bytes stops the server for long*: after `+++` alone the size
  is made of two bytes of the next packet, `+` and `+`, and 11051 bytes have to come
  (`WaitsForTooMuch`, the exception in `ACutCostsOneMore`).

Nothing tells a program whose answer it reads: one that starts while an answer is
in `out_queue` takes that for its own. `AcceptedIsWhole` says what remains true, and
`FreshProgramIsAnswered` that a program which finds everything empty gets its own.

### AllocTest over Memstore

`alloctest` makes three tests of six or seven commands, each with its answer. It works on
allocation 1 whatever CALLOC answered, ignores every error, and waits for a page
after RALLOC even when it was refused. `next` is the place in the script; there the test is
about to send (`Send`), or reads the answer or the page. `Create` to `Free` are the server
that carries out the first of `requests` with the actions of `Memstore` and puts the
answer, after RALLOC also the page and the send lock, into `out_queue`. `failed` and `fresh`
are observed only.

`Run` starts it again at any time: with a command half sent, sent and not carried out,
answered and not read, or with a page half read. The reset of the card takes the end of
what was sent and the beginning of what was answered, the rest stays: commands waiting,
the last of them perhaps cut (`whole` FALSE), and packets, the first perhaps begun. Then

- commands of the old run are carried out while the new one is at work, for the same
  allocation;
- `read_response_from_pi` takes the next six bytes for the header of its answer. If they
  are not, it says "Received malformed packet" and the test goes on as if it had been
  answered (`MisreadAnswer`, `MisreadPage`). What it then stores for a page is no page.
- with old bytes before RALLOC or later commands behind it the send lock ends early, late
  or never (`LockEnds` may be taken, or not).

So a run may come to its end with no error read and nothing saved: a run broken off in the
page leaves a thousand bytes, enough for every answer of the next to be misread.
`RunSavesItsChanges` is about runs that found nothing of an earlier one (`fresh`): no
command waiting, no byte unread, no lock. It says of those that nothing else the runs before
them have done, the files, the contents and the streams they have left, does harm. Without
`fresh` TLC finds it violated. `LeavesOneAllocationARun` is about all runs.

A packet is whole, cut or begun, and its bytes are not modelled; how cut packets run into
each other is the matter of `McpClient`. Left out is what needs the bytes: a cut packet
that ends with later commands exactly on a terminator, data of a cut command that are read
ahead (`mcp_reads_ahead`), which bytes a misread page has, and bytes that the blind sending
of a page loses on the card.

The test's numbers (a script of 37 bytes, 23 bytes written behind it, 12 inserted at 12, 4
cut at 7, and so on) are constants; the `Edited` page has the stray zero that
`copy_message_into_buffer` writes one place too far. `ScriptAssumption` says that a script,
if there is one and it is not empty, reaches to the place of the change, as `run_mcp_pi.sh`
does with its 37 bytes. It is needed: a run that is broken off after IALLOC leaves its
insertion in allocation 1, the first load of the next run does not clear it, and a shorter
script would leave some of it before the change.

### Bootstrap over FifoCard

`Flush`, `TopUp` and `SendByte` are the Pi; `PokeInput` and `Call` the line of BASIC; `GetLow`
to `GetEntry` the loader, which waits for each byte. The line does not wait: it
counts on being typed after the filling and on the Pi being faster than BASIC.
Nothing enforces that, so the model lets the line read at any time, and `hasty` notes
that it read too early or too fast. `LoaderIsWhole` then says that nothing else can go
wrong: the loader is called in one piece unless the line was hasty. A hasty line may
call a whole loader too: `bootloader.bin` ends with nops, and 0 is what a FIFO gives
that has nothing. Its program then lies where it should or not, as the bytes that the
line has read too early are still to come; so `ProgramIsWhole` is about lines that were
not hasty.

### Memstore and PageStore

Each action is one command as its handler carries it out, with the functions of
the store it calls, for parameters in range and just out of it. A kilobyte is two
bytes. `PageStore` says the same of the bytes without loops or moves: what is
before the place stays, the rest is shifted by as much as was inserted or cut.
Two things that the model shows and no document speaks about: FALLOC of number 0
succeeds, and an insert or cut that ends exactly with the allocation is refused.

### Loopback over FifoCard

The CPC looks at the status bit in one step and moves the byte in another; the Pi
samples the pins in one and pulses SO in another. A call of the driver is the
record `call`, with the entry into the unrolled loop. `Restart` is the user
running the program again: `fifo_reset` empties the card while the Pi goes on with
what is in its ring. Bytes are numbered. Test 4 of the program uses the block
routines that look at no status bit; whether it works depends on the speed of the
machines, and it is left out.

## Runs

| run | config | instance | shows |
|---|---|---|---|
| `queue_use` | `QueueUse.cfg` | 4 slots, 2 bytes, packets to 5 bytes | every call is a step of `ByteFifo` |
| `loopback` | `Loopback.cfg` | FIFOs of 2, tests of 6 bytes in blocks of 5, one restart | nothing is lost, doubled or overtaken; a reset costs at most one stray byte; the tests end |
| `mcp_one_request` | `McpOneRequest.cfg` | all 7 commands, 3 requests one at a time, 2 slots | `CommandService` is implemented, locks end as they should, requests are answered, SHUTDOWN happens |
| `mcp_pipelined` | `McpPipelined.cfg` | 2 open requests of PING, RALLOC, SALLOC and IALLOC, pages of 12, inserts of 11, with 11, 12 or 14 bytes sent, `out_queue` of 40 | the same with answers that have to wait for space and data of the wrong length |
| `mcp_input` | `McpInput.cfg` | two of 26 items, ring of 32 | every command is taken up once, in order, whatever lies between |
| `memstore` | `Memstore.cfg` | 2 allocations, 4 bytes, 1 file, 2 streams | commands splice as promised, refused commands change nothing |
| `mcp_client` | `McpClient.cfg` | 3 commands of 11 or 13 bytes, FIFOs of 11, broken off anywhere | only whole commands are carried out, once; an accepted answer is one; a cut costs one command more; a fresh program is answered |
| `alloc_test` | `AllocTest.cfg` | 2 allocations, 3 runs, 4 scripts, one stream; 2 commands waiting and 2 packets unread | a run that finds nothing under way and reads no error saves its three changes; restarts leave one allocation each and lose no stream; a granted run ends |
| `bootstrap` | `Bootstrap.cfg` | FIFO of 3, loader of 4 that ends with a nop, program of 6, bytes of 5 values, 2 of them in the FIFOs at first | the loader is called whole, the program runs whole and last |

The runs that end in a counterexample, each with one property that quotes what
the code says of itself:

| run | property | what the code does |
|---|---|---|
| `mcp_long_page` | `LocksEnd` | BinaryData longer than the page makes the receive lock negative; no command is processed any more |
| `mcp_shutdown_forgotten` | `AnsweredShutdownHappens` | a file command keeps its slot for good; once they fill the table (of one slot here, of twenty in the code), SHUTDOWN is answered but not carried out |
| `mcp_reads_ahead` | `ReadsWhatHasCome` | a refused SALLOC or IALLOC steps over its BinaryData before it has come; the read index passes the store index |

Three more can be had by a change of a configuration:

- `MayFillExactly = TRUE` in `QueueUse.cfg`: QUEUE_SIZE unread bytes pass for none, the
  next write goes over them, and `RefinesByteFifo` fails.
- `COMMAND = {"ping", "shutdown"}` in `McpPipelined.cfg`: SHUTDOWN asks for 30 bytes of
  space and needs 32, its answer is dropped, and `RefinesCommandService` fails.
- `WaitsForPage = FALSE`, `COMMAND = {"ralloc"}` and the property `LocksEnd` there: a
  request that has come while RALLOC runs is counted into the send lock, which then
  waits for bytes that nobody sends, and `LocksEnd` fails.

And one by a change of the items, without `ItemAssumption` and with a ring of 120: a refused
IALLOC with 40 bytes of data, after which `EveryCommandIsServed` fails (see "Packets and
McpInput").

### Bounds, and why they are enough

- A ring of 4 slots with packets of up to 5 bytes meets every relation of the two
  indices, wraparound inside a packet, a packet that just fits, just does not fit
  and is longer than the ring. What holds for all sizes is proved.
- In `mcp_one_request` `out_queue` has 34 bytes: 30 is what commands ask for, 32
  the longest answer, so there is a space that is too small, just large enough and
  ample. Three requests give every pair of commands with one before them. Two slots
  hold a GETFILE and a SHUTDOWN together. MAX_COMMAND_WAIT is 1 there, so that the
  loop passes over a check; FIFOs of one byte make each side wait for the other.
- In `mcp_pipelined` the answers of two RALLOC do not fit `out_queue` together; the
  page is longer than the terminator and than the skip's two bytes, so the rest of
  a longer page comes in pieces.
- In `mcp_input` any two items, in a ring where the second wraps and where the
  first does: what an item leaves behind is seen by the one after it. A third
  item meets nothing else, as what is left is at most two bytes or a packet that
  blocks.
- In `mcp_client` the FIFO is as long as the shorter packet, so one kind just fits and
  the other overruns it; 3 commands are a broken one, the one that pays for it, and
  one that shows what is left. The last is sent by a program that waits
  (`LastWaits`). The ring is longer than all that can come.
- In `alloc_test` three runs leave two allocations and find none free; a run broken off
  in the page leaves a command, an answer or a page for the next two, and two packets
  are what RALLOC answers. The saved
  bytes reach past each change, and there is a script too long for the first page,
  an empty one, and none.
- In `bootstrap` both FIFOs hold any number of old bytes at first; bytes of five values
  make the length and the addresses need both bytes of a word.
- In `memstore` two allocations and sizes of 0 to 4 bytes meet every first, last
  and out-of-range index; with 2 streams and one file the streams run out.
- In `loopback` a test has more bytes than the FIFOs hold together, the blocks are
  one longer than the unrolled loop and do not divide the test, and the ring has as
  many slots as the test has bytes, as in the code.

### Fairness

Liveness rests on: the server's loop goes on (`Loop`; it is a `while(1)` that never
blocks); a client that has begun to send goes on (`ClientWrite`) and reads what
comes (`ClientRead`), as `mcplib.s` does in its waiting loops; time passes
(`TimePasses`). In `Loopback` both programs run on. In `McpInput` bytes under way
come and the loop looks again. No fairness is assumed of a client making
another request or of a user restarting a program. In `McpClient` one
condition covers the program and the server together: as long as one of them can do
something, something is done; a program that polls an empty FIFO takes no step.
In `Bootstrap` the Pi goes on, and the CPC once the line has been typed; in `AllocTest`
a run that found nothing under way goes on and its commands are carried out; nothing is
assumed of others, for which the server may be locked for good. Nobody need start anything. All of it is weak fairness.
Some models may stop: the finished loopback test, an input that has all come,
programs that are all done or wait for an answer that was lost, the program that
has been loaded, the last run of the test; their configurations switch the deadlock
check off. Time stays fair in the model
while the loop turns, so none of the liveness counterexamples is a mere stop.

`RequestsAreAnswered` has two exceptions, both reachable and both shown by other
means: a ring filled to its last slot (see `MayFillExactly`), and BinaryData that is not
as long as the page (`mcp_long_page`; one that is too short stays in front of
everything behind it, without a word from the code).

## Proofs

Each module of proofs has the name of the module it is about; those about `AllocTest` are with
`Memstore`, whose lemmas they use. The constants are
arbitrary: sizes of queues, FIFOs, pages, packets and blocks, sets of bytes, numbers of
requests, slots, files and restarts. Assumed of them is what the modules' ASSUMEs say
(that sizes are numbers, mostly positive; in `Bootstrap` that the addresses are laid out
as in the line of BASIC; in `Packets` that bytes are numbers; in `McpClient` that the
ring holds every command of a behaviour; in `McpInput` which items a client sends, as
told above; in `AllocTest` that the changes lie inside the page and the
script reaches to the first). A theorem that assumes more has it as a hypothesis, and it is
named below.

| module | theorem | states | if |
|---|---|---|---|
| `QueueUse` | `TypeCorrect` | `TypeOK` | |
| | `RingIsFifo` | `RefinesByteFifo` | the ring is never filled exactly |
| `McpLoop` | `TypeCorrect` | `TypeOK` | |
| | `SendLockEnds` | `SendLockCountsBytesToSend` | the client has its page before it asks for more |
| | `ReceiveLockEnds` | `ReceiveLockCountsMissingBytes` | clients send as much data as is wanted |
| | `LoopIsService` | `RefinesCommandService` | no answer can be lost |
| `McpInput` | `TypeCorrect` | `TypeOK`, in which the read index may be -1 | |
| | `WhatWasSentIsServed` | `ServesWhatWasSent` | |
| | `StraysNowhereElse` | `StraysOnlyWhereKnown` | |
| `McpClient` | `TypeCorrect` | `TypeOK` | |
| | `AnswersAreTakenInOrder` | accepted answers are a part of those served, in order | |
| | `AnswersAreWhole` | `AcceptedIsWhole` | what is served was sent, once and in order |
| `Memstore` | `TypeCorrect` | `TypeOK` | |
| | `CommandsAreSplices` | `CommandsSplice` | |
| | `RefusedCommandsChangeNothing` | `RefusalsKeepContents` | |
| | `FreeAloneLosesStreams` | `StreamsLostByFreeOnly` | |
| `AllocTest` | `TestTypeCorrect` | `TestTypeOK` | |
| | `RunsSaveTheirChanges` | `RunSavesItsChanges` | |
| | `RunsLeaveOneAllocationEach` | `LeavesOneAllocationARun` | |
| `Loopback` | `TypeCorrect` | `TypeOK` | |
| | `BytesStayInOrder` | `NeverOutOfOrder` | |
| | `StraysCountResets` | `OneStrayByteAReset` | |
| | `NothingIsLostAtFirst` | `NothingIsLost` | a test fits the Pi's ring |
| `Bootstrap` | `TypeCorrect` | `TypeOK` | |
| | `LineCallsLoader` | `LoaderIsWhole` | |
| | `ProgramRunsWhole` | `ProgramIsWhole` | |

### QueueUse

The hypothesis of `RingIsFifo` is `MayFillExactly = FALSE`; without it the theorem is
false (see "Runs"). `%` is eliminated first. `RemainderOfTwoTurns` is the only fact about
it that the solver needs; with it `NumberToRead` becomes the `Distance` from the
read to the store index going round the ring (`NumberToReadIsDistance`) and the
free count its complement (`FreeSlots`). A write stores at distances that are not
unread (`StoreAppends`, by `DistanceFromStore` and `DistanceGrows`), so the unread
bytes are the old ones followed by the new; a read leaves the bytes beyond the
distance read (`ReadTakesPrefix`). `AcceptedWriteFits` is where exact filling is
excluded: an accepted write leaves fewer than QUEUE_SIZE bytes unread. The type
invariant is inductive and is all the strengthening that is needed: nothing is
stored between the mark and the step back, so neither the slots nor the store index
change, and the bytes unread from the mark on are the same throughout.

### SeqSums

The number of bytes in a queue of packets is a sum over a sequence, and the requests
that wait are the part of the sequence that are commands. Theorems of induction take
operators as parameters, which no prover at hand can instantiate; so both are recursive
functions on the length of a prefix, and `NumbersByInduction` states induction for a set of
numbers, from the least number of its complement (`LeastNumber`). `SumOfConcat` and
`ThoseOfConcat` follow, which take a sequence apart at any place.

### McpLoop

The inductive invariant is `IInv == Queues /\ Locks /\ ServerState`.

- `Queues` keeps the books of the bytes. The unread bytes of `in_queue` are some of
  those in `stream`; what is neither there nor in the card is not yet written and not
  negative; the same for `out`. In `stream` only the first packet can be what is left of
  one (`RestFirst`), each SALLOC or IALLOC has its data behind it (`StoresPaired`),
  nothing follows a RESET (`ResetLast`). The commands in `stream` that get an answer and
  the last answers in `out` are together no more than the requests that are open
  (`Counted`).
- `Locks`: the send lock is never negative, and, if the client waits for its page, it
  counts at least 11 bytes less than are still in `out_queue`: nothing follows RALLOC in
  `stream` (`RallocLast`), so no byte of another request is counted into it. The 11 are the 14
  bytes of the answer that goes before the page, less the 3 of the command's own
  terminator, unread when the lock is computed. So the lock ends early, and the
  comment before it, that no command is processed until the page has been sent, is not
  quite so; no harm comes of it. The receive lock
  counts what is to come of the data, if the client sends as much as is wanted; else it
  may become negative.
- `ServerState` is the types of the table and of the counters.

Hypotheses. `WaitsForPage` is how `mcplib.s` and `alloctest` work. `DataAsWanted` says
that clients send a page with SALLOC and the length they gave with IALLOC. Without
them the two lock properties are false (see "Runs"). `NoAnswerIsLost`: BadCommand looks
for no space, and SHUTDOWN asks for 30 bytes and needs 32, so either they are not
sent, or there is one request at a time and `out_queue` has more than 32 bytes; it has
131070 in the code.

`LoopIsService`: a request the client sends is `Ask`, a handler that is done is `Serve`, the
last byte of an answer that the client reads is `Receive`. Every other step of loop,
card and client maps to a stutter (`StepIsServed`), since it keeps the commands of
`stream` (skipping takes only what is left of a packet) and the answers of `out`. That a
handler's answer finds space is where `NoAnswerIsLost` comes in (`AloneThereIsSpace`):
with one request open and its command waiting, `Counted` leaves no answer under way.

### McpInput

That the commands taken up are a prefix of those sent is not inductive: it says nothing of
what is still in the ring. `KeepsPlace` does. It holds all bytes ever sent as one sequence
S, and all commands meant as E.

- `Laid`: packets lie at places of S, each with the bytes of an item, and between the
  end of one and the next (or the end of S) the bytes are `Harmless`. Each is marked with how
  many commands come before it in E, and its own meaning follows there.
- `Reads`: the server has read x bytes of S; the ring shows those behind x, up to the ones
  still to come. From x to the k-th packet all is harmless, and what has been served is just
  what is meant before that packet.

`Harmless` must hold whatever comes next, as the server may look after any byte: what looks
like the beginning of a `+++` at the end of the ring is left there (`SkipKeeps`), and a
full `+++` can only be that of the next packet (`NoneInside`, `AtPacket`). An item that is
sent goes to the end of S: noise makes the last gap longer, a packet is one more in `Laid`
(`SendStep`).

When a packet has come, the ring shows its bytes in front (`AtFront`), so each operator of
`Packets` and `command.c` on the ring says what it says of the bytes as a sequence:
`WellFormedIs`, and for the name `CommandText` against `NameEnd` (`CommandIsFound`). A handler stops
in the packet or behind it, the terminator is skipped or not, and what is left of the
packet is harmless; hence one lemma for all of them (`ServeKeeps`): the server is at x' in front
of the next packet and has served one more, the one meant. Where a handler would leave the
bytes that have come it has strayed, and `KeepsPlace` says no more.

For the read index at -1 `Shown` gives the queue with the index at the last slot instead,
with a byte there that may be any: it shows the same bytes from the next on. That the one step
back leads there, and to a place where two bytes of the terminator are left, is `OneBack`;
the next skip or search brings the index into the ring (`OneBefore` has a lemma for each).

All three theorems are about every ring, however small: what does not fit waits in `coming`,
and a packet longer than the ring never arrives.

### Memstore

`IInv` says that a slot is free, or has its own number and as many bytes as its pages
have together, and that the streams of the slots (`Loaded`) are no more than those open.
The latter is what makes closing one legal and `open` a natural number.

The handlers move bytes in loops over an array, `PageStore` cuts and joins sequences.
Between them is `Rewrites(id, d, stream)`: one slot has the bytes `d` now. Each command
that succeeds is shown to be such a step, and a step such that `Contents' = [Contents
EXCEPT ![id] = Sequence(...)]`. Then two sequences are compared member by member, with
`SpliceAt` and `SpliceIs` for what `Splice` has at a place, `PartsOf` for `SubSeq` and `JoinIs` for
`\o`. `Kept` is what every step does besides: the invariant, streams, refusals.

### McpClient

Types: everything on its way to the server, in the ring or still to be sent comes from
one of the commands so far, each at most `Longest` bytes (`Budget`). Hence the ring that
`in_queue` is put into for a look has room (`RingHolds`), and what the functions of
`packet.c` leave is read on within it (`Behind`, one lemma for each function).

Answers: an accepted answer is put together from bytes that come one at a time, while
any reset cuts off what is in the FIFO and in the program. `Way == got \o down \o
out_queue` is all of that in one sequence. A reset, a program that gives up and one that
has finished take bytes off its front and nothing else (`WayShortens`), a command that
is carried out puts ten at its end (`WayGrows`), every other step leaves it as it is.

- `EndOfAnswers`: the way is the end of all answers ever written. A byte's answer and
  place in it (`Place`) are counted from the end, so that a loss at the front moves none.
- `BegunAtFirst`: once the first six bytes are found to be good, they are the first six of
  an answer. That is where the `+++` matters: no other byte of an answer is followed by
  two more to give one (`OnlyAtFirst`). The size is then that of an answer, ten bytes.
- `TakenInOrder`: the answers taken are all before the way, so the next one taken is a
  later one.

The hypothesis of `AnswersAreWhole`, `ServedWasSent`, is about the commands, not the
answers; it is what `mcp_client` checks on the instance, and depends on the lengths of the
packets. `AnswersAreTakenInOrder` needs no hypothesis. In the model an answer is one
letter; longer text that itself holds a `+++` is outside the theorem, as is the answer to a
name that is no command.

### AllocTest

The inductive invariant is `TestInv == Wellformed /\ StoreKept /\ InGoodOrder`. The lemmas
about one command are those of `Memstore_proofs`, and the test adds what lies between two
commands: those of a broken-off run are carried out when a later run is already at work.

`Wellformed` is about test and server. Besides the types it has

- `InLine`: the commands waiting and the one to be sent next (`Ask(i)`, the first of which
  is `Now`) follow each other as in the test, or the next one is the first CALLOC of a later
  run; nothing of the same run is behind a cut command. A restart keeps that
  (`RunsInLine`), though it takes a part of what waits.
- `Lockstep`: a run that found nothing under way is alone with the server: on the way is
  its own command, or the answer, or answer and page. Hence it misreads nothing, and meets
  no lock that ends late.

`StoreKept` is about the allocations, whatever runs there were. It is stated in terms of
`Now` and not of the place of the test, which may be further on:

- `IInv` of `Memstore`, and every allocation has pages of 1K (`SmallPages`).
- `Counted`: no more slots are taken than the number of the run whose command is carried out
  next, fewer when that is CALLOC or when it finds allocation 1 missing. A CALLOC that is
  given another slot finds slot 1 taken, by a run that was broken off.
- `StreamClosed`: what FALLOC finds has been saved, and PISALLOC closes the stream. Hence
  no run loses one, though `FALLOC` alone would.
- `ScriptStays`: no part saves over the script.

`InGoodOrder` is about a run that found nothing under way and has no error, read or waiting
to be read (`Good`). The files of the parts that are done hold what they are meant to
(`SavedSoFar`), and allocation 1 has at each place what the next command counts on
(`Work`). After the first CALLOC nothing is known of its bytes, as an earlier run may have
left it; loading makes them the script up to the place of the change; each later part
starts with a new page of zeros and so has the whole page. What SALLOC is going to store
(`InHand`) is in the command, in the test's buffer, or in the page that is still unread.
`IntendedIs` tells the three `Intended` sequences byte by byte, and each command of the
middle is compared with them (`StorePageStep`, `InsertStep`, `CutStep`).

The proof has one lemma for each command that is carried out, one for each step of the test and
`RunStep` for its restart; the latter change no allocation (`StoreStays`, `OrderStays`), and
most move no command either (`NoneMoves`). A refused command leaves only `StoreKept` to
keep. `CommandKeeps` is what all commands between CALLOC and FALLOC have in common.

### Loopback

`CallOK` and `PiOK` are the inductive type invariant. They say that a FIFO that was found
ready is ready still when the byte is moved, though the two are steps apart: the other
side only empties the one and fills the other; a reset sends the CPC back to the start,
and it empties what the Pi writes into.

The bytes on their way are `Behind \o up`: `rx`, `down` and the ring, then the FIFO to the
Pi. A step leaves out some of `Behind` (`PartOf`) or puts the sampled byte at its end. The
ring's indices are dealt with by `RingStores` and `RingTakes`. When the ring overflows
it looks empty: that loses bytes and puts none in disorder, so three of the theorems
need no hypothesis.

- `Order`: the bytes rise up to the last one sent, and a byte that is sampled and not yet
  stored lies between those behind and those still in the FIFO, or is its first. That
  holds even if a reset has emptied the FIFO between sampling and storing.
- `StraysOK` counts in a stray that is coming: sampled, or about to be because the reset
  came after the Pi looked at DOR.
- `Fresh` (until the first restart): the bytes on their way are those sent and not read,
  by number. The ring must not fill. A test has at most as many bytes as the ring has
  slots, so it would take a whole test in the ring with none in `down`: but as long as
  nothing is in `down` and nothing has been received, the Pi passes on every byte it
  stores, and the ring has one at most. The hypothesis `RingHoldsATest` is true of the
  programs: 8192 both.

### Bootstrap

`IInv == TypeOK /\ (~hasty => InStep /\ Place)`. `Taken` is the number of bytes that the CPC
has taken, told by what it is doing. `InStep`: after the filling `down` has the bytes of the
stream from there up to `sent`; `Place` says what the line and the loader have done so far
with those before. A byte that the CPC takes is then the next of `Stream`, in whose parts
(`StreamIs`) it is a byte of the loader, the length, the address, the program or the
entry; `WordMakesNumber` is the one fact about `%` and `\div`.

### Only model-checked

- Liveness under fairness, which is beyond TLAPS here.
- Of `McpClient` what is said of the commands, `ServedWasSent` and `ACutCostsOneMore`. They
  are about the parser on packets that have been cut anywhere and run into the next. Both
  depend on the lengths of the packets, as said above, and for other lengths they are false.

## Not modelled

- Timing of the electrical kind: the delays in `fifolib.c`, the block routines
  without status, test 4 of the loopback.
- The text of answers, HELP and TIME, and what the shell does.
- The output of SHELLEXEC and of WIFIIP. The code runs a shell command, reads its
  output from a file and puts the command back when `out_queue` has no space, so that
  the shell command is run again (`command_general.c:440`). The space it asks for
  leaves out the 9 bytes of the packet, so for output that fits barely the first
  packet is dropped.
- `helptest`, and in `mcplib.s` the check of the BASIC parameters, where the two reply
  calls are documented with four parameters and test for three, and the draining of
  answers of 4096 bytes or more, which the server does not send.
- The heap: `command_store_alloc` returns without freeing its buffer when the
  data has not come.
- A failing `fseek`, `fread` or `fwrite` in the middle of a file.
- The debugging build (DEBUG_MCP_IF, DEBUG_MCP_2), which injects test messages.
- Netlists and board files; the Python, BASIC and BCPL loopback programs; the VDU
  demonstrations, which have no protocol.

## Plan

Done: ring, its abstract store and proofs; loop with locks, table and client, and
its abstract service; input; memory; card with loopback; clients with restarts;
the test of the memory commands; bootstrap. In this order next:

1. **Proofs.** `ServedWasSent` and `ACutCostsOneMore` of `McpClient`, with a hypothesis on
   the lengths of the packets. `KeepsPlace` of `McpInput_proofs` is the pattern, with parts
   of packets at the places.
2. **McpLoop.** SHELLEXEC, whose shell command runs again when its output finds no
   space; REBOOT.
3. **Compositions.** `McpLoop`'s `page` with `Memstore`'s bytes.
