----------------------------- MODULE Bootstrap ------------------------------
(***************************************************************************)
(* How the Pi starts a program on a CPC that has none: bootstrap.c on the  *)
(* Pi, bootloader.s on the CPC, and the line of BASIC that fetches it:     *)
(*     FOR I=110 TO 170: POKE I,INP(&FD80): NEXT: CALL 126                 *)
(* The line reads the data port without a look at the status.  It relies   *)
(* on the Pi having filled the FIFO down to the last byte before it is     *)
(* typed, and on the Pi being faster than BASIC.  The model lets the user  *)
(* and BASIC be "hasty" and keeps note of it.                              *)
(***************************************************************************)
EXTENDS FifoCard

CONSTANTS
  BASE,             (* values of a byte: 256                                *)
  LOADER,           (* the bytes of bootloader.bin, LOADER_LEN of them      *)
  PAYLOAD,          (* the bytes of the program, BIN_LEN of them            *)
  FILL,             (* what the FIFO is filled with: &E5                    *)
  STALE,            (* the bytes the FIFOs may hold to begin with           *)
  FIRST, LAST,      (* where the line puts what it reads: 110 and 170       *)
  CALL_ADDRESS,     (* what it calls: 126                                   *)
  BIN_LOAD_ADDR, BIN_ENTRY_ADDR

Byte    == 0 .. BASE - 1
Address == 0 .. BASE * BASE - 1

ASSUME ByteAssumption ==
  /\ BASE \in Nat \ {0, 1}
  /\ LOADER \in Seq(Byte) /\ PAYLOAD \in Seq(Byte) /\ FILL \in Byte
  /\ STALE \subseteq Byte
ASSUME AddressAssumption ==
  /\ FIRST \in Address /\ LAST \in Address /\ CALL_ADDRESS \in FIRST .. LAST
  /\ BIN_LOAD_ADDR \in Address /\ BIN_ENTRY_ADDR \in Address
  /\ Len(PAYLOAD) \in Address \ {0}

(* "45 bytes + 16 bytes flushing of FIFO", and the payload lies elsewhere.  *)
ASSUME LayoutAssumption ==
  /\ CALL_ADDRESS = FIRST + DEPTH
  /\ LAST = CALL_ADDRESS + Len(LOADER) - 1
  /\ BIN_LOAD_ADDR > LAST /\ BIN_LOAD_ADDR + Len(PAYLOAD) - 1 \in Address

VARIABLES
  pi,           (* what bootstrap.c is doing                                *)
  sent,         (* bytes of Stream it has sent                              *)
  cpc,          (* what the CPC is doing                                    *)
  address,      (* I of the line, HL of the loader                          *)
  count,        (* DE of the loader: bytes still to load                    *)
  low,          (* L of gethl: the first byte of a word, or NoByte          *)
  memory,
  hasty         (* has the line read a byte that was not there for it       *)

vars == <<cardVars, pi, sent, cpc, address, count, low, memory, hasty>>

NoByte == -1

(* faulty variant: the high byte first *)
WordHighFirst(n) == <<n \div BASE, n % BASE>>

Word(n) == <<n % BASE, n \div BASE>>

(* What follows the filling: loader, header, program, entry address.        *)
Stream ==
  LOADER \o Word(Len(PAYLOAD)) \o Word(BIN_LOAD_ADDR) \o PAYLOAD
    \o Word(BIN_ENTRY_ADDR)

(* "Pi starts up first with FIFO in unknown state". *)
Init ==
  /\ \E m, n \in 0 .. DEPTH :
       up \in [1 .. m -> STALE] /\ down \in [1 .. n -> STALE]
  /\ pi = "flush" /\ sent = 0
  /\ cpc = "ready"
  /\ address = FIRST /\ count = 0 /\ low = NoByte
  /\ memory = [a \in Address |-> NoByte]
  /\ hasty = FALSE

-----------------------------------------------------------------------------
(* The Pi. *)

piKeeps == <<cpc, address, count, low, memory, hasty>>

Flush ==
  /\ pi = "flush"
  /\ up' = ShiftedOut(up)
  /\ pi' = IF OutputReady(up) THEN "flush" ELSE "topup"
  /\ UNCHANGED <<down, sent, piKeeps>>

(* faulty variant: the FIFO is taken to be full *)
TopUpNothing ==
  /\ pi = "topup"
  /\ pi' = "send"
  /\ UNCHANGED <<cardVars, sent, piKeeps>>

TopUp ==
  /\ pi = "topup"
  /\ down' = ShiftedIn(down, FILL)
  /\ pi' = IF InputReady(down) THEN "topup" ELSE "send"
  /\ UNCHANGED <<up, sent, piKeeps>>

(* fifo_send_byte, of the loader and all that comes after it.               *)
SendByte ==
  /\ pi = "send" /\ sent < Len(Stream)
  /\ InputReady(down)
  /\ down' = ShiftedIn(down, Stream[sent + 1])
  /\ sent' = sent + 1
  /\ UNCHANGED <<up, pi, piKeeps>>

Pi == Flush \/ TopUp \/ SendByte

-----------------------------------------------------------------------------
(* The line of BASIC. *)

TypeLine ==
  /\ cpc = "ready"
  /\ cpc' = "line"
  /\ UNCHANGED <<cardVars, pi, sent, address, count, low, memory, hasty>>

(* POKE I,INP(&FD80) *)
PokeInput ==
  /\ cpc = "line" /\ address <= LAST
  /\ memory' = [memory EXCEPT ![address] = Output(down)]
  /\ address' = address + 1
  /\ down' = ShiftedOut(down)
  /\ hasty' = (hasty \/ pi # "send" \/ ~OutputReady(down))
  /\ UNCHANGED <<up, pi, sent, cpc, count, low>>

LoaderInPlace ==
  \A i \in 1 .. Len(LOADER) : memory[CALL_ADDRESS + i - 1] = LOADER[i]

(* CALL 126.  What the CPC does when something else than the loader is      *)
(* there is not followed.                                                   *)
Call ==
  /\ cpc = "line" /\ address > LAST
  /\ cpc' = IF LoaderInPlace THEN "length" ELSE "lost"
  /\ UNCHANGED <<cardVars, pi, sent, address, count, low, memory, hasty>>

-----------------------------------------------------------------------------
(* The loader.  It waits for each byte (getbyte).                           *)

GetByte ==
  /\ OutputReady(down)
  /\ down' = ShiftedOut(down)
  /\ UNCHANGED <<up, pi, sent, hasty>>

GetLow ==
  /\ cpc \in {"length", "destination", "entry"} /\ low = NoByte
  /\ GetByte
  /\ low' = Output(down)
  /\ UNCHANGED <<cpc, address, count, memory>>

(* The second byte of gethl makes the word. *)
GetHL(at) ==
  /\ cpc = at /\ low # NoByte
  /\ GetByte
  /\ low' = NoByte

HL == low + BASE * Output(down)

GetLength ==
  /\ GetHL("length")
  /\ count' = HL
  /\ cpc' = "destination"
  /\ UNCHANGED <<address, memory>>

GetDestination ==
  /\ GetHL("destination")
  /\ address' = HL
  /\ cpc' = "onemore"
  /\ UNCHANGED <<count, memory>>

(* faulty variant: the count is tested before it is taken down *)
AfterByteBefore == IF count = 0 THEN "entry" ELSE "onemore"

(* dec de, and on with the entry address when it has come down to 0.        *)
AfterByte == IF count = 1 THEN "entry" ELSE "onemore"

(* Both registers have 16 bits: a length of 0 is one of 65536.              *)
OneMore ==
  /\ cpc = "onemore"
  /\ GetByte
  /\ memory' = [memory EXCEPT ![address] = Output(down)]
  /\ address' = (address + 1) % (BASE * BASE)
  /\ count' = (count - 1) % (BASE * BASE)
  /\ cpc' = AfterByte
  /\ UNCHANGED low

(* push hl, ret: the program runs from HL. *)
GetEntry ==
  /\ GetHL("entry")
  /\ address' = HL
  /\ cpc' = "program"
  /\ UNCHANGED <<count, memory>>

Cpc == PokeInput \/ Call \/ GetLow \/ GetLength \/ GetDestination \/ OneMore \/ GetEntry

(* The program runs and no more happens here. *)
Next == Pi \/ TypeLine \/ Cpc

(* Both machines go on once they have begun. *)
Spec == Init /\ [][Next]_vars /\ WF_vars(Pi) /\ WF_vars(Cpc)

-----------------------------------------------------------------------------

TypeOK ==
  /\ up \in Seq(Byte) /\ down \in Seq(Byte)
  /\ Len(up) <= DEPTH /\ Len(down) <= DEPTH
  /\ pi \in {"flush", "topup", "send"} /\ sent \in 0 .. Len(Stream)
  /\ cpc \in {"ready", "line", "length", "destination", "onemore", "entry",
              "program", "lost"}
  /\ address \in Address /\ count \in Address
  /\ low \in Byte \cup {NoByte}
  /\ memory \in [Address -> Byte \cup {NoByte}]
  /\ hasty \in BOOLEAN

(* Whatever the FIFOs held and however Pi and CPC interleave, the line does *)
(* not call anything but the whole loader, if it is typed after the Pi has  *)
(* filled the FIFO and never finds it empty.                                *)
LoaderIsWhole == cpc = "lost" => hasty

(* When the program runs, all of it is in its place, it is entered where it *)
(* says, and nothing of the loading is left in the FIFO for it to read.     *)
(* After a hasty line this is not so even if the loader is whole: it ends   *)
(* with nops, which are what an empty FIFO gives, and the nops that come    *)
(* too late are then taken for the length of the program.                   *)
ProgramIsWhole ==
  cpc = "program" /\ ~hasty =>
    /\ \A i \in 1 .. Len(PAYLOAD) : memory[BIN_LOAD_ADDR + i - 1] = PAYLOAD[i]
    /\ address = BIN_ENTRY_ADDR
    /\ down = << >> /\ sent = Len(Stream)

(* Once the line is typed the program runs in the end: neither side waits   *)
(* for a byte that the other does not send.                                 *)
LoadingFinishes == cpc = "line" ~> (cpc = "program" \/ hasty)

=============================================================================
