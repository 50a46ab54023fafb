-------------------------- MODULE Bootstrap_proofs --------------------------
(***************************************************************************)
(* Proofs about the bootstrap, for every depth of the FIFO, loader,        *)
(* program, addresses and first contents of the FIFOs: the types, and that *)
(* a line that is not hasty calls the whole loader, which then starts the  *)
(* whole program.  The invariant says where in the stream of the Pi the    *)
(* CPC is: the bytes it has taken and those in the FIFO are what has been  *)
(* sent, in order.                                                         *)
(***************************************************************************)
EXTENDS Bootstrap, TLAPS

(* Bytes of the word under way. *)
OfWord == IF low = NoByte THEN 0 ELSE 1

(* Bytes the CPC has taken from the FIFO, the filling included. *)
Taken ==
  CASE cpc = "ready"       -> 0
    [] cpc = "line"        -> address - FIRST
    [] cpc = "length"      -> DEPTH + Len(LOADER) + OfWord
    [] cpc = "destination" -> DEPTH + Len(LOADER) + 2 + OfWord
    [] cpc = "onemore"     -> DEPTH + Len(LOADER) + 4 + (Len(PAYLOAD) - count)
    [] cpc = "entry"       -> DEPTH + Len(LOADER) + 4 + Len(PAYLOAD) + OfWord
    [] OTHER               -> DEPTH + Len(LOADER) + 6 + Len(PAYLOAD)

(* After the filling and t bytes taken, fifo has what is left of the first  *)
(* s bytes of the stream.                                                   *)
InOrder(fifo, t, s) ==
  /\ t + Len(fifo) = DEPTH + s
  /\ \A i \in 1 .. Len(fifo) : t + i > DEPTH => fifo[i] = Stream[t + i - DEPTH]

Loaded(n) == \A i \in 1 .. n : memory[BIN_LOAD_ADDR + i - 1] = PAYLOAD[i]

(* The machines are in step. *)
InStep ==
  /\ pi # "send" => sent = 0 /\ Taken = 0
  /\ pi = "send" => InOrder(down, Taken, sent)

(* What the line and the loader have done so far. *)
Place ==
  /\ cpc \in {"ready", "line", "onemore", "program"} => low = NoByte
  /\ low # NoByte => low = Stream[Taken - DEPTH]
  /\ cpc = "ready" => address = FIRST
  /\ cpc = "line" =>
       /\ address \in FIRST .. LAST + 1
       /\ \A i \in 1 .. Len(LOADER) :
            CALL_ADDRESS + i - 1 < address => memory[CALL_ADDRESS + i - 1] = LOADER[i]
  /\ cpc = "destination" => count = Len(PAYLOAD)
  /\ cpc = "onemore" =>
       /\ count \in 1 .. Len(PAYLOAD)
       /\ address = BIN_LOAD_ADDR + (Len(PAYLOAD) - count)
       /\ Loaded(Len(PAYLOAD) - count)
  /\ cpc \in {"entry", "program"} => Loaded(Len(PAYLOAD))
  /\ cpc = "program" => address = BIN_ENTRY_ADDR
  /\ cpc # "lost"

Aligned == ~hasty => InStep /\ Place

IInv == TypeOK /\ Aligned

-----------------------------------------------------------------------------
(* Words and addresses. *)

(* The constants are what the arithmetic of the proofs takes them to be. *)
LEMMA Numbers ==
  /\ BASE \in Nat /\ BASE > 1 /\ DEPTH \in Nat /\ DEPTH > 0
  /\ Len(LOADER) \in Nat /\ Len(PAYLOAD) \in Nat /\ Len(PAYLOAD) > 0
  /\ FIRST \in Nat /\ CALL_ADDRESS = FIRST + DEPTH
  /\ LAST = FIRST + DEPTH + Len(LOADER) - 1
  /\ BIN_LOAD_ADDR \in Nat /\ BIN_LOAD_ADDR > LAST /\ BIN_ENTRY_ADDR \in Nat
  /\ NoByte = -1 /\ NotAByte = 0
<1>1. BASE \in Nat /\ BASE > 1 /\ DEPTH \in Nat /\ DEPTH > 0
  BY ByteAssumption, DepthAssumption
<1>2. Len(LOADER) \in Nat /\ Len(PAYLOAD) \in Nat
  BY ByteAssumption
<1>3. BASE * BASE \in Nat
  BY <1>1
<1>4. Len(PAYLOAD) > 0
  BY <1>2, <1>3, AddressAssumption DEF Address
<1>5. FIRST \in Nat /\ BIN_LOAD_ADDR \in Nat /\ BIN_ENTRY_ADDR \in Nat
  BY <1>3, AddressAssumption DEF Address
<1>6. CALL_ADDRESS = FIRST + DEPTH /\ LAST = FIRST + DEPTH + Len(LOADER) - 1
      /\ BIN_LOAD_ADDR > LAST
  BY <1>1, <1>2, <1>5, LayoutAssumption
<1> QED
  BY <1>1, <1>2, <1>4, <1>5, <1>6 DEF NoByte, NotAByte

(* Addresses are numbers of two bytes. *)
LEMMA AddressesAreNumbers ==
  /\ BASE * BASE \in Nat /\ BASE * BASE > 1
  /\ FIRST \in Address /\ LAST \in Address
  /\ BIN_LOAD_ADDR \in Address /\ BIN_ENTRY_ADDR \in Address
  /\ Len(PAYLOAD) \in Address /\ BIN_LOAD_ADDR + Len(PAYLOAD) - 1 \in Address
<1>1. BASE * BASE \in Nat /\ BASE * BASE > 1
  BY Numbers
<1> QED
  BY <1>1, AddressAssumption, LayoutAssumption

(* The two bytes of an address make that address again. *)
LEMMA WordMakesNumber ==
  ASSUME NEW n \in Address
  PROVE  /\ n % BASE \in Byte /\ n \div BASE \in Byte
         /\ (n % BASE) + BASE * (n \div BASE) = n
<1>1. BASE \in Nat /\ BASE > 1 /\ n \in Nat /\ n < BASE * BASE
  BY Numbers DEF Address
<1>2. n % BASE \in 0 .. BASE - 1 /\ n \div BASE \in Nat
      /\ n = BASE * (n \div BASE) + (n % BASE)
  BY <1>1
<1>3. n \div BASE < BASE
  <2>1. SUFFICES ASSUME n \div BASE >= BASE PROVE FALSE
    BY <1>1, <1>2
  <2>2. BASE * (n \div BASE) >= BASE * BASE
    BY <1>1, <1>2, <2>1
  <2> QED
    BY <1>1, <1>2, <2>2
<1> QED
  BY <1>1, <1>2, <1>3 DEF Byte

(* Any two bytes make an address. *)
LEMMA BytesMakeAddress ==
  ASSUME NEW l \in Byte, NEW h \in Byte
  PROVE  l + BASE * h \in Address
<1>1. BASE \in Nat /\ BASE > 1 /\ l \in 0 .. BASE - 1 /\ h \in 0 .. BASE - 1
  BY Numbers DEF Byte
<1>2. BASE * h \in Nat /\ BASE * h <= BASE * (BASE - 1)
  BY <1>1
<1>3. BASE * (BASE - 1) = BASE * BASE - BASE
  BY <1>1
<1> QED
  BY <1>1, <1>2, <1>3 DEF Address

(* The element at a place of two sequences put together. *)
LEMMA AtOfConcat ==
  ASSUME NEW S, NEW s \in Seq(S), NEW t \in Seq(S), NEW r, r = s \o t
  PROVE  /\ r \in Seq(S) /\ Len(r) = Len(s) + Len(t)
         /\ \A i \in 1 .. Len(s) : r[i] = s[i]
         /\ \A i \in 1 .. Len(t) : r[Len(s) + i] = t[i]
<1>1. r \in Seq(S) /\ Len(r) = Len(s) + Len(t) /\ \A i \in 1 .. Len(s) : r[i] = s[i]
  OBVIOUS
<1>2. ASSUME NEW i \in 1 .. Len(t) PROVE r[Len(s) + i] = t[i]
  OBVIOUS
<1> QED
  BY <1>1, <1>2

(* A word in the stream. *)
LEMMA WordIsBytes ==
  ASSUME NEW n \in Address
  PROVE  /\ Word(n) \in Seq(Byte) /\ Len(Word(n)) = 2
         /\ Word(n)[1] = n % BASE /\ Word(n)[2] = n \div BASE
  BY WordMakesNumber DEF Word

(* What is where in the stream. *)
LEMMA StreamIs ==
  /\ Stream \in Seq(Byte) /\ Len(Stream) = Len(LOADER) + 6 + Len(PAYLOAD)
  /\ \A i \in 1 .. Len(LOADER) : Stream[i] = LOADER[i]
  /\ Stream[Len(LOADER) + 1] = Len(PAYLOAD) % BASE
  /\ Stream[Len(LOADER) + 2] = Len(PAYLOAD) \div BASE
  /\ Stream[Len(LOADER) + 3] = BIN_LOAD_ADDR % BASE
  /\ Stream[Len(LOADER) + 4] = BIN_LOAD_ADDR \div BASE
  /\ \A i \in 1 .. Len(PAYLOAD) : Stream[Len(LOADER) + 4 + i] = PAYLOAD[i]
  /\ Stream[Len(LOADER) + 5 + Len(PAYLOAD)] = BIN_ENTRY_ADDR % BASE
  /\ Stream[Len(LOADER) + 6 + Len(PAYLOAD)] = BIN_ENTRY_ADDR \div BASE
<1> DEFINE a == LOADER
           b == Word(Len(PAYLOAD))
           c == Word(BIN_LOAD_ADDR)
           d == PAYLOAD
           e == Word(BIN_ENTRY_ADDR)
           ab == a \o b
           abc == ab \o c
           abcd == abc \o d
           s == abcd \o e
<1>1. a \in Seq(Byte) /\ d \in Seq(Byte) /\ Len(a) \in Nat /\ Len(d) \in Nat
  BY ByteAssumption
<1>2. /\ b \in Seq(Byte) /\ c \in Seq(Byte) /\ e \in Seq(Byte)
      /\ Len(b) = 2 /\ Len(c) = 2 /\ Len(e) = 2
      /\ b[1] = Len(PAYLOAD) % BASE /\ b[2] = Len(PAYLOAD) \div BASE
      /\ c[1] = BIN_LOAD_ADDR % BASE /\ c[2] = BIN_LOAD_ADDR \div BASE
      /\ e[1] = BIN_ENTRY_ADDR % BASE /\ e[2] = BIN_ENTRY_ADDR \div BASE
  BY WordIsBytes, AddressesAreNumbers
<1>3. Stream = s
  BY DEF Stream
<1>4. Len(PAYLOAD) = Len(d) /\ Len(LOADER) = Len(a) /\ LOADER = a /\ PAYLOAD = d
  OBVIOUS
<1>5. ab = a \o b /\ abc = ab \o c /\ abcd = abc \o d /\ s = abcd \o e
  OBVIOUS
<1> HIDE DEF a, b, c, d, e, ab, abc, abcd, s
<1>6. a \in Seq(Byte) /\ b \in Seq(Byte)
  BY <1>1, <1>2
<1>7. c \in Seq(Byte) /\ d \in Seq(Byte)
  BY <1>1, <1>2
<1>8. e \in Seq(Byte)
  BY <1>2
<1>9. ab \in Seq(Byte) /\ Len(ab) = Len(a) + Len(b)
      /\ (\A i \in 1 .. Len(a) : ab[i] = a[i])
      /\ (\A i \in 1 .. Len(b) : ab[Len(a) + i] = b[i])
  BY <1>5, <1>6, AtOfConcat
<1>10. abc \in Seq(Byte) /\ Len(abc) = Len(ab) + Len(c)
      /\ (\A i \in 1 .. Len(ab) : abc[i] = ab[i])
      /\ (\A i \in 1 .. Len(c) : abc[Len(ab) + i] = c[i])
  BY <1>5, <1>7, <1>9, AtOfConcat
<1>11. abcd \in Seq(Byte) /\ Len(abcd) = Len(abc) + Len(d)
      /\ (\A i \in 1 .. Len(abc) : abcd[i] = abc[i])
      /\ (\A i \in 1 .. Len(d) : abcd[Len(abc) + i] = d[i])
  BY <1>5, <1>7, <1>10, AtOfConcat
<1>12. s \in Seq(Byte) /\ Len(s) = Len(abcd) + Len(e)
      /\ (\A i \in 1 .. Len(abcd) : s[i] = abcd[i])
      /\ (\A i \in 1 .. Len(e) : s[Len(abcd) + i] = e[i])
  BY <1>5, <1>8, <1>11, AtOfConcat
<1> DEFINE n == Len(a)
           m == Len(d)
<1>13. n \in Nat /\ m \in Nat /\ Len(ab) = n + 2 /\ Len(abc) = n + 4
       /\ Len(abcd) = n + 4 + m /\ Len(s) = n + 6 + m
  BY <1>1, <1>2, <1>9, <1>10, <1>11, <1>12
<1>14. s[Len(a) + 1] = b[1] /\ s[Len(a) + 2] = b[2]
  <2>1. ab[n + 1] = b[1] /\ ab[n + 2] = b[2]
    BY <1>2, <1>9
  <2>2. \A i \in 1 .. n + 2 : abc[i] = ab[i]
    BY <1>10, <1>13
  <2>3. \A i \in 1 .. n + 4 : abcd[i] = abc[i]
    BY <1>11, <1>13
  <2>4. \A i \in 1 .. n + 4 + m : s[i] = abcd[i]
    BY <1>12, <1>13
  <2>5. n \in Nat /\ m \in Nat
    BY <1>13
  <2> HIDE DEF n, m
  <2> QED
    BY <2>1, <2>2, <2>3, <2>4, <2>5 DEF n
<1>15. s[Len(a) + 3] = c[1] /\ s[Len(a) + 4] = c[2]
  <2>1. abc[n + 2 + 1] = c[1] /\ abc[n + 2 + 2] = c[2]
    BY <1>2, <1>10, <1>13
  <2>3. \A i \in 1 .. n + 4 : abcd[i] = abc[i]
    BY <1>11, <1>13
  <2>4. \A i \in 1 .. n + 4 + m : s[i] = abcd[i]
    BY <1>12, <1>13
  <2>5. n \in Nat /\ m \in Nat
    BY <1>13
  <2> HIDE DEF n, m
  <2> QED
    BY <2>1, <2>3, <2>4, <2>5 DEF n
<1>16. s[Len(a) + 5 + Len(d)] = e[1] /\ s[Len(a) + 6 + Len(d)] = e[2]
  <2>1. s[n + 4 + m + 1] = e[1] /\ s[n + 4 + m + 2] = e[2]
    BY <1>2, <1>12, <1>13
  <2>2. n + 4 + m + 1 = n + 5 + m /\ n + 4 + m + 2 = n + 6 + m
    BY <1>13
  <2> QED
    BY <2>1, <2>2
<1>17. \A i \in 1 .. Len(a) : s[i] = a[i]
  BY <1>1, <1>9, <1>10, <1>11, <1>12
<1>18. \A i \in 1 .. Len(d) : s[Len(a) + 4 + i] = d[i]
  <2>1. \A i \in 1 .. m : abcd[n + 4 + i] = d[i]
    BY <1>11, <1>13
  <2>2. \A i \in 1 .. n + 4 + m : s[i] = abcd[i]
    BY <1>12, <1>13
  <2>3. n \in Nat /\ m \in Nat
    BY <1>13
  <2> HIDE DEF n, m
  <2> QED
    BY <2>1, <2>2, <2>3 DEF n, m
<1>19. s \in Seq(Byte) /\ Len(s) = Len(a) + 6 + Len(d)
  BY <1>12, <1>13
<1> QED
  BY <1>2, <1>3, <1>4, <1>14, <1>15, <1>16, <1>17, <1>18, <1>19

-----------------------------------------------------------------------------
(* The FIFO to the CPC and the stream. *)

(* A FIFO that has just been filled is in order before the first byte of    *)
(* the stream.                                                              *)
LEMMA FilledIsInOrder ==
  ASSUME NEW f \in Seq(Byte), Len(f) = DEPTH
  PROVE  InOrder(f, 0, 0)
  BY Numbers DEF InOrder

(* Taking a byte leaves the rest in order, and the byte is the next one. *)
LEMMA TakingKeepsOrder ==
  ASSUME NEW f \in Seq(Byte), f # << >>, NEW t \in Nat, NEW s \in Nat,
         InOrder(f, t, s)
  PROVE  /\ InOrder(Tail(f), t + 1, s)
         /\ t >= DEPTH => Head(f) = Stream[t + 1 - DEPTH]
<1>1. Len(f) \in Nat /\ Len(f) > 0 /\ Len(Tail(f)) = Len(f) - 1 /\ Head(f) = f[1]
      /\ \A i \in 1 .. Len(f) - 1 : Tail(f)[i] = f[i + 1]
  OBVIOUS
<1>2. DEPTH \in Nat
  BY Numbers
<1>3. /\ t + Len(f) = DEPTH + s
      /\ \A i \in 1 .. Len(f) : t + i > DEPTH => f[i] = Stream[t + i - DEPTH]
  BY DEF InOrder
<1>4. ASSUME NEW i \in 1 .. Len(f) - 1, (t + 1) + i > DEPTH
      PROVE  Tail(f)[i] = Stream[(t + 1) + i - DEPTH]
  <2>1. i + 1 \in 1 .. Len(f) /\ t + (i + 1) > DEPTH
        /\ t + (i + 1) - DEPTH = (t + 1) + i - DEPTH
    BY <1>1, <1>2, <1>4
  <2> QED
    BY <1>1, <1>3, <2>1
<1>5. t >= DEPTH => f[1] = Stream[t + 1 - DEPTH]
  BY <1>1, <1>2, <1>3
<1>6. (t + 1) + (Len(f) - 1) = DEPTH + s
  BY <1>1, <1>2, <1>3
<1> QED
  BY <1>1, <1>4, <1>5, <1>6 DEF InOrder

(* Sending the next byte keeps the order. *)
LEMMA SendingKeepsOrder ==
  ASSUME NEW f \in Seq(Byte), NEW t \in Nat, NEW s \in Nat, InOrder(f, t, s)
  PROVE  InOrder(Append(f, Stream[s + 1]), t, s + 1)
<1> DEFINE x == Stream[s + 1]
           g == Append(f, x)
<1>1. Len(f) \in Nat /\ DEPTH \in Nat
  BY Numbers
<1>2. /\ t + Len(f) = DEPTH + s
      /\ \A i \in 1 .. Len(f) : t + i > DEPTH => f[i] = Stream[t + i - DEPTH]
  BY DEF InOrder
<1>3. Len(g) = Len(f) + 1 /\ g[Len(f) + 1] = x /\ \A i \in 1 .. Len(f) : g[i] = f[i]
  <2> HIDE DEF x
  <2> QED
    OBVIOUS
<1>4. t + (Len(f) + 1) - DEPTH = s + 1
  BY <1>1, <1>2
<1> HIDE DEF g
<1>5. ASSUME NEW i \in 1 .. Len(g), t + i > DEPTH
      PROVE  g[i] = Stream[t + i - DEPTH]
  <2>1. CASE i \in 1 .. Len(f)
    BY <1>2, <1>3, <1>5, <2>1
  <2>2. CASE i = Len(f) + 1
    BY <1>3, <1>4, <2>2
  <2> QED
    BY <1>1, <1>3, <2>1, <2>2
<1>6. t + Len(g) = DEPTH + (s + 1)
  BY <1>1, <1>2, <1>3
<1> QED
  BY <1>5, <1>6 DEF InOrder, g

-----------------------------------------------------------------------------
(* Types. *)

(* What the pulses do to a FIFO. *)
LEMMA FifoTypes ==
  ASSUME NEW f \in Seq(Byte), Len(f) <= DEPTH, NEW b \in Byte
  PROVE  /\ ShiftedIn(f, b) \in Seq(Byte) /\ Len(ShiftedIn(f, b)) <= DEPTH
         /\ ShiftedOut(f) \in Seq(Byte) /\ Len(ShiftedOut(f)) <= DEPTH
         /\ Output(f) \in Byte
<1>1. DEPTH \in Nat /\ BASE \in Nat /\ BASE > 1 /\ Len(f) \in Nat
  BY Numbers
<1>2. ShiftedIn(f, b) \in Seq(Byte) /\ Len(ShiftedIn(f, b)) <= DEPTH
  BY <1>1 DEF ShiftedIn, InputReady
<1>3. ShiftedOut(f) \in Seq(Byte) /\ Len(ShiftedOut(f)) <= DEPTH
  BY <1>1 DEF ShiftedOut, OutputReady
<1>4. Output(f) \in Byte
  <2>1. CASE f = << >>
    BY <1>1, <2>1 DEF Output, OutputReady, NotAByte, Byte
  <2>2. CASE f # << >>
    <3> HIDE DEF Byte
    <3> QED
      BY <2>2 DEF Output, OutputReady
  <2> QED
    BY <2>1, <2>2
<1> QED
  BY <1>2, <1>3, <1>4

(* The first states have the types of the invariant. *)
LEMMA InitTypes ==
  ASSUME Init PROVE TypeOK
<1>1. PICK m \in 0 .. DEPTH, n \in 0 .. DEPTH :
        up \in [1 .. m -> STALE] /\ down \in [1 .. n -> STALE]
  BY DEF Init
<1>2. STALE \subseteq Byte /\ DEPTH \in Nat
  BY ByteAssumption, Numbers
<1>3. up \in Seq(Byte) /\ Len(up) = m
  BY <1>1, <1>2
<1>4. down \in Seq(Byte) /\ Len(down) = n
  BY <1>1, <1>2
<1>5. Len(up) <= DEPTH /\ Len(down) <= DEPTH
  BY <1>1, <1>2, <1>3, <1>4
<1>6. sent \in 0 .. Len(Stream)
  BY StreamIs, Numbers DEF Init
<1>7. address \in Address /\ count \in Address
  BY AddressesAreNumbers DEF Init, Address
<1>8. memory \in [Address -> Byte \cup {NoByte}]
  BY DEF Init
<1> QED
  BY <1>3, <1>4, <1>5, <1>6, <1>7, <1>8 DEF Init, TypeOK

(* Every step keeps the types. *)
LEMMA TypesAreKept ==
  ASSUME TypeOK, [Next]_vars PROVE TypeOK'
<1> USE DEF piKeeps, cardVars
<1>a. /\ up \in Seq(Byte) /\ Len(up) <= DEPTH /\ down \in Seq(Byte) /\ Len(down) <= DEPTH
  BY DEF TypeOK
<1>b. FILL \in Byte
  BY ByteAssumption
<1>c. ShiftedOut(up) \in Seq(Byte) /\ Len(ShiftedOut(up)) <= DEPTH
  BY <1>a, <1>b, FifoTypes
<1>d. /\ ShiftedIn(down, FILL) \in Seq(Byte) /\ Len(ShiftedIn(down, FILL)) <= DEPTH
      /\ ShiftedOut(down) \in Seq(Byte) /\ Len(ShiftedOut(down)) <= DEPTH
      /\ Output(down) \in Byte
  BY <1>a, <1>b, FifoTypes
<1>1. CASE Flush
  BY <1>1, <1>c DEF Flush, TypeOK
<1>2. CASE TopUp
  BY <1>2, <1>d DEF TopUp, TypeOK
<1>3. CASE SendByte
  <2>1. sent + 1 \in 1 .. Len(Stream)
    BY <1>3, StreamIs, Numbers DEF SendByte, TypeOK
  <2>2. Stream[sent + 1] \in Byte
    BY <2>1, StreamIs
  <2>3. /\ ShiftedIn(down, Stream[sent + 1]) \in Seq(Byte)
        /\ Len(ShiftedIn(down, Stream[sent + 1])) <= DEPTH
    BY <1>a, <2>2, FifoTypes
  <2>4. sent' \in 0 .. Len(Stream)
    BY <1>3, <2>1, StreamIs, Numbers DEF SendByte
  <2> QED
    BY <1>3, <2>3, <2>4 DEF SendByte, TypeOK
<1>4. CASE TypeLine
  BY <1>4 DEF TypeLine, TypeOK
<1>5. CASE PokeInput
  <2>1. address + 1 \in Address
    <3> DEFINE top == BASE * BASE
    <3>1. /\ BIN_LOAD_ADDR \in 0 .. top - 1 /\ top \in Nat
          /\ address \in 0 .. top - 1 /\ address <= LAST /\ LAST < BIN_LOAD_ADDR
          /\ LAST \in Int
      BY <1>5, AddressesAreNumbers, Numbers DEF PokeInput, TypeOK, Address
    <3> HIDE DEF top
    <3>2. address + 1 \in 0 .. top - 1
      BY <3>1
    <3> QED
      BY <3>2 DEF Address, top
  <2>2. memory' \in [Address -> Byte \cup {NoByte}]
    BY <1>5, <1>d DEF PokeInput, TypeOK
  <2>3. hasty' \in BOOLEAN
    BY <1>5 DEF PokeInput, TypeOK
  <2> QED
    BY <1>5, <1>d, <2>1, <2>2, <2>3 DEF PokeInput, TypeOK
<1>6. CASE Call
  BY <1>6 DEF Call, TypeOK
<1>7. CASE GetLow
  BY <1>7, <1>d DEF GetLow, GetByte, TypeOK
<1>8. ASSUME GetLength \/ GetDestination \/ GetEntry PROVE HL \in Address
  <2>1. low \in Byte
    BY <1>8 DEF GetLength, GetDestination, GetEntry, GetHL, TypeOK
  <2> QED
    BY <2>1, <1>d, BytesMakeAddress DEF HL
<1>9. CASE GetLength
  BY <1>8, <1>9, <1>d DEF GetLength, GetHL, GetByte, TypeOK
<1>10. CASE GetDestination
  BY <1>8, <1>10, <1>d DEF GetDestination, GetHL, GetByte, TypeOK
<1>11. CASE OneMore
  <2>1. (address + 1) % (BASE * BASE) \in Address /\ (count - 1) % (BASE * BASE) \in Address
    <3> DEFINE q == BASE * BASE
    <3>1. q \in Nat /\ q > 1 /\ address \in Nat /\ count \in Nat
      BY AddressesAreNumbers DEF TypeOK, Address
    <3>2. Address = 0 .. q - 1
      BY DEF Address
    <3> HIDE DEF q
    <3>3. (address + 1) % q \in 0 .. q - 1 /\ (count - 1) % q \in 0 .. q - 1
      BY <3>1
    <3> QED
      BY <3>2, <3>3 DEF q
  <2>2. memory' \in [Address -> Byte \cup {NoByte}]
    BY <1>11, <1>d DEF OneMore, TypeOK
  <2>3. cpc' \in {"entry", "onemore"}
    BY <1>11 DEF OneMore, AfterByte
  <2> QED
    BY <1>11, <1>d, <2>1, <2>2, <2>3 DEF OneMore, GetByte, TypeOK
<1>12. CASE GetEntry
  BY <1>8, <1>12, <1>d DEF GetEntry, GetHL, GetByte, TypeOK
<1>13. CASE UNCHANGED vars
  BY <1>13 DEF vars, TypeOK
<1> QED
  BY <1>1, <1>2, <1>3, <1>4, <1>5, <1>6, <1>7, <1>9, <1>10, <1>11, <1>12, <1>13
  DEF Next, Pi, Cpc

(* Whatever the FIFOs hold to begin with, the registers of the loader keep  *)
(* to their sixteen bits and neither FIFO is written when it is full.       *)
THEOREM TypeCorrect == Spec => []TypeOK
<1>1. Init => TypeOK
  BY InitTypes
<1>2. TypeOK /\ [Next]_vars => TypeOK'
  BY TypesAreKept
<1> QED
  BY <1>1, <1>2, PTL DEF Spec

-----------------------------------------------------------------------------
(* Pi and CPC in step. *)

(* How much the CPC has taken by where it is. *)
LEMMA TakenIs ==
  ASSUME TypeOK, Place
  PROVE  /\ Taken \in Nat
         /\ cpc \notin {"ready", "line"} => Taken >= DEPTH
<1>1. /\ DEPTH \in Nat /\ Len(LOADER) \in Nat /\ Len(PAYLOAD) \in Nat /\ FIRST \in Nat
      /\ LAST \in Nat
  BY Numbers
<1>2. OfWord \in {0, 1}
  BY DEF OfWord
<1>3. cpc = "ready" => Taken = 0
  BY DEF Taken
<1>4. cpc = "line" => Taken = address - FIRST /\ address \in FIRST .. LAST + 1
  BY DEF Taken, Place
<1>5. cpc = "onemore" =>
        /\ Taken = DEPTH + Len(LOADER) + 4 + (Len(PAYLOAD) - count)
        /\ count \in 1 .. Len(PAYLOAD)
  BY DEF Taken, Place
<1>6. cpc \in {"length", "destination", "entry", "program", "lost"} =>
        \/ Taken = DEPTH + Len(LOADER) + OfWord
        \/ Taken = DEPTH + Len(LOADER) + 2 + OfWord
        \/ Taken = DEPTH + Len(LOADER) + 4 + Len(PAYLOAD) + OfWord
        \/ Taken = DEPTH + Len(LOADER) + 6 + Len(PAYLOAD)
  BY DEF Taken
<1>7. cpc \in {"ready", "line", "length", "destination", "onemore", "entry",
               "program", "lost"}
  BY DEF TypeOK
<1>8. cpc = "line" => Taken \in Nat
  BY <1>1, <1>4
<1>9. cpc = "onemore" => Taken \in Nat /\ Taken >= DEPTH
  BY <1>1, <1>5
<1>10. cpc \in {"length", "destination", "entry", "program", "lost"} =>
         Taken \in Nat /\ Taken >= DEPTH
  BY <1>1, <1>2, <1>6
<1> QED
  BY <1>3, <1>7, <1>8, <1>9, <1>10

(* The loader takes no byte before the Pi has filled the FIFO. *)
LEMMA LoaderRunsAfterFilling ==
  ASSUME TypeOK, InStep, Place, cpc \notin {"ready", "line"}
  PROVE  pi = "send"
<1>1. Taken >= DEPTH /\ DEPTH \in Nat /\ DEPTH > 0
  BY TakenIs, Numbers
<1> QED
  BY <1>1 DEF InStep

(* Taking the next byte. *)
LEMMA TakingKeepsStep ==
  ASSUME TypeOK, InStep, Place, pi = "send", OutputReady(down),
         down' = ShiftedOut(down), UNCHANGED <<pi, sent>>, Taken' = Taken + 1
  PROVE  /\ InStep'
         /\ Taken >= DEPTH => Output(down) = Stream[Taken + 1 - DEPTH]
<1>1. Taken \in Nat
  BY TakenIs
<1>2. down \in Seq(Byte) /\ sent \in Nat /\ down # << >>
  BY StreamIs, Numbers DEF TypeOK, OutputReady
<1>3. InOrder(down, Taken, sent)
  BY DEF InStep
<1>4. /\ InOrder(Tail(down), Taken + 1, sent)
      /\ Taken >= DEPTH => Head(down) = Stream[Taken + 1 - DEPTH]
  BY <1>1, <1>2, <1>3, TakingKeepsOrder
<1>5. down' = Tail(down) /\ Output(down) = Head(down)
  BY DEF ShiftedOut, Output
<1>6. InOrder(down', Taken', sent')
  BY <1>4, <1>5
<1> QED
  BY <1>4, <1>5, <1>6 DEF InStep

(* The Pi fills the FIFO and sends the stream in order. *)
LEMMA PiKeepsStep ==
  ASSUME TypeOK, InStep, Place, Pi
  PROVE  InStep' /\ Place'
<1>1. UNCHANGED <<cpc, address, count, low, memory, hasty>>
  BY DEF Pi, Flush, TopUp, SendByte, piKeeps
<1>2. Taken' = Taken
  BY <1>1 DEF Taken, OfWord
<1>3. Place'
  BY <1>1, <1>2 DEF Place, Loaded
<1>4. Taken \in Nat /\ down \in Seq(Byte) /\ Len(down) \in Nat /\ Len(down) <= DEPTH
      /\ DEPTH \in Nat
  BY TakenIs, Numbers DEF TypeOK
<1>5. CASE Flush
  BY <1>2, <1>3, <1>5 DEF Flush, InStep
<1>6. CASE TopUp
  <2>1. CASE InputReady(down)
    BY <1>2, <1>3, <1>6, <2>1 DEF TopUp, InStep
  <2>2. CASE ~InputReady(down)
    <3>1. Len(down) = DEPTH
      BY <1>4, <2>2 DEF InputReady
    <3>2. down' = down /\ pi' = "send" /\ sent' = 0 /\ Taken = 0
      BY <1>6, <2>2 DEF TopUp, ShiftedIn, InStep
    <3>3. InOrder(down, 0, 0)
      BY <1>4, <3>1, FilledIsInOrder
    <3>4. InOrder(down', Taken', sent')
      BY <1>2, <3>2, <3>3
    <3> QED
      BY <1>3, <3>2, <3>4 DEF InStep
  <2> QED
    BY <2>1, <2>2
<1>7. CASE SendByte
  <2>1. /\ pi = "send" /\ pi' = "send" /\ sent' = sent + 1
        /\ down' = Append(down, Stream[sent + 1])
    BY <1>7 DEF SendByte, ShiftedIn
  <2>2. sent \in Nat
    BY StreamIs, Numbers DEF TypeOK
  <2>3. InOrder(down, Taken, sent)
    BY <2>1 DEF InStep
  <2>4. InOrder(Append(down, Stream[sent + 1]), Taken, sent + 1)
    BY <1>4, <2>2, <2>3, SendingKeepsOrder
  <2>5. InOrder(down', Taken', sent')
    BY <1>2, <2>1, <2>4
  <2> QED
    BY <1>3, <2>1, <2>5 DEF InStep
<1> QED
  BY <1>3, <1>5, <1>6, <1>7 DEF Pi

(* The line, not hasty, puts the next byte of the loader where it belongs. *)
LEMMA PokeKeepsStep ==
  ASSUME TypeOK, InStep, Place, PokeInput, ~hasty'
  PROVE  InStep' /\ Place'
<1>1. /\ cpc = "line" /\ cpc' = "line" /\ pi = "send" /\ OutputReady(down)
      /\ down' = ShiftedOut(down) /\ UNCHANGED <<pi, sent, low, count>>
      /\ address <= LAST /\ address' = address + 1
      /\ memory' = [memory EXCEPT ![address] = Output(down)]
  BY DEF PokeInput
<1>2. /\ Taken = address - FIRST /\ Taken' = (address + 1) - FIRST
      /\ address \in FIRST .. LAST + 1 /\ low = NoByte
  BY <1>1 DEF Taken, Place
<1>3. address \in Nat /\ FIRST \in Nat /\ DEPTH \in Nat /\ CALL_ADDRESS = FIRST + DEPTH
      /\ LAST = FIRST + DEPTH + Len(LOADER) - 1 /\ Len(LOADER) \in Nat /\ LAST \in Nat
  BY <1>2, Numbers
<1>4. Taken' = Taken + 1
  BY <1>2, <1>3
<1>5. InStep' /\ (Taken >= DEPTH => Output(down) = Stream[Taken + 1 - DEPTH])
  BY <1>1, <1>4, TakingKeepsStep
<1>6. memory \in [Address -> Byte \cup {NoByte}] /\ address \in Address
  BY DEF TypeOK
<1>7. ASSUME NEW i \in 1 .. Len(LOADER), CALL_ADDRESS + i - 1 < address + 1
      PROVE  memory'[CALL_ADDRESS + i - 1] = LOADER[i]
  <2>1. CASE CALL_ADDRESS + i - 1 < address
    <3>1. memory[CALL_ADDRESS + i - 1] = LOADER[i]
      BY <1>1, <2>1 DEF Place
    <3>2. CALL_ADDRESS + i - 1 \in Address /\ CALL_ADDRESS + i - 1 # address
      BY <1>3, <1>6, <2>1, AddressesAreNumbers DEF Address
    <3> QED
      BY <1>1, <1>6, <3>1, <3>2
  <2>2. CASE CALL_ADDRESS + i - 1 = address
    <3>1. Taken >= DEPTH /\ Taken + 1 - DEPTH = i
      BY <1>2, <1>3, <2>2
    <3>2. Output(down) = LOADER[i]
      BY <1>5, <3>1, StreamIs
    <3> QED
      BY <1>1, <1>6, <2>2, <3>2
  <2> QED
    BY <1>3, <1>7, <2>1, <2>2
<1>8. address' \in FIRST .. LAST + 1
  BY <1>1, <1>2, <1>3
<1> QED
  BY <1>1, <1>2, <1>5, <1>7, <1>8 DEF Place

(* The line that is not hasty calls the loader. *)
LEMMA CallKeepsStep ==
  ASSUME TypeOK, InStep, Place, Call
  PROVE  InStep' /\ Place'
<1>1. /\ cpc = "line" /\ address > LAST /\ low = NoByte /\ address \in FIRST .. LAST + 1
      /\ UNCHANGED <<up, down, pi, sent, address, count, low, memory, hasty>>
  BY DEF Call, Place, cardVars
<1>2. /\ FIRST \in Nat /\ DEPTH \in Nat /\ DEPTH > 0 /\ Len(LOADER) \in Nat /\ LAST \in Nat
      /\ CALL_ADDRESS = FIRST + DEPTH /\ LAST = FIRST + DEPTH + Len(LOADER) - 1
  BY Numbers
<1>3. Taken = address - FIRST
  BY <1>1 DEF Taken
<1>4. address = LAST + 1 /\ Taken = DEPTH + Len(LOADER) /\ Taken > 0
  BY <1>1, <1>2, <1>3
<1>5. ASSUME NEW i \in 1 .. Len(LOADER) PROVE memory[CALL_ADDRESS + i - 1] = LOADER[i]
  <2>1. CALL_ADDRESS + i - 1 < address
    BY <1>2, <1>4
  <2> QED
    BY <1>1, <2>1 DEF Place
<1>6. cpc' = "length"
  BY <1>5 DEF Call, LoaderInPlace
<1>7. Taken' = Taken
  <2>1. OfWord' = 0
    BY <1>1 DEF OfWord
  <2> QED
    BY <1>2, <1>4, <1>6, <2>1 DEF Taken
<1>8. InStep'
  BY <1>1, <1>4, <1>7 DEF InStep
<1> QED
  BY <1>1, <1>6, <1>8 DEF Place

(* The line is typed. *)
LEMMA TypeLineKeepsStep ==
  ASSUME TypeOK, InStep, Place, TypeLine
  PROVE  InStep' /\ Place'
<1>1. /\ cpc = "ready" /\ cpc' = "line" /\ address = FIRST /\ low = NoByte
      /\ UNCHANGED <<up, down, pi, sent, address, count, low, memory, hasty>>
  BY DEF TypeLine, Place, cardVars
<1>2. /\ FIRST \in Nat /\ DEPTH \in Nat /\ Len(LOADER) \in Nat /\ LAST \in Nat
      /\ CALL_ADDRESS = FIRST + DEPTH /\ LAST = FIRST + DEPTH + Len(LOADER) - 1
  BY Numbers
<1>3. Taken = 0 /\ Taken' = 0
  BY <1>1, <1>2 DEF Taken
<1>4. InStep'
  BY <1>1, <1>3 DEF InStep
<1>5. address \in FIRST .. LAST + 1
  BY <1>1, <1>2
<1>6. ASSUME NEW i \in 1 .. Len(LOADER) PROVE ~(CALL_ADDRESS + i - 1 < address)
  BY <1>1, <1>2
<1> QED
  BY <1>1, <1>4, <1>5, <1>6 DEF Place

(* The first byte of a word is the next one of the stream. *)
LEMMA GetLowKeepsStep ==
  ASSUME TypeOK, InStep, Place, GetLow
  PROVE  InStep' /\ Place'
<1>1. /\ cpc \in {"length", "destination", "entry"} /\ low = NoByte
      /\ OutputReady(down) /\ down' = ShiftedOut(down) /\ low' = Output(down)
      /\ UNCHANGED <<up, pi, sent, hasty, cpc, address, count, memory>>
  BY DEF GetLow, GetByte
<1>2. pi = "send" /\ Taken \in Nat /\ Taken >= DEPTH
  BY <1>1, LoaderRunsAfterFilling, TakenIs
<1>3. low' # NoByte
  <2>1. Output(down) \in Byte
    BY <1>1, FifoTypes, ByteAssumption DEF TypeOK
  <2> QED
    BY <1>1, <2>1, Numbers DEF Byte
<1>4. Taken' = Taken + 1
  <2>1. OfWord = 0 /\ OfWord' = 1
    BY <1>1, <1>3 DEF OfWord
  <2>2. DEPTH \in Nat /\ Len(LOADER) \in Nat /\ Len(PAYLOAD) \in Nat
    BY Numbers
  <2> QED
    BY <1>1, <2>1, <2>2 DEF Taken
<1>5. InStep' /\ Output(down) = Stream[Taken + 1 - DEPTH]
  BY <1>1, <1>2, <1>4, TakingKeepsStep
<1>6. low' = Stream[Taken' - DEPTH]
  <2>1. Taken' - DEPTH = Taken + 1 - DEPTH
    BY <1>2, <1>4, Numbers
  <2> QED
    BY <1>1, <1>5, <2>1
<1> QED
  BY <1>1, <1>5, <1>6 DEF Place, Loaded

(* The second byte of a word makes the number the Pi has sent, n, if n's    *)
(* word stands where the CPC is in the stream.                              *)
LEMMA GetHLReadsWord ==
  ASSUME TypeOK, InStep, Place, NEW at \in {"length", "destination", "entry"},
         GetHL(at), Taken' = Taken + 1,
         NEW n \in Address, Stream[Taken - DEPTH] = n % BASE,
         Stream[Taken + 1 - DEPTH] = n \div BASE
  PROVE  InStep' /\ HL = n
<1>1. /\ cpc \in {"length", "destination", "entry"} /\ low # NoByte
      /\ OutputReady(down) /\ down' = ShiftedOut(down)
      /\ UNCHANGED <<up, pi, sent, hasty>>
  BY DEF GetHL, GetByte
<1>2. pi = "send" /\ Taken \in Nat /\ Taken >= DEPTH
  BY <1>1, LoaderRunsAfterFilling, TakenIs
<1>3. InStep' /\ Output(down) = Stream[Taken + 1 - DEPTH]
  BY <1>1, <1>2, TakingKeepsStep
<1>4. low = n % BASE /\ Output(down) = n \div BASE
  BY <1>1, <1>3 DEF Place
<1>5. HL = n
  BY <1>4, WordMakesNumber DEF HL
<1> QED
  BY <1>3, <1>5

(* The length the loader reads is that of the program. *)
LEMMA GetLengthKeepsStep ==
  ASSUME TypeOK, InStep, Place, GetLength
  PROVE  InStep' /\ Place'
<1>1. /\ cpc = "length" /\ cpc' = "destination" /\ GetHL("length") /\ low' = NoByte
      /\ count' = HL /\ low # NoByte /\ UNCHANGED <<address, memory>>
  BY DEF GetLength, GetHL
<1>2. DEPTH \in Nat /\ Len(LOADER) \in Nat /\ Len(PAYLOAD) \in Nat
  BY Numbers
<1>3. Taken = DEPTH + Len(LOADER) + 1 /\ Taken' = DEPTH + Len(LOADER) + 2
  <2>1. OfWord = 1 /\ OfWord' = 0
    BY <1>1 DEF OfWord
  <2> QED
    BY <1>1, <1>2, <2>1 DEF Taken
<1>4. /\ Taken' = Taken + 1 /\ Taken - DEPTH = Len(LOADER) + 1
      /\ Taken + 1 - DEPTH = Len(LOADER) + 2
  BY <1>2, <1>3
<1>5. InStep' /\ HL = Len(PAYLOAD)
  BY <1>1, <1>4, StreamIs, AddressesAreNumbers, GetHLReadsWord
<1> QED
  BY <1>1, <1>5 DEF Place

(* The address the loader reads is where the program belongs. *)
LEMMA GetDestinationKeepsStep ==
  ASSUME TypeOK, InStep, Place, GetDestination
  PROVE  InStep' /\ Place'
<1>1. /\ cpc = "destination" /\ cpc' = "onemore" /\ GetHL("destination")
      /\ low' = NoByte /\ address' = HL /\ low # NoByte /\ UNCHANGED <<count, memory>>
  BY DEF GetDestination, GetHL
<1>2. DEPTH \in Nat /\ Len(LOADER) \in Nat /\ Len(PAYLOAD) \in Nat /\ Len(PAYLOAD) > 0
      /\ BIN_LOAD_ADDR \in Nat
  BY Numbers
<1>3. count = Len(PAYLOAD)
  BY <1>1 DEF Place
<1>4. Taken = DEPTH + Len(LOADER) + 3 /\ Taken' = DEPTH + Len(LOADER) + 4
  <2>1. OfWord = 1
    BY <1>1 DEF OfWord
  <2> QED
    BY <1>1, <1>2, <1>3, <2>1 DEF Taken
<1>5. /\ Taken' = Taken + 1 /\ Taken - DEPTH = Len(LOADER) + 3
      /\ Taken + 1 - DEPTH = Len(LOADER) + 4
  BY <1>2, <1>4
<1>6. InStep' /\ HL = BIN_LOAD_ADDR
  BY <1>1, <1>5, StreamIs, AddressesAreNumbers, GetHLReadsWord
<1>7. /\ count' \in 1 .. Len(PAYLOAD)
      /\ address' = BIN_LOAD_ADDR + (Len(PAYLOAD) - count')
      /\ \A i \in 1 .. Len(PAYLOAD) - count' : FALSE
  BY <1>1, <1>2, <1>3, <1>6
<1> QED
  BY <1>1, <1>6, <1>7 DEF Place, Loaded

(* The address the loader jumps to is the entry of the program. *)
LEMMA GetEntryKeepsStep ==
  ASSUME TypeOK, InStep, Place, GetEntry
  PROVE  InStep' /\ Place'
<1>1. /\ cpc = "entry" /\ cpc' = "program" /\ GetHL("entry")
      /\ low' = NoByte /\ address' = HL /\ low # NoByte /\ UNCHANGED <<count, memory>>
  BY DEF GetEntry, GetHL
<1>2. DEPTH \in Nat /\ Len(LOADER) \in Nat /\ Len(PAYLOAD) \in Nat
  BY Numbers
<1>3. /\ Taken = DEPTH + Len(LOADER) + 4 + Len(PAYLOAD) + 1
      /\ Taken' = DEPTH + Len(LOADER) + 6 + Len(PAYLOAD)
  <2>1. OfWord = 1
    BY <1>1 DEF OfWord
  <2> QED
    BY <1>1, <1>2, <2>1 DEF Taken
<1>4. /\ Taken' = Taken + 1 /\ Taken - DEPTH = Len(LOADER) + 5 + Len(PAYLOAD)
      /\ Taken + 1 - DEPTH = Len(LOADER) + 6 + Len(PAYLOAD)
  BY <1>2, <1>3
<1>5. InStep' /\ HL = BIN_ENTRY_ADDR
  BY <1>1, <1>4, StreamIs, AddressesAreNumbers, GetHLReadsWord
<1> QED
  BY <1>1, <1>5 DEF Place, Loaded

(* Each byte of the program goes to its place, and the loop ends after the  *)
(* last one.                                                                *)
LEMMA OneMoreKeepsStep ==
  ASSUME TypeOK, InStep, Place, OneMore
  PROVE  InStep' /\ Place'
<1> DEFINE n == Len(PAYLOAD)
           q == BASE * BASE
<1>1. /\ cpc = "onemore" /\ OutputReady(down) /\ down' = ShiftedOut(down)
      /\ UNCHANGED <<up, pi, sent, hasty, low>> /\ cpc' = AfterByte
      /\ memory' = [memory EXCEPT ![address] = Output(down)]
      /\ address' = (address + 1) % q /\ count' = (count - 1) % q
  BY DEF OneMore, GetByte
<1>2. /\ count \in 1 .. n /\ address = BIN_LOAD_ADDR + (n - count) /\ low = NoByte
      /\ Loaded(n - count)
  BY <1>1 DEF Place
<1>3. /\ DEPTH \in Nat /\ Len(LOADER) \in Nat /\ n \in Nat /\ n > 0 /\ BIN_LOAD_ADDR \in Nat
      /\ q \in Nat /\ q > 1 /\ n < q /\ BIN_LOAD_ADDR + n - 1 < q
  BY Numbers, AddressesAreNumbers DEF Address
<1>4. pi = "send" /\ Taken \in Nat /\ Taken >= DEPTH
  BY <1>1, LoaderRunsAfterFilling, TakenIs
<1>5. memory \in [Address -> Byte \cup {NoByte}] /\ address \in Address
      /\ Address = 0 .. q - 1
  BY DEF TypeOK, Address
<1>6. Taken = DEPTH + Len(LOADER) + 4 + (n - count)
  BY <1>1 DEF Taken
<1> HIDE DEF n, q
<1>7. count' = count - 1
  <2>1. count - 1 \in 0 .. q - 1
    BY <1>2, <1>3
  <2> QED
    BY <1>1, <1>3, <2>1
<1>8. cpc' = IF count = 1 THEN "entry" ELSE "onemore"
  BY <1>1 DEF AfterByte
<1>9. Taken' = Taken + 1
  <2>1. CASE count = 1
    <3>1. cpc' = "entry" /\ OfWord' = 0
      BY <1>1, <1>2, <1>8, <2>1 DEF OfWord
    <3>2. Taken' = DEPTH + Len(LOADER) + 4 + n + 0
      BY <3>1 DEF Taken, n
    <3> QED
      BY <1>3, <1>6, <2>1, <3>2
  <2>2. CASE count # 1
    <3>1. cpc' = "onemore"
      BY <1>8, <2>2
    <3>2. Taken' = DEPTH + Len(LOADER) + 4 + (n - count')
      BY <3>1 DEF Taken, n
    <3> QED
      BY <1>2, <1>3, <1>6, <1>7, <3>2
  <2> QED
    BY <2>1, <2>2
<1>10. InStep' /\ Output(down) = Stream[Taken + 1 - DEPTH]
  BY <1>1, <1>4, <1>9, TakingKeepsStep
<1>11. Output(down) = PAYLOAD[n - count + 1]
  <2>1. Taken + 1 - DEPTH = Len(LOADER) + 4 + (n - count + 1)
        /\ n - count + 1 \in 1 .. n
    BY <1>2, <1>3, <1>6
  <2> QED
    BY <1>10, <2>1, StreamIs DEF n
<1>12. ASSUME NEW i \in 1 .. n - count + 1
       PROVE  memory'[BIN_LOAD_ADDR + i - 1] = PAYLOAD[i]
  <2>1. CASE i = n - count + 1
    <3>1. BIN_LOAD_ADDR + i - 1 = address
      BY <1>2, <1>3, <2>1
    <3> QED
      BY <1>1, <1>5, <1>11, <2>1, <3>1
  <2>2. CASE i # n - count + 1
    <3>1. i \in 1 .. n - count
      BY <1>2, <1>3, <2>2
    <3>2. BIN_LOAD_ADDR + i - 1 \in Address /\ BIN_LOAD_ADDR + i - 1 # address
      BY <1>2, <1>3, <1>5, <3>1
    <3>3. memory[BIN_LOAD_ADDR + i - 1] = PAYLOAD[i]
      BY <1>2, <3>1 DEF Loaded
    <3> QED
      BY <1>1, <1>5, <3>2, <3>3
  <2> QED
    BY <2>1, <2>2
<1>13. n - count' = n - count + 1
  BY <1>2, <1>3, <1>7
<1>14. Loaded(n - count)' 
  BY <1>12, <1>13 DEF Loaded
<1>15. CASE count = 1
  <2>1. n - count' = n
    BY <1>3, <1>7, <1>15
  <2> QED
    BY <1>1, <1>2, <1>8, <1>10, <1>14, <1>15, <2>1 DEF Place, n
<1>16. CASE count # 1
  <2>1. count' \in 1 .. n
    BY <1>2, <1>3, <1>7, <1>16
  <2>2. address' = BIN_LOAD_ADDR + (n - count')
    <3>1. address + 1 = BIN_LOAD_ADDR + (n - count') /\ address + 1 \in 0 .. q - 1
      BY <1>2, <1>3, <1>7, <2>1
    <3>2. address \in Nat
      BY <1>2, <1>3
    <3>3. (address + 1) % q = address + 1
      BY <1>3, <3>1, <3>2
    <3> QED
      BY <1>1, <3>1, <3>3
  <2> QED
    BY <1>1, <1>2, <1>8, <1>10, <1>14, <1>16, <2>1, <2>2 DEF Place, n
<1> QED
  BY <1>15, <1>16

-----------------------------------------------------------------------------
(* The invariant and what follows from it. *)

(* All the machines start in step. *)
LEMMA InitAligned ==
  ASSUME Init PROVE IInv
<1>1. TypeOK
  BY InitTypes
<1>2. InStep
  BY DEF Init, InStep, Taken
<1>3. Place
  BY DEF Init, Place
<1> QED
  BY <1>1, <1>2, <1>3 DEF IInv, Aligned

(* Every step keeps the invariant. *)
LEMMA StepKeepsInvariant ==
  ASSUME IInv, [Next]_vars PROVE IInv'
<1>1. TypeOK /\ TypeOK'
  BY TypesAreKept DEF IInv
<1>2. SUFFICES ASSUME ~hasty' PROVE InStep' /\ Place'
  BY <1>1 DEF IInv, Aligned
<1>3. ~hasty
  BY <1>2 DEF Next, Pi, Flush, TopUp, SendByte, piKeeps, TypeLine, Cpc, PokeInput, Call,
         GetLow, GetLength, GetDestination, OneMore, GetEntry, GetHL, GetByte, vars
<1>4. InStep /\ Place
  BY <1>3 DEF IInv, Aligned
<1>5. CASE Pi
  BY <1>1, <1>4, <1>5, PiKeepsStep
<1>6. CASE TypeLine
  BY <1>1, <1>4, <1>6, TypeLineKeepsStep
<1>7. CASE PokeInput
  BY <1>1, <1>2, <1>4, <1>7, PokeKeepsStep
<1>8. CASE Call
  BY <1>1, <1>4, <1>8, CallKeepsStep
<1>9. CASE GetLow
  BY <1>1, <1>4, <1>9, GetLowKeepsStep
<1>10. CASE GetLength
  BY <1>1, <1>4, <1>10, GetLengthKeepsStep
<1>11. CASE GetDestination
  BY <1>1, <1>4, <1>11, GetDestinationKeepsStep
<1>12. CASE OneMore
  BY <1>1, <1>4, <1>12, OneMoreKeepsStep
<1>13. CASE GetEntry
  BY <1>1, <1>4, <1>13, GetEntryKeepsStep
<1>14. CASE UNCHANGED vars
  <2>1. Taken' = Taken
    BY <1>14 DEF vars, Taken, OfWord
  <2>2. InStep'
    BY <1>4, <1>14, <2>1 DEF vars, cardVars, InStep
  <2>3. Place'
    BY <1>4, <1>14, <2>1 DEF vars, Place, Loaded
  <2> QED
    BY <2>2, <2>3
<1> QED
  BY <1>5, <1>6, <1>7, <1>8, <1>9, <1>10, <1>11, <1>12, <1>13, <1>14 DEF Next, Cpc

(* Every behaviour stays within the invariant. *)
LEMMA Invariance == Spec => []IInv
<1>1. Init => IInv
  BY InitAligned
<1>2. IInv /\ [Next]_vars => IInv'
  BY StepKeepsInvariant
<1> QED
  BY <1>1, <1>2, PTL DEF Spec

(* Whatever the FIFOs hold to begin with and however Pi and CPC interleave, *)
(* the line calls nothing but the whole loader, if it was typed after the   *)
(* Pi had filled the FIFO and never found it empty.                         *)
THEOREM LineCallsLoader == Spec => []LoaderIsWhole
<1>1. IInv => LoaderIsWhole
  BY DEF IInv, Aligned, Place, LoaderIsWhole
<1> QED
  BY <1>1, Invariance, PTL

(* After such a line the program that runs is the whole program, where it   *)
(* belongs, entered where it says, and it finds the FIFO empty with nothing *)
(* of the loading still to come.                                            *)
THEOREM ProgramRunsWhole == Spec => []ProgramIsWhole
<1>1. IInv => ProgramIsWhole
  <2>1. SUFFICES ASSUME IInv, cpc = "program", ~hasty
                 PROVE  /\ \A i \in 1 .. Len(PAYLOAD) :
                             memory[BIN_LOAD_ADDR + i - 1] = PAYLOAD[i]
                        /\ address = BIN_ENTRY_ADDR
                        /\ down = << >> /\ sent = Len(Stream)
    BY DEF ProgramIsWhole
  <2>2. TypeOK /\ InStep /\ Place
    BY <2>1 DEF IInv, Aligned
  <2>3. pi = "send"
    BY <2>1, <2>2, LoaderRunsAfterFilling
  <2>4. Taken + Len(down) = DEPTH + sent
    BY <2>2, <2>3 DEF InStep, InOrder
  <2>5. Taken = DEPTH + Len(LOADER) + 6 + Len(PAYLOAD)
    BY <2>1 DEF Taken
  <2>6. /\ DEPTH \in Nat /\ Len(LOADER) \in Nat /\ Len(PAYLOAD) \in Nat
        /\ Len(Stream) = Len(LOADER) + 6 + Len(PAYLOAD)
    BY Numbers, StreamIs
  <2>7. down \in Seq(Byte) /\ Len(down) \in Nat /\ sent \in 0 .. Len(Stream)
    BY <2>2 DEF TypeOK
  <2>8. Len(down) = 0 /\ sent = Len(Stream)
    BY <2>4, <2>5, <2>6, <2>7
  <2>9. down = << >>
    BY <2>7, <2>8
  <2> QED
    BY <2>1, <2>2, <2>8, <2>9 DEF Place, Loaded
<1> QED
  BY <1>1, Invariance, PTL

=============================================================================
