-------------------------- MODULE McpClient_proofs --------------------------
(***************************************************************************)
(* Proofs about programs that are broken off and run again, for every      *)
(* depth of the FIFOs, every length of the commands and every number of    *)
(* them: the types, and that a program never takes parts of two answers    *)
(* for one, although each reset cuts an answer off anywhere.               *)
(***************************************************************************)
EXTENDS McpClient, Packets_proofs

-----------------------------------------------------------------------------
(* What is kept: the types. *)

Mark == [byte : BYTE, ends : 0 .. commands]

(* The longest packet a program sends. *)
Longest == MAX_COMMAND_NAME_LENGTH + 9

(* Everything on its way to the server has been sent by one of the commands *)
(* so far, and fits its ring.                                               *)
Budget == Len(up) + Len(in_queue) + Len(to_send) <= commands * Longest

IInv ==
  /\ TypeOK
  /\ up \in Seq(Mark) /\ down \in Seq(BYTE)
  /\ doing = "send" => to_send # << >>
  /\ doing # "receive" => got = << >>
  /\ Budget

-----------------------------------------------------------------------------
(* What is kept: the answers. *)

(* What the program reads and is to read, as long as nobody resets the card.*)
Way == got \o down \o out_queue

(* Every answer has ten bytes; b is the o-th byte of the j-th.              *)
IsPart(b, j, o) ==
  /\ o \in 1 .. 3 => b = Plus
  /\ o = 4 => b = 4
  /\ o = 5 => b = 0
  /\ o = 6 => b = Text
  /\ o = 7 => Number(b) = served[j]
  /\ o \in 8 .. 10 => b = Minus

(* Where on the way that byte would be: the last answer ends with the way.  *)
Place(j, o) == Len(Way) - 10 * (Len(served) - j) - 10 + o

(* The way is the end of what the server has written, byte by byte.         *)
EndOfAnswers ==
  /\ Len(Way) <= 10 * Len(served)
  /\ \A j \in 1 .. Len(served), o \in 1 .. 10 :
       Place(j, o) >= 1 => IsPart(Way[Place(j, o)], j, o)

(* After the bytes in front of it an answer has begun with its first byte.  *)
BegunAtFirst ==
  /\ Len(got) < 10
  /\ Len(got) >= 6 => \E j \in 1 .. Len(served) : Place(j, 1) = 1

(* The answers the programs took are answers to different commands, one     *)
(* behind the other and all of them before the way.                         *)
TakenInOrder ==
  \E at \in [1 .. Len(accepted) -> 1 .. Len(served)] :
    \A i \in 1 .. Len(accepted) :
      /\ accepted[i].answer = served[at[i]]
      /\ \A k \in 1 .. i - 1 : at[k] < at[i]
      /\ Place(at[i], 10) <= 0

Accepted == [by : 0 .. commands, answer : Int]

AInv ==
  /\ EndOfAnswers /\ BegunAtFirst /\ TakenInOrder
  /\ accepted \in Seq(Accepted)

(* No program takes the answer to a command that is sent after its own.     *)
NoneTooYoung ==
  \A i \in 1 .. Len(accepted) : accepted[i].answer <= accepted[i].by

-----------------------------------------------------------------------------
(* The ring that in_queue is put into for a look. *)

(* A ring that is large enough has all the bytes to read. *)
LEMMA RingHolds ==
  ASSUME NEW s \in Seq(BYTE), Len(s) < QUEUE_SIZE
  PROVE  Ring(s) \in Queues /\ NumberToRead(Ring(s)) = Len(s)
<1> DEFINE n == Len(s)
           r == Ring(s)
<1>1. n \in 0 .. QUEUE_SIZE - 1 /\ QUEUE_SIZE \in Nat /\ QUEUE_SIZE >= 2 /\ 0 \in BYTE
  BY QueueSizeAssumption, ByteAssumption
<1>2. InitQueue.store = 0 /\ InitQueue.read = 0 /\ InitQueue.data = [i \in Index |-> 0]
  BY DEF InitQueue
<1>3. \A i \in Index : Offset(i, 0) = i
  <2> SUFFICES ASSUME NEW i \in Index PROVE Offset(i, 0) = i
    OBVIOUS
  <2> DEFINE a == QUEUE_SIZE + i - 0
  <2>1. /\ a \in 0 .. 2 * QUEUE_SIZE - 1 /\ i \in 0 .. QUEUE_SIZE - 1
        /\ a - QUEUE_SIZE = i /\ ~(a < QUEUE_SIZE)
    BY <1>1 DEF Index
  <2>2. Offset(i, 0) = a % QUEUE_SIZE
    BY DEF Offset
  <2> HIDE DEF a
  <2> QED
    BY <2>1, <2>2, BelowTwoTurns
<1>4. Advance(0, n) = n
  BY <1>1, BelowTwoTurns DEF Remainder, Advance
<1>5. /\ r.store = n /\ r.read = 0
      /\ r.data = [i \in Index |-> IF Offset(i, 0) < n THEN s[Offset(i, 0) + 1] ELSE 0]
  BY <1>2, <1>4 DEF Ring, StoreBytes, InitQueue
<1>6. \A i \in Index : Offset(i, 0) < n => s[Offset(i, 0) + 1] \in BYTE
  <2> SUFFICES ASSUME NEW i \in Index, i < n PROVE s[i + 1] \in BYTE
    BY <1>3
  <2>1. i + 1 \in 1 .. Len(s)
    BY <1>1 DEF Index
  <2> QED
    BY <2>1
<1>7. r.data \in [Index -> BYTE]
  BY <1>1, <1>5, <1>6
<1>8. n \in Index /\ 0 \in Index
  BY <1>1 DEF Index
<1>9. InitQueue \in Queues
  BY <1>1, <1>8 DEF InitQueue, Queues
<1>10. r \in Queues
  <2> DEFINE f == [i \in Index |-> IF Offset(i, InitQueue.store) < Len(s)
                                    THEN s[Offset(i, InitQueue.store) + 1]
                                    ELSE InitQueue.data[i]]
  <2>1. r = [InitQueue EXCEPT !.data = f, !.store = Advance(@, Len(s))]
    BY DEF Ring, StoreBytes
  <2>2. f = r.data
    BY <2>1 DEF InitQueue
  <2>3. f \in [Index -> BYTE]
    BY <1>7, <2>2
  <2>4. Advance(InitQueue.store, Len(s)) \in Index
    BY <1>2, <1>4, <1>8
  <2> HIDE DEF f, r
  <2> QED
    BY <1>9, <2>1, <2>3, <2>4 DEF Queues
<1> HIDE DEF r
<1>11. NumberToRead(r) = n
  BY <1>1, <1>5, <1>10, ToRead
<1> QED
  BY <1>10, <1>11 DEF r

-----------------------------------------------------------------------------
(* The types. *)

(* The constants are what the arithmetic of the proofs takes them to be. *)
LEMMA Numbers ==
  /\ MaxCommands \in Nat /\ MAX_COMMAND_NAME_LENGTH \in Nat
  /\ QUEUE_SIZE \in Nat /\ DEPTH \in Nat /\ DEPTH > 0
  /\ Longest \in Nat /\ MaxCommands * Longest \in Nat
  /\ MaxCommands * Longest < QUEUE_SIZE
  /\ BYTE \subseteq Nat /\ {0, 1, 4, Newline, Plus, Minus} \subseteq BYTE
<1>1. MAX_COMMAND_NAME_LENGTH \in Nat /\ MAX_COMMAND_NAME_LENGTH > 0
  BY NameLengthAssumption
<1>2. 0 \in BYTE /\ 1 \in BYTE /\ 4 \in BYTE
  BY <1>1, SentBytesAssumption
<1>3. /\ MaxCommands \in Nat /\ QUEUE_SIZE \in Nat
      /\ MaxCommands * (MAX_COMMAND_NAME_LENGTH + 9) < QUEUE_SIZE
  BY BoundAssumption, QueueSizeAssumption, <1>1
<1>4. MaxCommands * (MAX_COMMAND_NAME_LENGTH + 9) \in Nat
  BY <1>1, <1>3
<1> QED
  BY <1>1, <1>2, <1>3, <1>4, DepthAssumption, NumbersAssumption,
     SentBytesAssumption DEF Longest

(* One command more is as many bytes more as the longest packet has. *)
LEMMA OneMore ==
  ASSUME NEW n \in 0 .. MaxCommands - 1
  PROVE  n * Longest \in Nat /\ (n + 1) * Longest = n * Longest + Longest
BY Numbers

(* What commands so many have sent is less than the ring holds. *)
LEMMA WithinBudget ==
  ASSUME NEW n \in 0 .. MaxCommands
  PROVE  n * Longest \in Nat /\ n * Longest < QUEUE_SIZE
<1>1. n * Longest \in Nat /\ n * Longest <= MaxCommands * Longest
  BY Numbers
<1> QED
  BY <1>1, Numbers

(* A packet with a payload of bytes, whose size is one.                     *)
LEMMA PacketIs ==
  ASSUME NEW type \in BYTE, NEW s \in Seq(BYTE), Len(s) + 3 \in BYTE
  PROVE  /\ PacketOf(type, s) \in Seq(BYTE)
         /\ Len(PacketOf(type, s)) = Len(s) + 9
<1> DEFINE front == <<Plus, Plus, Plus, Len(s) + 3, 0, type>>
           rear == <<Minus, Minus, Minus>>
<1>1. front \in Seq(BYTE) /\ Len(front) = 6 /\ rear \in Seq(BYTE) /\ Len(rear) = 3
  BY Numbers
<1>2. PacketOf(type, s) = front \o s \o rear
  BY DEF PacketOf
<1> HIDE DEF front, rear
<1>3. front \o s \in Seq(BYTE) /\ Len(front \o s) = Len(s) + 6
  <2>1. Len(front \o s) = Len(front) + Len(s)
    BY <1>1, ConcatProperties
  <2> QED
    BY <1>1, <2>1, ConcatProperties
<1> DEFINE t == front \o s
<1> HIDE DEF t
<1>4. t \o rear \in Seq(BYTE) /\ Len(t \o rear) = Len(s) + 9
  <2>1. t \in Seq(BYTE) /\ Len(t) = Len(s) + 6
    BY <1>3 DEF t
  <2>2. Len(t \o rear) = Len(t) + Len(rear) /\ t \o rear \in Seq(BYTE)
    BY <1>1, <2>1, ConcatProperties
  <2> QED
    BY <1>1, <2>1, <2>2
<1> QED
  BY <1>2, <1>4 DEF t

(* The bytes of a command. *)
LEMMA CommandIs ==
  ASSUME NEW n \in 1 .. MaxCommands, NEW client \in CLIENT
  PROVE  /\ CommandBytes(n, client.name) \in Seq(BYTE)
         /\ Len(CommandBytes(n, client.name)) > 0
         /\ Len(CommandBytes(n, client.name)) <= Longest
         /\ client.waits \in BOOLEAN
<1> DEFINE k == client.name
           s == [i \in 1 .. k |-> Letter(n)]
           t == s \o <<Newline>>
<1>1. k \in 1 .. MAX_COMMAND_NAME_LENGTH - 1 /\ client.waits \in BOOLEAN
  BY ClientAssumption
<1> HIDE DEF k
<1>2. Letter(n) \in BYTE
  <2>1. 64 + n \in 65 .. 64 + MaxCommands
    BY Numbers
  <2> QED
    BY <2>1, SentBytesAssumption DEF Letter
<1>3. k \in Nat
  BY <1>1, Numbers
<1>4. s \in Seq(BYTE) /\ Len(s) = k
  BY <1>2, <1>3
<1> HIDE DEF s
<1>5. t \in Seq(BYTE) /\ Len(t) = k + 1
  BY <1>3, <1>4, Numbers
<1> HIDE DEF t
<1>6. Len(t) + 3 \in BYTE /\ Text \in BYTE
  <2>1. Len(t) + 3 \in 0 .. MAX_COMMAND_NAME_LENGTH + 3
    BY <1>1, <1>5, Numbers
  <2> QED
    BY <2>1, SentBytesAssumption, Numbers DEF Text
<1>7. PacketOf(Text, t) \in Seq(BYTE) /\ Len(PacketOf(Text, t)) = k + 1 + 9
  BY <1>5, <1>6, PacketIs
<1>8. CommandBytes(n, client.name) = PacketOf(Text, t)
  BY DEF CommandBytes, k, s, t
<1> QED
  BY <1>1, <1>7, <1>8, Numbers DEF Longest

(* At first nothing is under way. *)
LEMMA InitTypes == Init => IInv
<1> SUFFICES ASSUME Init PROVE IInv
  OBVIOUS
<1>1. << >> \in Seq(BYTE) /\ Len(<< >>) = 0 /\ << >> \in Seq(Mark)
      /\ << >> \in Seq(1 .. 0) /\ << >> \in Seq(Int)
  OBVIOUS
<1>2. 0 \in 0 .. MaxCommands /\ 0 * Longest = 0
  BY Numbers
<1>3. up \in Seq(Mark) /\ down \in Seq(BYTE) /\ (doing = "send" => to_send # << >>)
      /\ (doing # "receive" => got = << >>)
  BY <1>1 DEF Init
<1>4. TypeOK
  <2>1. whole \in Seq(1 .. commands) /\ served \in Seq(Int) /\ 0 < QUEUE_SIZE
    BY <1>1, QueueSizeAssumption DEF Init
  <2>2. waits \in BOOLEAN /\ missed \in BOOLEAN
    BY DEF Init
  <2> QED
    BY <1>1, <1>2, <2>1, <2>2, Numbers DEF Init, TypeOK
<1>5. Budget
  BY <1>1, <1>2 DEF Init, Budget
<1> QED
  BY <1>3, <1>4, <1>5 DEF IInv

(* A program that begins, with or without a reset. *)
LEMMA BeginTypes ==
  ASSUME IInv, NEW client \in CLIENT, Begin(client),
         CardReset \/ UNCHANGED cardVars
  PROVE  IInv'
<1> DEFINE c == CommandBytes(commands + 1, client.name)
<1>1. /\ commands \in 0 .. MaxCommands - 1 /\ commands' = commands + 1
      /\ to_send' = c /\ doing' = "send" /\ waits' = client.waits /\ missed' = FALSE
      /\ got' = << >> /\ in_queue' = in_queue /\ out_queue' = out_queue
      /\ whole' = whole /\ served' = served /\ accepted' = accepted
  BY Numbers DEF IInv, TypeOK, Begin, queueVars, historyVars
<1>2. commands + 1 \in 1 .. MaxCommands /\ commands' \in 0 .. MaxCommands
  BY <1>1, Numbers
<1>3. c \in Seq(BYTE) /\ Len(c) > 0 /\ Len(c) <= Longest /\ client.waits \in BOOLEAN
  BY <1>2, CommandIs
<1> HIDE DEF c
<1>4. Mark \subseteq Mark' /\ 1 .. commands \subseteq 1 .. commands'
  BY <1>1, Numbers DEF Mark
<1>5. whole' \in Seq(1 .. commands')
  BY <1>1, <1>4 DEF IInv, TypeOK
<1>6. /\ up' \in Seq(Mark') /\ down' \in Seq(BYTE) /\ Len(up') <= Len(up)
      /\ Len(up') <= DEPTH /\ Len(down') <= DEPTH /\ Len(up) \in Nat /\ Len(up') \in Nat
  <2>1. CASE CardReset
    BY <2>1, Numbers DEF CardReset, IInv
  <2>2. CASE UNCHANGED cardVars
    BY <2>2, <1>4 DEF cardVars, IInv, TypeOK
  <2> QED
    BY <2>1, <2>2
<1>7. TypeOK'
  <2>1. waits' \in BOOLEAN /\ missed' \in BOOLEAN
    BY <1>1, <1>3
  <2>2. to_send' \in Seq(BYTE) /\ got' \in Seq(BYTE)
    BY <1>1, <1>3
  <2>3. /\ in_queue' \in Seq(BYTE) /\ Len(in_queue') < QUEUE_SIZE
        /\ out_queue' \in Seq(BYTE) /\ served' \in Seq(Int)
    BY <1>1 DEF IInv, TypeOK
  <2>4. doing' \in {"off", "send", "receive", "done", "failed"}
    BY <1>1
  <2> QED
    BY <1>2, <1>5, <1>6, <2>1, <2>2, <2>3, <2>4 DEF TypeOK
<1>8. Budget'
  <2>1. /\ commands * Longest \in Nat
        /\ commands' * Longest = commands * Longest + Longest
    BY <1>1, OneMore
  <2>2. /\ Len(up) + Len(in_queue) + Len(to_send) <= commands * Longest
        /\ Len(in_queue) \in Nat /\ Len(to_send) \in Nat /\ Len(c) \in Nat
    BY <1>3 DEF IInv, TypeOK, Budget
  <2> DEFINE b == commands * Longest
             b2 == commands' * Longest
  <2> HIDE DEF b, b2
  <2>3. b2 = b + Longest /\ Len(up) + Len(in_queue) + Len(to_send) <= b /\ b \in Nat
    BY <2>1, <2>2 DEF b, b2
  <2>4. Len(up') + Len(in_queue) + Len(c) <= b2
    BY <1>3, <1>6, <2>2, <2>3, Numbers
  <2> QED
    BY <1>1, <2>4 DEF Budget, b2
<1>9. to_send' # << >>
  BY <1>1, <1>3
<1> QED
  BY <1>1, <1>6, <1>7, <1>8, <1>9 DEF IInv

(* A byte that goes to the card, or is lost there. *)
LEMMA SendTypes == IInv /\ SendByte => IInv'
<1> SUFFICES ASSUME IInv, SendByte PROVE IInv'
  OBVIOUS
<1> DEFINE m == [byte |-> Head(to_send),
                 ends |-> IF Len(to_send) = 1 /\ ~missed THEN commands ELSE 0]
<1>1. /\ up' = ShiftedIn(up, m) /\ missed' = (missed \/ ~InputReady(up))
      /\ to_send' = Tail(to_send)
      /\ doing' = (IF Len(to_send) = 1 THEN "receive" ELSE "send")
      /\ down' = down /\ in_queue' = in_queue /\ out_queue' = out_queue
      /\ commands' = commands /\ waits' = waits /\ got' = got /\ got = << >>
      /\ whole' = whole /\ served' = served /\ accepted' = accepted
      /\ to_send # << >>
  BY DEF IInv, SendByte, Shift, queueVars, historyVars
<1>2. /\ to_send \in Seq(BYTE) /\ Head(to_send) \in BYTE /\ Tail(to_send) \in Seq(BYTE)
      /\ Len(Tail(to_send)) = Len(to_send) - 1 /\ Len(to_send) \in Nat \ {0}
  BY <1>1 DEF IInv, TypeOK
<1>3. commands \in 0 .. MaxCommands /\ commands \in Nat
  BY Numbers DEF IInv, TypeOK
<1>4. m \in Mark
  BY <1>2, <1>3 DEF Mark
<1> HIDE DEF m
<1>5. /\ up' \in Seq(Mark) /\ Len(up') <= DEPTH /\ Len(up') <= Len(up) + 1
      /\ Len(up) \in Nat /\ Len(up') \in Nat
  BY <1>1, <1>4, Numbers DEF IInv, TypeOK, ShiftedIn, InputReady
<1>6. Mark' = Mark
  BY <1>1 DEF Mark
<1>7. missed' \in BOOLEAN
  BY <1>1 DEF IInv, TypeOK
<1>8. TypeOK'
  BY <1>1, <1>2, <1>5, <1>7 DEF IInv, TypeOK
<1>9. Budget'
  <2> DEFINE b == commands * Longest
  <2>1. b \in Nat
    BY <1>3, WithinBudget
  <2>2. /\ Len(up) + Len(in_queue) + Len(to_send) <= b /\ Len(in_queue) \in Nat
    BY DEF IInv, TypeOK, Budget
  <2> HIDE DEF b
  <2>3. Len(up') + Len(in_queue) + Len(Tail(to_send)) <= b
    BY <1>2, <1>5, <2>1, <2>2
  <2> QED
    BY <1>1, <2>3 DEF Budget, b
<1>10. doing' = "send" => to_send' # << >>
  BY <1>1, <1>2
<1> QED
  BY <1>1, <1>5, <1>6, <1>8, <1>9, <1>10 DEF IInv

(* A byte that the program takes from the card. *)
LEMMA ReceiveTypes == IInv /\ ReceiveByte => IInv'
<1> SUFFICES ASSUME IInv, ReceiveByte PROVE IInv'
  OBVIOUS
<1> DEFINE bytes == Append(got, Output(down))
<1>1. /\ doing = "receive" /\ down # << >> /\ down' = Tail(down)
      /\ up' = up /\ in_queue' = in_queue /\ out_queue' = out_queue
      /\ commands' = commands /\ waits' = waits /\ to_send' = to_send /\ missed' = missed
      /\ whole' = whole /\ served' = served
  BY DEF ReceiveByte, queueVars, OutputReady, ShiftedOut
<1>2. /\ doing' \in {"receive", "done", "failed"}
      /\ doing' # "receive" => got' = << >>
      /\ got' \in {bytes, << >>}
  BY <1>1 DEF ReceiveByte
<1>3. /\ Head(down) \in BYTE /\ Tail(down) \in Seq(BYTE) /\ got \in Seq(BYTE)
      /\ Len(Tail(down)) <= DEPTH
  BY <1>1, Numbers DEF IInv, TypeOK
<1>4. Output(down) = Head(down)
  BY <1>1 DEF Output, OutputReady
<1>5. bytes \in Seq(BYTE)
  BY <1>3, <1>4
<1> HIDE DEF bytes
<1>6. got' \in Seq(BYTE)
  <2>1. << >> \in Seq(BYTE)
    OBVIOUS
  <2> QED
    BY <1>2, <1>5, <2>1
<1>7. TypeOK' /\ Mark' = Mark /\ Budget'
  BY <1>1, <1>2, <1>3, <1>6 DEF IInv, TypeOK, Mark, Budget
<1> QED
  BY <1>1, <1>2, <1>3, <1>7 DEF IInv

(* A byte that the server takes from the card. *)
LEMMA ReadTypes == IInv /\ ReadByte => IInv'
<1> SUFFICES ASSUME IInv, ReadByte PROVE IInv'
  OBVIOUS
<1> DEFINE h == Head(up)
<1>1. /\ up # << >> /\ up' = Tail(up) /\ in_queue' = Append(in_queue, h.byte)
      /\ whole' = (IF h.ends = 0 THEN whole ELSE Append(whole, h.ends))
      /\ down' = down /\ out_queue' = out_queue /\ served' = served
      /\ commands' = commands /\ doing' = doing /\ waits' = waits
      /\ to_send' = to_send /\ missed' = missed /\ got' = got
  BY DEF ReadByte, OutputReady, Output, ShiftedOut, clientVars
<1>2. /\ h \in Mark /\ Tail(up) \in Seq(Mark) /\ Len(Tail(up)) = Len(up) - 1
      /\ Len(up) \in Nat
  BY <1>1 DEF IInv
<1> HIDE DEF h
<1>3. h.byte \in BYTE /\ h.ends \in 0 .. commands
  BY <1>2 DEF Mark
<1>4. commands \in 0 .. MaxCommands /\ commands \in Nat
  BY Numbers DEF IInv, TypeOK
<1>5. /\ in_queue' \in Seq(BYTE) /\ Len(in_queue') = Len(in_queue) + 1
      /\ Len(in_queue) \in Nat /\ Len(to_send) \in Nat
  BY <1>1, <1>3 DEF IInv, TypeOK
<1>6. whole' \in Seq(1 .. commands)
  <2>1. h.ends # 0 => h.ends \in 1 .. commands
    BY <1>3, <1>4
  <2>2. whole \in Seq(1 .. commands)
    BY DEF IInv, TypeOK
  <2>3. h.ends # 0 => Append(whole, h.ends) \in Seq(1 .. commands)
    BY <2>1, <2>2
  <2> QED
    BY <1>1, <2>2, <2>3
<1> DEFINE b == commands * Longest
<1>7. b \in Nat /\ b < QUEUE_SIZE
  BY <1>4, WithinBudget
<1>8. Len(up) + Len(in_queue) + Len(to_send) <= b
  BY DEF IInv, Budget
<1> HIDE DEF b
<1>9. /\ Len(up') + Len(in_queue') + Len(to_send) <= b /\ Len(in_queue') < QUEUE_SIZE
      /\ Len(up') <= DEPTH
  <2>1. Len(up) <= DEPTH /\ DEPTH \in Nat /\ QUEUE_SIZE \in Nat
    BY Numbers DEF IInv, TypeOK
  <2> DEFINE l == Len(up)
             l2 == Len(up')
             i == Len(in_queue)
             i2 == Len(in_queue')
             s == Len(to_send)
  <2>2. l2 = l - 1 /\ i2 = i + 1 /\ l \in Nat /\ i \in Nat /\ s \in Nat /\ l2 \in Nat
    BY <1>1, <1>2, <1>5
  <2>3. Len(to_send) = s /\ l + i + s <= b /\ l <= DEPTH
    BY <1>8, <2>1
  <2> HIDE DEF l, l2, i, i2, s
  <2>4. l2 + i2 + s <= b /\ i2 < QUEUE_SIZE /\ l2 <= DEPTH
    BY <1>7, <2>1, <2>2, <2>3
  <2> QED
    BY <2>3, <2>4 DEF l2, i2
<1>10. TypeOK' /\ Mark' = Mark
  BY <1>1, <1>5, <1>6, <1>9 DEF IInv, TypeOK, Mark
<1>11. Budget'
  BY <1>1, <1>9 DEF Budget, b
<1> QED
  BY <1>1, <1>2, <1>10, <1>11 DEF IInv

(* A byte that the server gives to the card. *)
LEMMA WriteTypes == IInv /\ WriteByte => IInv'
<1> SUFFICES ASSUME IInv, WriteByte PROVE IInv'
  OBVIOUS
<1>1. /\ out_queue # << >> /\ Len(down) < DEPTH
      /\ down' = Append(down, Head(out_queue)) /\ out_queue' = Tail(out_queue)
      /\ up' = up /\ in_queue' = in_queue /\ whole' = whole /\ served' = served
      /\ commands' = commands /\ doing' = doing /\ waits' = waits
      /\ to_send' = to_send /\ missed' = missed /\ got' = got
  BY DEF WriteByte, InputReady, ShiftedIn, clientVars, historyVars
<1>2. Head(out_queue) \in BYTE /\ Tail(out_queue) \in Seq(BYTE)
  BY <1>1 DEF IInv, TypeOK
<1>3. down' \in Seq(BYTE) /\ Len(down') <= DEPTH
  BY <1>1, <1>2, Numbers DEF IInv, TypeOK
<1>4. TypeOK' /\ Mark' = Mark /\ Budget'
  BY <1>1, <1>2, <1>3 DEF IInv, TypeOK, Mark, Budget
<1> QED
  BY <1>1, <1>3, <1>4 DEF IInv

(* A look at in_queue carries out one command at most, and leaves no more   *)
(* bytes than there were.                                                   *)
LEMMA CheckIs ==
  ASSUME IInv, CheckPacket
  PROVE  /\ in_queue' \in Seq(BYTE) /\ Len(in_queue') <= Len(in_queue)
         /\ \/ served' = served /\ out_queue' = out_queue
            \/ \E letter \in BYTE : /\ served' = Append(served, Number(letter))
                                    /\ out_queue' = out_queue \o PacketOf(Text, <<letter>>)
         /\ up' = up /\ down' = down /\ whole' = whole /\ accepted' = accepted
         /\ commands' = commands /\ doing' = doing /\ waits' = waits
         /\ to_send' = to_send /\ missed' = missed /\ got' = got
<1> DEFINE ring == Ring(in_queue)
           q == SkipToNextPacket(ring)
<1>1. NoPacket(q) \/ DiscardPacket(q) \/ Serve(q)
  BY DEF CheckPacket
<1>2. /\ up' = up /\ down' = down /\ whole' = whole /\ accepted' = accepted
      /\ commands' = commands /\ doing' = doing /\ waits' = waits
      /\ to_send' = to_send /\ missed' = missed /\ got' = got
  BY DEF CheckPacket, cardVars, clientVars
<1>3. ring \in Queues /\ NumberToRead(ring) = Len(in_queue)
  BY RingHolds DEF IInv, TypeOK
<1>4. Behind(q, ring)
  BY <1>3, SkipIsBehind
<1> HIDE DEF q, ring
<1>5. \A r : Behind(r, q) => Unread(r) \in Seq(BYTE) /\ Len(Unread(r)) <= Len(in_queue)
  <2> SUFFICES ASSUME NEW r, Behind(r, q)
               PROVE  Unread(r) \in Seq(BYTE) /\ Len(Unread(r)) <= Len(in_queue)
    OBVIOUS
  <2>1. Behind(r, ring)
    BY <1>3, <1>4, BehindBoth
  <2> QED
    BY <1>3, <2>1, UnreadBytes DEF Behind
<1>6. q \in Queues /\ Behind(q, q)
  BY <1>4, ToRead DEF Behind
<1>7. CASE NoPacket(q)
  BY <1>2, <1>5, <1>6, <1>7 DEF NoPacket
<1>8. CASE DiscardPacket(q)
  BY <1>2, <1>5, <1>6, <1>8, PacketIsBehind DEF DiscardPacket
<1>9. CASE Serve(q)
  <2> DEFINE command == CommandText(q)
             letter == command.name[1]
  <2>1. /\ Arrived(q) /\ command.complete
        /\ in_queue' = Unread(SkipTerminator(command.queue))
        /\ served' = Append(served, Number(letter))
        /\ out_queue' = out_queue \o PacketOf(Text, <<letter>>)
    BY <1>9 DEF Serve, Packet
  <2>2. Behind(command.queue, q) /\ letter \in BYTE
    BY <1>6, <2>1, CommandIsBehind
  <2> HIDE DEF command, letter
  <2>3. Behind(SkipTerminator(command.queue), q)
    <3>1. command.queue \in Queues
      BY <2>2 DEF Behind
    <3> QED
      BY <1>6, <2>2, <3>1, TerminatorIsBehind, BehindBoth
  <2> QED
    BY <1>2, <1>5, <2>1, <2>2, <2>3
<1> QED
  BY <1>1, <1>7, <1>8, <1>9

(* An answer: ten bytes, the seventh the letter of the command. *)
LEMMA AnswerIs ==
  ASSUME NEW letter \in BYTE
  PROVE  LET a == PacketOf(Text, <<letter>>) IN
         /\ a \in Seq(BYTE) /\ Len(a) = 10
         /\ a[1] = Plus /\ a[2] = Plus /\ a[3] = Plus /\ a[4] = 4 /\ a[5] = 0
         /\ a[6] = Text /\ a[7] = letter
         /\ a[8] = Minus /\ a[9] = Minus /\ a[10] = Minus
<1> DEFINE s == <<letter>>
           f == <<Plus, Plus, Plus, 4, 0, Text>>
           r == <<Minus, Minus, Minus>>
           t == f \o s
           a == t \o r
<1>1. s \in Seq(BYTE) /\ Len(s) = 1 /\ s[1] = letter
  OBVIOUS
<1>2. f \in Seq(BYTE) /\ Len(f) = 6
  BY Numbers DEF Text
<1>3. /\ f[1] = Plus /\ f[2] = Plus /\ f[3] = Plus /\ f[4] = 4 /\ f[5] = 0 /\ f[6] = Text
  OBVIOUS
<1>4. r \in Seq(BYTE) /\ Len(r) = 3 /\ r[1] = Minus /\ r[2] = Minus /\ r[3] = Minus
  BY Numbers
<1>5. PacketOf(Text, <<letter>>) = a
  <2>1. Len(s) + 3 = 4
    BY <1>1
  <2> QED
    BY <2>1 DEF PacketOf
<1> HIDE DEF s, f, r
<1>6. /\ t \in Seq(BYTE) /\ Len(t) = 7
      /\ \A i \in 1 .. 7 : t[i] = IF i <= 6 THEN f[i] ELSE s[i - 6]
  <2>1. /\ t \in Seq(BYTE) /\ Len(t) = Len(f) + Len(s)
        /\ \A i \in 1 .. Len(f) + Len(s) : t[i] = IF i <= Len(f) THEN f[i] ELSE s[i - Len(f)]
    BY <1>1, <1>2, ConcatProperties
  <2> HIDE DEF t
  <2> QED
    BY <1>1, <1>2, <2>1
<1> HIDE DEF t
<1>7. /\ a \in Seq(BYTE) /\ Len(a) = 10
      /\ \A i \in 1 .. 10 : a[i] = IF i <= 7 THEN t[i] ELSE r[i - 7]
  <2>1. /\ a \in Seq(BYTE) /\ Len(a) = Len(t) + Len(r)
        /\ \A i \in 1 .. Len(t) + Len(r) : a[i] = IF i <= Len(t) THEN t[i] ELSE r[i - Len(t)]
    BY <1>4, <1>6, ConcatProperties
  <2> HIDE DEF a
  <2> QED
    BY <1>4, <1>6, <2>1
<1> HIDE DEF a
<1>8. /\ a[1] = t[1] /\ a[2] = t[2] /\ a[3] = t[3] /\ a[4] = t[4] /\ a[5] = t[5]
      /\ a[6] = t[6] /\ a[7] = t[7] /\ a[8] = r[1] /\ a[9] = r[2] /\ a[10] = r[3]
  BY <1>7
<1>9. /\ t[1] = f[1] /\ t[2] = f[2] /\ t[3] = f[3] /\ t[4] = f[4] /\ t[5] = f[5]
      /\ t[6] = f[6] /\ t[7] = s[1]
  BY <1>6
<1> QED
  BY <1>1, <1>3, <1>4, <1>5, <1>7, <1>8, <1>9

(* A look at in_queue. *)
LEMMA CheckTypes == IInv /\ CheckPacket => IInv'
<1> SUFFICES ASSUME IInv, CheckPacket PROVE IInv'
  OBVIOUS
<1>1. /\ in_queue' \in Seq(BYTE) /\ Len(in_queue') <= Len(in_queue)
      /\ up' = up /\ down' = down /\ whole' = whole
      /\ commands' = commands /\ doing' = doing /\ waits' = waits
      /\ to_send' = to_send /\ missed' = missed /\ got' = got
  BY CheckIs
<1>2. served' \in Seq(Int) /\ out_queue' \in Seq(BYTE)
  <2>1. served \in Seq(Int) /\ out_queue \in Seq(BYTE)
    BY DEF IInv, TypeOK
  <2>2. CASE served' = served /\ out_queue' = out_queue
    BY <2>1, <2>2
  <2>3. ASSUME NEW letter \in BYTE, served' = Append(served, Number(letter)),
               out_queue' = out_queue \o PacketOf(Text, <<letter>>)
        PROVE  served' \in Seq(Int) /\ out_queue' \in Seq(BYTE)
    <3>1. Number(letter) \in Int
      BY Numbers DEF Number
    <3>2. PacketOf(Text, <<letter>>) \in Seq(BYTE)
      BY AnswerIs
    <3> HIDE DEF Number
    <3> QED
      BY <2>1, <2>3, <3>1, <3>2
  <2> QED
    BY <2>2, <2>3, CheckIs
<1>3. Len(in_queue') \in Nat /\ Len(in_queue) \in Nat /\ Len(up) \in Nat
      /\ Len(to_send) \in Nat
  BY <1>1 DEF IInv, TypeOK
<1>4. TypeOK' /\ Mark' = Mark
  <2>1. Len(in_queue') < QUEUE_SIZE
    BY <1>1, <1>3, Numbers DEF IInv, TypeOK
  <2> QED
    BY <1>1, <1>2, <2>1 DEF IInv, TypeOK, Mark
<1>5. Budget'
  <2> DEFINE b == commands * Longest
  <2>1. b \in Nat
    BY WithinBudget DEF IInv, TypeOK
  <2>2. Len(up) + Len(in_queue) + Len(to_send) <= b
    BY DEF IInv, Budget
  <2> HIDE DEF b
  <2>3. Len(up) + Len(in_queue') + Len(to_send) <= b
    BY <1>1, <1>3, <2>1, <2>2
  <2> QED
    BY <1>1, <2>3 DEF Budget, b
<1> QED
  BY <1>1, <1>4, <1>5 DEF IInv

(* Every step keeps the types. *)
LEMMA StepTypes == IInv /\ [Next]_vars => IInv'
<1> SUFFICES ASSUME IInv, [Next]_vars PROVE IInv'
  OBVIOUS
<1>1. ASSUME NEW client \in CLIENT, Start(client) PROVE IInv'
  BY <1>1, BeginTypes DEF Start
<1>2. ASSUME NEW client \in CLIENT, Again(client) PROVE IInv'
  BY <1>2, BeginTypes DEF Again
<1>3. CASE UNCHANGED vars
  <2>1. /\ up' = up /\ down' = down /\ in_queue' = in_queue /\ out_queue' = out_queue
        /\ commands' = commands /\ doing' = doing /\ waits' = waits
        /\ to_send' = to_send /\ missed' = missed /\ got' = got
        /\ whole' = whole /\ served' = served
    BY <1>3 DEF vars, cardVars, queueVars, clientVars, historyVars
  <2> QED
    BY <2>1 DEF IInv, TypeOK, Mark, Budget
<1> QED
  BY <1>1, <1>2, <1>3, SendTypes, ReceiveTypes, ReadTypes, WriteTypes, CheckTypes
     DEF Next, Client

(* Whatever is lost or cut off, the FIFOs hold no more than they can, what  *)
(* has come and is not yet read fits the ring, and only bytes are taken for *)
(* bytes.                                                                   *)
THEOREM TypeCorrect == Spec => []TypeOK
<1>1. IInv => TypeOK
  BY DEF IInv
<1> QED
  BY <1>1, InitTypes, StepTypes, PTL DEF Spec

-----------------------------------------------------------------------------
(* The way of the answers. *)

(* A number is so many tens and ones. *)
LEMMA TensAndOnes ==
  ASSUME NEW n \in Nat
  PROVE  \E d \in Nat, r \in 0 .. 9 : n = 10 * d + r
<1>1. /\ n \div 10 \in Nat /\ n % 10 \in 0 .. 9
      /\ n = 10 * (n \div 10) + (n % 10)
  OBVIOUS
<1> QED
  BY <1>1

(* Three sequences one behind the other. *)
LEMMA ThreeParts ==
  ASSUME NEW g \in Seq(BYTE), NEW d \in Seq(BYTE), NEW q \in Seq(BYTE)
  PROVE  /\ g \o d \o q \in Seq(BYTE)
         /\ Len(g \o d \o q) = Len(g) + Len(d) + Len(q)
         /\ Len(g) \in Nat /\ Len(d) \in Nat /\ Len(q) \in Nat
         /\ \A i \in 1 .. Len(g) + Len(d) + Len(q) :
              (g \o d \o q)[i] = IF i <= Len(g) THEN g[i]
                                ELSE IF i <= Len(g) + Len(d) THEN d[i - Len(g)]
                                ELSE q[i - (Len(g) + Len(d))]
<1> DEFINE t == g \o d
           w == t \o q
<1>1. Len(g) \in Nat /\ Len(d) \in Nat /\ Len(q) \in Nat
  OBVIOUS
<1>2. /\ t \in Seq(BYTE) /\ Len(t) = Len(g) + Len(d)
      /\ \A i \in 1 .. Len(g) + Len(d) : t[i] = IF i <= Len(g) THEN g[i] ELSE d[i - Len(g)]
  BY ConcatProperties
<1> HIDE DEF t
<1>3. /\ w \in Seq(BYTE) /\ Len(w) = Len(t) + Len(q)
      /\ \A i \in 1 .. Len(t) + Len(q) : w[i] = IF i <= Len(t) THEN t[i] ELSE q[i - Len(t)]
  <2>1. t \in Seq(BYTE)
    BY <1>2
  <2> QED
    BY <2>1, ConcatProperties
<1> HIDE DEF w
<1>4. ASSUME NEW i \in 1 .. Len(g) + Len(d) + Len(q)
      PROVE  w[i] = IF i <= Len(g) THEN g[i]
                    ELSE IF i <= Len(g) + Len(d) THEN d[i - Len(g)]
                    ELSE q[i - (Len(g) + Len(d))]
  <2>1. w[i] = IF i <= Len(t) THEN t[i] ELSE q[i - Len(t)]
    BY <1>2, <1>3
  <2>2. i <= Len(t) => t[i] = IF i <= Len(g) THEN g[i] ELSE d[i - Len(g)]
    BY <1>1, <1>2
  <2>3. i <= Len(g) => i <= Len(t)
    BY <1>1, <1>2
  <2> QED
    BY <1>2, <2>1, <2>2, <2>3
<1>5. w \in Seq(BYTE) /\ Len(w) = Len(g) + Len(d) + Len(q)
  BY <1>2, <1>3
<1> QED
  BY <1>1, <1>4, <1>5 DEF w, t

(* Two ways with the same bytes are the same. *)
LEMMA SameWay ==
  ASSUME NEW v \in Seq(BYTE), NEW w \in Seq(BYTE), Len(v) = Len(w),
         \A k \in 1 .. Len(v) : v[k] = w[k]
  PROVE  v = w
OBVIOUS

(* The first byte on the way, of which answer and which of its bytes it is. *)
LEMMA FirstOfWay ==
  ASSUME Way \in Seq(BYTE), Len(Way) > 0, EndOfAnswers, served \in Seq(Int)
  PROVE  \E j \in 1 .. Len(served), o \in 1 .. 10 : Place(j, o) = 1
<1> DEFINE n == Len(Way)
           m == Len(served)
<1>1. n \in Nat /\ n > 0 /\ m \in Nat /\ n <= 10 * m
  BY DEF EndOfAnswers
<1>2. \A j, o : Place(j, o) = n - 10 * (m - j) - 10 + o
  BY DEF Place
<1> HIDE DEF n, m
<1>3. n - 1 \in Nat
  BY <1>1
<1>4. PICK d \in Nat, r \in 0 .. 9 : n - 1 = 10 * d + r
  BY <1>3, TensAndOnes
<1>5. m - d \in 1 .. m /\ 10 - r \in 1 .. 10
  BY <1>1, <1>4
<1>6. Place(m - d, 10 - r) = 1
  BY <1>1, <1>2, <1>4
<1> QED
  BY <1>5, <1>6 DEF m

(* Only the first byte of an answer is followed by two more of a "+++".     *)
LEMMA OnlyAtFirst ==
  ASSUME Way \in Seq(BYTE), Len(Way) >= 3, EndOfAnswers, served \in Seq(Int),
         Way[1] = Plus, Way[2] = Plus, Way[3] = Plus
  PROVE  \E j \in 1 .. Len(served) : Place(j, 1) = 1
<1> DEFINE n == Len(Way)
           m == Len(served)
<1>1. n \in Nat /\ m \in Nat
  OBVIOUS
<1>2. PICK j \in 1 .. Len(served), o \in 1 .. 10 : Place(j, o) = 1
  BY FirstOfWay
<1>3. \A p \in 1 .. 10 : Place(j, p) = 1 + p - o
  <2>1. j \in 1 .. m
    BY <1>2
  <2>2. \A p : Place(j, p) = n - 10 * (m - j) - 10 + p
    BY DEF Place
  <2> HIDE DEF n, m
  <2> QED
    BY <1>1, <1>2, <2>1, <2>2
<1>4. \A p \in 1 .. 10, k \in Nat : k = 1 + p - o /\ k >= 1 => IsPart(Way[k], j, p)
  BY <1>2, <1>3 DEF EndOfAnswers
<1>5. Plus # 4 /\ Plus # 0 /\ Plus # Text /\ Plus # Minus
  BY DEF Plus, Text, Minus
<1>6. CASE o \in {2, 3}
  <2>1. IsPart(Way[5 - o], j, 4)
    BY <1>4, <1>6
  <2> QED
    BY <1>5, <1>6, <2>1 DEF IsPart
<1>7. CASE o \in {4, 5, 6}
  <2>1. 1 = 1 + o - o /\ 1 >= 1 /\ 1 \in Nat /\ o \in 1 .. 10
    OBVIOUS
  <2>2. IsPart(Way[1], j, o)
    BY <1>4, <2>1
  <2> QED
    BY <1>5, <1>7, <2>2 DEF IsPart
<1>8. CASE o = 7
  <2>1. IsPart(Way[2], j, 8)
    BY <1>4, <1>8
  <2> QED
    BY <1>5, <2>1 DEF IsPart
<1>9. CASE o \in {8, 9, 10}
  <2>1. IsPart(Way[1], j, o)
    BY <1>4, <1>9
  <2> QED
    BY <1>5, <1>9, <2>1 DEF IsPart
<1>10. CASE o = 1
  BY <1>2, <1>10
<1> QED
  BY <1>2, <1>6, <1>7, <1>8, <1>9, <1>10

(* Bytes leave the way at its front. *)
LEMMA WayShortens ==
  ASSUME Way \in Seq(BYTE), EndOfAnswers, served \in Seq(Int), served' = served,
         NEW d \in Nat, Way' \in Seq(BYTE), Len(Way') = Len(Way) - d,
         \A k \in 1 .. Len(Way') : Way'[k] = Way[k + d]
  PROVE  /\ EndOfAnswers'
         /\ \A j \in 1 .. Len(served), o \in 1 .. 10 : Place(j, o)' = Place(j, o) - d
<1> DEFINE n == Len(Way)
           m == Len(served)
<1>1. n \in Nat /\ m \in Nat /\ n - d \in Nat /\ n <= 10 * m /\ Len(served') = m
  BY DEF EndOfAnswers
<1>2. ASSUME NEW j \in 1 .. m, NEW o \in 1 .. 10
      PROVE  Place(j, o)' = Place(j, o) - d /\ Place(j, o) \in Int /\ Place(j, o) <= n
  <2>1. Place(j, o) = n - 10 * (m - j) - 10 + o
    BY DEF Place
  <2>2. Place(j, o)' = n - d - 10 * (m - j) - 10 + o
    BY <1>1 DEF Place
  <2> HIDE DEF n, m
  <2> QED
    BY <1>1, <2>1, <2>2
<1>3. ASSUME NEW j \in 1 .. m, NEW o \in 1 .. 10, Place(j, o)' >= 1
      PROVE  IsPart(Way[Place(j, o)], j, o)' 
  <2> DEFINE k == Place(j, o)'
             i == Place(j, o)
  <2>1. k = i - d /\ i \in Int /\ i <= n /\ k >= 1
    BY <1>2, <1>3
  <2>2. Place(j, o) >= 1 => IsPart(Way[Place(j, o)], j, o)
    BY DEF EndOfAnswers
  <2>3. Place(j, o) >= 1 <=> i >= 1
    OBVIOUS
  <2>4. Way[Place(j, o)] = Way[i]
    OBVIOUS
  <2> HIDE DEF k, i, n
  <2>5. k \in 1 .. n - d /\ i >= 1 /\ k + d = i
    BY <1>1, <2>1
  <2>6. IsPart(Way[i], j, o)
    BY <2>2, <2>3, <2>4, <2>5
  <2>7. Way'[k] = Way[i]
    BY <2>1, <2>5 DEF n
  <2>8. /\ o \in 1 .. 3 => Way'[k] = Plus
        /\ o = 4 => Way'[k] = 4
        /\ o = 5 => Way'[k] = 0
        /\ o = 6 => Way'[k] = Text
        /\ o = 7 => Number(Way'[k]) = served'[j]
        /\ o \in 8 .. 10 => Way'[k] = Minus
    BY <2>6, <2>7 DEF IsPart
  <2> QED
    BY <2>8 DEF IsPart, k
<1>4. EndOfAnswers'
  <2>1. Len(Way') <= 10 * Len(served')
    BY <1>1
  <2> QED
    BY <1>1, <1>3, <2>1 DEF EndOfAnswers
<1> QED
  BY <1>2, <1>4

(* An answer is put at the end of the way. *)
LEMMA WayGrows ==
  ASSUME Way \in Seq(BYTE), EndOfAnswers, served \in Seq(Int), NEW letter \in BYTE,
         Number(letter) \in Int,
         Len(served') = Len(served) + 1, served'[Len(served) + 1] = Number(letter),
         \A j \in 1 .. Len(served) : served'[j] = served[j],
         Way' \in Seq(BYTE), Len(Way') = Len(Way) + 10,
         \A k \in 1 .. Len(Way) : Way'[k] = Way[k],
         \A k \in 1 .. 3 : Way'[Len(Way) + k] = Plus,
         Way'[Len(Way) + 4] = 4, Way'[Len(Way) + 5] = 0, Way'[Len(Way) + 6] = Text,
         Way'[Len(Way) + 7] = letter,
         \A k \in 8 .. 10 : Way'[Len(Way) + k] = Minus
  PROVE  /\ EndOfAnswers'
         /\ \A j \in 1 .. Len(served), o \in 1 .. 10 : Place(j, o)' = Place(j, o)
<1> DEFINE n == Len(Way)
           m == Len(served)
<1>1. n \in Nat /\ m \in Nat /\ n <= 10 * m /\ n + 10 \in Nat
  <2>1. n \in Nat /\ m \in Nat
    OBVIOUS
  <2>2. n <= 10 * m
    BY Zenon DEF EndOfAnswers
  <2> HIDE DEF n, m
  <2> QED
    BY <2>1, <2>2
<1>2. /\ Len(served') = m + 1 /\ served'[m + 1] = Number(letter)
      /\ \A j \in 1 .. m : served'[j] = served[j]
  OBVIOUS
<1>3. ASSUME NEW j \in 1 .. m, NEW o \in 1 .. 10
      PROVE  Place(j, o)' = Place(j, o) /\ Place(j, o) \in Int /\ Place(j, o) <= n
  <2>1. Place(j, o) = n - 10 * (m - j) - 10 + o
    BY DEF Place
  <2>2. Place(j, o)' = n + 10 - 10 * (m + 1 - j) - 10 + o
    BY <1>2 DEF Place
  <2> HIDE DEF n, m
  <2> QED
    BY <1>1, <2>1, <2>2
<1>4. ASSUME NEW j, j = m + 1, NEW o \in 1 .. 10 PROVE Place(j, o)' = n + o
  <2>1. Place(j, o)' = n + 10 - 10 * (m + 1 - (m + 1)) - 10 + o
    BY <1>2, <1>4 DEF Place
  <2> HIDE DEF n, m
  <2> QED
    BY <1>1, <2>1
<1>5. ASSUME NEW j \in 1 .. m, NEW o \in 1 .. 10, Place(j, o)' >= 1
      PROVE  IsPart(Way[Place(j, o)], j, o)'
  <2> DEFINE k == Place(j, o)'
             i == Place(j, o)
  <2>1. k = i /\ i \in Int /\ i <= n /\ k >= 1
    BY <1>3, <1>5
  <2>2. Place(j, o) >= 1 => IsPart(Way[Place(j, o)], j, o)
    BY DEF EndOfAnswers
  <2>3. (i >= 1 <=> Place(j, o) >= 1) /\ Way[Place(j, o)] = Way[i]
    OBVIOUS
  <2> HIDE DEF k, i, n
  <2>4. k = i /\ k \in 1 .. n /\ IsPart(Way[i], j, o)
    BY <1>1, <2>1, <2>2, <2>3
  <2>5. Way'[k] = Way[i] /\ served'[j] = served[j]
    BY <1>2, <2>4 DEF n
  <2>6. /\ o \in 1 .. 3 => Way'[k] = Plus
        /\ o = 4 => Way'[k] = 4
        /\ o = 5 => Way'[k] = 0
        /\ o = 6 => Way'[k] = Text
        /\ o = 7 => Number(Way'[k]) = served'[j]
        /\ o \in 8 .. 10 => Way'[k] = Minus
    BY <2>4, <2>5 DEF IsPart
  <2> QED
    BY <2>6 DEF IsPart, k
<1>6. ASSUME NEW j, j = m + 1, NEW o \in 1 .. 10
      PROVE  IsPart(Way[Place(j, o)], j, o)'
  <2> DEFINE k == Place(j, o)'
  <2>1. k = n + o
    BY <1>4, <1>6
  <2> HIDE DEF k
  <2>2. /\ o \in 1 .. 3 => Way'[k] = Plus
        /\ o = 4 => Way'[k] = 4
        /\ o = 5 => Way'[k] = 0
        /\ o = 6 => Way'[k] = Text
        /\ o = 7 => Number(Way'[k]) = served'[j]
        /\ o \in 8 .. 10 => Way'[k] = Minus
    BY <1>2, <1>6, <2>1
  <2> QED
    BY <2>2 DEF IsPart, k
<1>7. Len(Way') <= 10 * Len(served')
  <2>1. Len(Way') = n + 10 /\ Len(served') = m + 1
    BY <1>2
  <2> DEFINE l == Len(Way')
             s == Len(served')
  <2> HIDE DEF n, m, l, s
  <2>2. l <= 10 * s
    BY <1>1, <2>1 DEF l, s
  <2> QED
    BY <2>2 DEF l, s
<1>8. \A j \in 1 .. Len(served') : j \in 1 .. m \/ j = m + 1
  <2>1. Len(served') = m + 1
    BY <1>2
  <2> HIDE DEF m
  <2> QED
    BY <1>1, <2>1
<1>9. ASSUME NEW j \in 1 .. Len(served'), NEW o \in 1 .. 10, Place(j, o)' >= 1
      PROVE  IsPart(Way[Place(j, o)], j, o)'
  <2>1. CASE j \in 1 .. m
    BY <1>5, <1>9, <2>1
  <2>2. CASE j = m + 1
    BY <1>6, <2>2
  <2> QED
    BY <1>8, <2>1, <2>2
<1>10. EndOfAnswers'
  BY <1>7, <1>9 DEF EndOfAnswers
<1> QED
  BY <1>3, <1>10

(* What has been taken stays taken, while the way does not get longer at    *)
(* its front.                                                               *)
LEMMA TakenStays ==
  ASSUME TakenInOrder, accepted' = accepted, accepted \in Seq(Accepted),
         Len(served) \in Nat, Len(served') \in Nat, Len(served) <= Len(served'),
         \A j \in 1 .. Len(served) : /\ served'[j] = served[j]
                                     /\ Place(j, 10) \in Int /\ Place(j, 10)' \in Int
                                     /\ Place(j, 10)' <= Place(j, 10)
  PROVE  TakenInOrder'
<1>1. PICK at \in [1 .. Len(accepted) -> 1 .. Len(served)] :
        \A i \in 1 .. Len(accepted) :
          /\ accepted[i].answer = served[at[i]]
          /\ \A k \in 1 .. i - 1 : at[k] < at[i]
          /\ Place(at[i], 10) <= 0
  BY DEF TakenInOrder
<1>2. at \in [1 .. Len(accepted') -> 1 .. Len(served')]
  <2>1. 1 .. Len(served) \subseteq 1 .. Len(served')
    OBVIOUS
  <2> QED
    BY <2>1
<1>3. ASSUME NEW i \in 1 .. Len(accepted')
      PROVE  /\ accepted'[i].answer = served'[at[i]]
             /\ \A k \in 1 .. i - 1 : at[k] < at[i]
             /\ Place(at[i], 10)' <= 0
  <2>1. at[i] \in 1 .. Len(served) /\ i \in 1 .. Len(accepted)
    OBVIOUS
  <2>2. accepted'[i].answer = served'[at[i]]
    BY <1>1, <2>1
  <2>3. Place(at[i], 10)' <= 0
    <3> DEFINE p == Place(at[i], 10)
               p2 == Place(at[i], 10)'
    <3>1. p \in Int /\ p2 \in Int /\ p2 <= p /\ p <= 0
      BY <1>1, <2>1
    <3> HIDE DEF p, p2
    <3>2. p2 <= 0
      BY <3>1
    <3> QED
      BY <3>2 DEF p2
  <2> QED
    BY <1>1, <2>1, <2>2, <2>3
<1> QED
  BY <1>2, <1>3 DEF TakenInOrder

(* Places are numbers. *)
LEMMA PlaceIsNumber ==
  ASSUME Way \in Seq(BYTE), served \in Seq(Int), NEW j \in Nat, NEW o \in 1 .. 10
  PROVE  Place(j, o) \in Int
BY DEF Place

-----------------------------------------------------------------------------
(* What the steps do to the way. *)

(* A byte handed on from one part to the part in front of it.               *)
LEMMA HandedOn ==
  ASSUME NEW g \in Seq(BYTE), NEW d \in Seq(BYTE), NEW q \in Seq(BYTE)
  PROVE  /\ d # << >> => Append(g, Head(d)) \o Tail(d) \o q = g \o d \o q
         /\ q # << >> => g \o Append(d, Head(q)) \o Tail(q) = g \o d \o q
<1> DEFINE w == g \o d \o q
<1>1. /\ w \in Seq(BYTE) /\ Len(w) = Len(g) + Len(d) + Len(q)
      /\ Len(g) \in Nat /\ Len(d) \in Nat /\ Len(q) \in Nat
      /\ \A i \in 1 .. Len(g) + Len(d) + Len(q) :
           w[i] = IF i <= Len(g) THEN g[i]
                  ELSE IF i <= Len(g) + Len(d) THEN d[i - Len(g)]
                  ELSE q[i - (Len(g) + Len(d))]
  BY ThreeParts
<1> HIDE DEF w
<1>2. ASSUME d # << >> PROVE Append(g, Head(d)) \o Tail(d) \o q = w
  <2> DEFINE a == Append(g, Head(d))
             b == Tail(d)
             v == a \o b \o q
  <2>1. /\ a \in Seq(BYTE) /\ Len(a) = Len(g) + 1 /\ a[Len(g) + 1] = d[1]
        /\ \A i \in 1 .. Len(g) : a[i] = g[i]
    BY <1>2
  <2>2. /\ b \in Seq(BYTE) /\ Len(b) = Len(d) - 1 /\ Len(d) > 0
        /\ \A i \in 1 .. Len(d) - 1 : b[i] = d[i + 1]
    BY <1>2
  <2> HIDE DEF a, b
  <2>3. /\ v \in Seq(BYTE) /\ Len(v) = Len(a) + Len(b) + Len(q)
        /\ \A i \in 1 .. Len(a) + Len(b) + Len(q) :
             v[i] = IF i <= Len(a) THEN a[i]
                    ELSE IF i <= Len(a) + Len(b) THEN b[i - Len(a)]
                    ELSE q[i - (Len(a) + Len(b))]
    <3>1. a \in Seq(BYTE) /\ b \in Seq(BYTE)
      BY <2>1, <2>2
    <3> QED
      BY <3>1, ThreeParts
  <2> HIDE DEF v
  <2>4. Len(v) = Len(w) /\ Len(a) + Len(b) = Len(g) + Len(d)
    BY <1>1, <2>1, <2>2, <2>3
  <2>5. ASSUME NEW k \in 1 .. Len(v) PROVE v[k] = w[k]
    <3> DEFINE n == Len(g)
               m == Len(d)
               l == Len(q)
    <3>1. n \in Nat /\ m \in Nat /\ l \in Nat /\ k \in 1 .. n + m + l
      BY <1>1, <2>4
    <3>2. /\ v[k] = IF k <= n + 1 THEN a[k]
                    ELSE IF k <= n + m THEN b[k - (n + 1)] ELSE q[k - (n + m)]
          /\ w[k] = IF k <= n THEN g[k]
                    ELSE IF k <= n + m THEN d[k - n] ELSE q[k - (n + m)]
      BY <1>1, <2>1, <2>3, <2>4, <3>1
    <3>3. /\ a[n + 1] = d[1] /\ \A i \in 1 .. n : a[i] = g[i]
          /\ \A i \in 1 .. m - 1 : b[i] = d[i + 1]
          /\ m > 0
      BY <2>1, <2>2
    <3> HIDE DEF n, m, l
    <3>4. CASE k <= n
      BY <3>1, <3>2, <3>3, <3>4
    <3>5. CASE k = n + 1
      <4>1. k - n = 1 /\ ~(k <= n) /\ k <= n + m /\ k <= n + 1
        BY <3>1, <3>3, <3>5
      <4> QED
        BY <3>2, <3>3, <3>5, <4>1
    <3>6. CASE k > n + 1 /\ k <= n + m
      <4>1. /\ k - (n + 1) \in 1 .. m - 1 /\ k - (n + 1) + 1 = k - n
            /\ ~(k <= n) /\ ~(k <= n + 1)
        BY <3>1, <3>6
      <4>2. b[k - (n + 1)] = d[k - (n + 1) + 1]
        BY <3>3, <4>1
      <4> QED
        BY <3>2, <3>6, <4>1, <4>2
    <3>7. CASE k > n + m
      <4>1. ~(k <= n) /\ ~(k <= n + 1) /\ ~(k <= n + m)
        BY <3>1, <3>3, <3>7
      <4> QED
        BY <3>2, <4>1
    <3>8. k <= n \/ k = n + 1 \/ (k > n + 1 /\ k <= n + m) \/ k > n + m
      BY <3>1
    <3> QED
      BY <3>4, <3>5, <3>6, <3>7, <3>8
  <2>6. v = w
    BY <1>1, <2>3, <2>4, <2>5, SameWay
  <2> QED
    BY <2>6 DEF v, a, b
<1>3. ASSUME q # << >> PROVE g \o Append(d, Head(q)) \o Tail(q) = w
  <2> DEFINE a == Append(d, Head(q))
             b == Tail(q)
             v == g \o a \o b
  <2>1. /\ a \in Seq(BYTE) /\ Len(a) = Len(d) + 1 /\ a[Len(d) + 1] = q[1]
        /\ \A i \in 1 .. Len(d) : a[i] = d[i]
    BY <1>3
  <2>2. /\ b \in Seq(BYTE) /\ Len(b) = Len(q) - 1 /\ Len(q) > 0
        /\ \A i \in 1 .. Len(q) - 1 : b[i] = q[i + 1]
    BY <1>3
  <2> HIDE DEF a, b
  <2>3. /\ v \in Seq(BYTE) /\ Len(v) = Len(g) + Len(a) + Len(b)
        /\ \A i \in 1 .. Len(g) + Len(a) + Len(b) :
             v[i] = IF i <= Len(g) THEN g[i]
                    ELSE IF i <= Len(g) + Len(a) THEN a[i - Len(g)]
                    ELSE b[i - (Len(g) + Len(a))]
    <3>1. a \in Seq(BYTE) /\ b \in Seq(BYTE)
      BY <2>1, <2>2
    <3> QED
      BY <3>1, ThreeParts
  <2> HIDE DEF v
  <2>4. Len(v) = Len(w) /\ Len(a) + Len(b) = Len(d) + Len(q)
    BY <1>1, <2>1, <2>2, <2>3
  <2>5. ASSUME NEW k \in 1 .. Len(v) PROVE v[k] = w[k]
    <3> DEFINE n == Len(g)
               m == Len(d)
               l == Len(q)
    <3>1. n \in Nat /\ m \in Nat /\ l \in Nat /\ k \in 1 .. n + m + l
      BY <1>1, <2>4
    <3>2. /\ v[k] = IF k <= n THEN g[k]
                    ELSE IF k <= n + (m + 1) THEN a[k - n] ELSE b[k - (n + (m + 1))]
          /\ w[k] = IF k <= n THEN g[k]
                    ELSE IF k <= n + m THEN d[k - n] ELSE q[k - (n + m)]
      <4>1. k \in 1 .. Len(g) + Len(a) + Len(b)
        BY <2>3
      <4> QED
        BY <1>1, <2>1, <2>3, <3>1, <4>1
    <3>3. /\ a[m + 1] = q[1] /\ \A i \in 1 .. m : a[i] = d[i]
          /\ \A i \in 1 .. l - 1 : b[i] = q[i + 1]
          /\ l > 0
      BY <2>1, <2>2
    <3> HIDE DEF n, m, l
    <3>4. CASE k <= n
      BY <3>2, <3>4
    <3>5. CASE k > n /\ k <= n + m
      <4>1. /\ k - n \in 1 .. m /\ ~(k <= n) /\ k <= n + (m + 1)
        BY <3>1, <3>5
      <4> QED
        BY <3>2, <3>3, <3>5, <4>1
    <3>6. CASE k = n + m + 1
      <4>1. /\ k - n = m + 1 /\ k - (n + m) = 1 /\ ~(k <= n) /\ ~(k <= n + m)
            /\ k <= n + (m + 1)
        BY <3>1, <3>6
      <4> QED
        BY <3>2, <3>3, <4>1
    <3>7. CASE k > n + m + 1
      <4>1. /\ ~(k <= n) /\ ~(k <= n + m) /\ ~(k <= n + (m + 1))
            /\ k - (n + (m + 1)) \in 1 .. l - 1
            /\ k - (n + (m + 1)) + 1 = k - (n + m)
        BY <3>1, <3>7
      <4>2. b[k - (n + (m + 1))] = q[k - (n + (m + 1)) + 1]
        BY <3>3, <4>1
      <4> QED
        BY <3>2, <4>1, <4>2
    <3>8. k <= n \/ (k > n /\ k <= n + m) \/ k = n + m + 1 \/ k > n + m + 1
      BY <3>1
    <3> QED
      BY <3>4, <3>5, <3>6, <3>7, <3>8
  <2>6. v = w
    BY <1>1, <2>3, <2>4, <2>5, SameWay
  <2> QED
    BY <2>6 DEF v, a, b
<1> QED
  BY <1>2, <1>3 DEF w

(* Parts at the front are left out. *)
LEMMA LeftOut ==
  ASSUME NEW g \in Seq(BYTE), NEW d \in Seq(BYTE), NEW q \in Seq(BYTE)
  PROVE  /\ << >> \o d \o q \in Seq(BYTE) /\ << >> \o << >> \o q \in Seq(BYTE)
         /\ Len(<< >> \o d \o q) = Len(g \o d \o q) - Len(g)
         /\ Len(<< >> \o << >> \o q) = Len(g \o d \o q) - (Len(g) + Len(d))
         /\ \A k \in 1 .. Len(<< >> \o d \o q) :
              (<< >> \o d \o q)[k] = (g \o d \o q)[k + Len(g)]
         /\ \A k \in 1 .. Len(<< >> \o << >> \o q) :
              (<< >> \o << >> \o q)[k] = (g \o d \o q)[k + (Len(g) + Len(d))]
<1> DEFINE w == g \o d \o q
           e == << >>
           n == Len(g)
           m == Len(d)
           l == Len(q)
<1>1. /\ w \in Seq(BYTE) /\ Len(w) = n + m + l /\ n \in Nat /\ m \in Nat /\ l \in Nat
      /\ \A i \in 1 .. n + m + l :
           w[i] = IF i <= n THEN g[i] ELSE IF i <= n + m THEN d[i - n] ELSE q[i - (n + m)]
  BY ThreeParts
<1>2. e \in Seq(BYTE) /\ Len(e) = 0
  OBVIOUS
<1> HIDE DEF w, e
<1>3. ASSUME NEW b \in Seq(BYTE)
      PROVE  /\ e \o b \o q \in Seq(BYTE) /\ Len(e \o b \o q) = Len(b) + l /\ Len(b) \in Nat
             /\ \A i \in 1 .. Len(b) + l :
                  (e \o b \o q)[i] = IF i <= Len(b) THEN b[i] ELSE q[i - Len(b)]
  <2> DEFINE v == e \o b \o q
  <2>1. /\ v \in Seq(BYTE) /\ Len(v) = Len(e) + Len(b) + l /\ Len(b) \in Nat
        /\ \A i \in 1 .. Len(e) + Len(b) + l :
             v[i] = IF i <= Len(e) THEN e[i]
                    ELSE IF i <= Len(e) + Len(b) THEN b[i - Len(e)]
                    ELSE q[i - (Len(e) + Len(b))]
    BY <1>2, ThreeParts
  <2> HIDE DEF v
  <2>2. Len(v) = Len(b) + l
    BY <1>1, <1>2, <2>1
  <2>3. ASSUME NEW i \in 1 .. Len(b) + l
        PROVE  v[i] = IF i <= Len(b) THEN b[i] ELSE q[i - Len(b)]
    <3>1. /\ i \in 1 .. Len(e) + Len(b) + l /\ ~(i <= Len(e)) /\ i - Len(e) = i
          /\ Len(e) + Len(b) = Len(b)
      BY <1>1, <1>2, <2>1
    <3> QED
      BY <2>1, <3>1
  <2> QED
    BY <2>1, <2>2, <2>3 DEF v
<1>4. /\ e \o d \o q \in Seq(BYTE) /\ Len(e \o d \o q) = Len(w) - n
      /\ \A k \in 1 .. Len(e \o d \o q) : (e \o d \o q)[k] = w[k + n]
  <2> DEFINE v == e \o d \o q
  <2>1. /\ v \in Seq(BYTE) /\ Len(v) = m + l
        /\ \A i \in 1 .. m + l : v[i] = IF i <= m THEN d[i] ELSE q[i - m]
    BY <1>3
  <2> HIDE DEF v, n, m, l
  <2>2. ASSUME NEW k \in 1 .. m + l PROVE v[k] = w[k + n]
    <3>1. /\ k + n \in 1 .. n + m + l /\ ~(k + n <= n) /\ (k + n <= n + m <=> k <= m)
          /\ k + n - n = k /\ k + n - (n + m) = k - m
      BY <1>1
    <3>2. w[k + n] = IF k + n <= n + m THEN d[k + n - n] ELSE q[k + n - (n + m)]
      BY <1>1, <3>1
    <3>3. v[k] = IF k <= m THEN d[k] ELSE q[k - m]
      BY <2>1
    <3> QED
      BY <3>1, <3>2, <3>3
  <2> QED
    BY <1>1, <2>1, <2>2 DEF v
<1>5. /\ e \o e \o q \in Seq(BYTE) /\ Len(e \o e \o q) = Len(w) - (n + m)
      /\ \A k \in 1 .. Len(e \o e \o q) : (e \o e \o q)[k] = w[k + (n + m)]
  <2> DEFINE v == e \o e \o q
  <2>1. /\ v \in Seq(BYTE) /\ Len(v) = Len(e) + l
        /\ \A i \in 1 .. Len(e) + l : v[i] = IF i <= Len(e) THEN e[i] ELSE q[i - Len(e)]
    BY <1>2, <1>3
  <2> HIDE DEF v, n, m, l
  <2>2. ASSUME NEW k \in 1 .. l PROVE v[k] = w[k + (n + m)]
    <3>1. /\ k + (n + m) \in 1 .. n + m + l /\ ~(k + (n + m) <= n)
          /\ ~(k + (n + m) <= n + m) /\ k + (n + m) - (n + m) = k
          /\ k \in 1 .. Len(e) + l /\ ~(k <= Len(e)) /\ k - Len(e) = k
      BY <1>1, <1>2
    <3>2. w[k + (n + m)] = q[k + (n + m) - (n + m)]
      BY <1>1, <3>1
    <3>3. v[k] = q[k - Len(e)]
      BY <2>1, <3>1
    <3> QED
      BY <3>1, <3>2, <3>3
  <2>3. Len(v) = l
    BY <1>1, <1>2, <2>1
  <2>4. l = Len(w) - (n + m)
    BY <1>1
  <2> QED
    BY <2>1, <2>2, <2>3, <2>4 DEF v
<1> QED
  BY <1>4, <1>5 DEF e, w, n, m, l

(* A part is put at the end. *)
LEMMA PutAtEnd ==
  ASSUME NEW t \in Seq(BYTE), NEW q \in Seq(BYTE), NEW a \in Seq(BYTE),
         NEW w, w = t \o q, NEW v, v = t \o (q \o a)
  PROVE  /\ v \in Seq(BYTE) /\ Len(v) = Len(w) + Len(a)
         /\ \A k \in 1 .. Len(w) : v[k] = w[k]
         /\ \A k \in 1 .. Len(a) : v[Len(w) + k] = a[k]
<1> DEFINE p == q \o a
<1>1. t \in Seq(BYTE) /\ Len(t) \in Nat /\ Len(q) \in Nat /\ Len(a) \in Nat
  OBVIOUS
<1>2. /\ p \in Seq(BYTE) /\ Len(p) = Len(q) + Len(a)
      /\ \A i \in 1 .. Len(q) + Len(a) : p[i] = IF i <= Len(q) THEN q[i] ELSE a[i - Len(q)]
  BY ConcatProperties
<1>3. w = t \o q /\ v = t \o p
  OBVIOUS
<1> HIDE DEF p
<1>4. /\ w \in Seq(BYTE) /\ Len(w) = Len(t) + Len(q)
      /\ \A i \in 1 .. Len(t) + Len(q) : w[i] = IF i <= Len(t) THEN t[i] ELSE q[i - Len(t)]
  BY <1>1, <1>3, ConcatProperties
<1>5. /\ v \in Seq(BYTE) /\ Len(v) = Len(t) + Len(p)
      /\ \A i \in 1 .. Len(t) + Len(p) : v[i] = IF i <= Len(t) THEN t[i] ELSE p[i - Len(t)]
  <2>1. p \in Seq(BYTE)
    BY <1>2
  <2> QED
    BY <1>1, <1>3, <2>1, ConcatProperties
<1>6. Len(v) = Len(w) + Len(a)
  BY <1>1, <1>2, <1>4, <1>5
<1>7. ASSUME NEW k \in 1 .. Len(w) PROVE v[k] = w[k]
  <2>1. k \in 1 .. Len(t) + Len(q) /\ k \in 1 .. Len(t) + Len(p)
    BY <1>1, <1>2, <1>4
  <2>2. CASE k <= Len(t)
    BY <1>4, <1>5, <2>1, <2>2
  <2>3. CASE ~(k <= Len(t))
    <3>1. k - Len(t) \in 1 .. Len(q) + Len(a) /\ k - Len(t) <= Len(q)
      BY <1>1, <2>1, <2>3
    <3>2. p[k - Len(t)] = q[k - Len(t)]
      BY <1>2, <3>1
    <3> QED
      BY <1>4, <1>5, <2>1, <2>3, <3>2
  <2> QED
    BY <2>2, <2>3
<1>8. ASSUME NEW k \in 1 .. Len(a) PROVE v[Len(w) + k] = a[k]
  <2> DEFINE i == Len(w) + k
             h == i - Len(t)
  <2>1. /\ i \in 1 .. Len(t) + Len(p) /\ ~(i <= Len(t))
        /\ h \in 1 .. Len(q) + Len(a) /\ ~(h <= Len(q)) /\ h - Len(q) = k
    BY <1>1, <1>2, <1>4
  <2>2. v[i] = p[h]
    <3> HIDE DEF i
    <3> QED
      BY <1>5, <2>1
  <2> HIDE DEF i, h
  <2>3. v[i] = a[k]
    BY <1>2, <2>1, <2>2
  <2> QED
    BY <2>3 DEF i
<1> QED
  BY <1>5, <1>6, <1>7, <1>8

-----------------------------------------------------------------------------
(* The answers. *)

(* What the conjuncts of IInv say of the way. *)
LEMMA WayTypes ==
  ASSUME IInv
  PROVE  /\ got \in Seq(BYTE) /\ down \in Seq(BYTE) /\ out_queue \in Seq(BYTE)
         /\ Way \in Seq(BYTE) /\ served \in Seq(Int) /\ Len(served) \in Nat
         /\ commands \in Nat
<1>1. /\ got \in Seq(BYTE) /\ down \in Seq(BYTE) /\ out_queue \in Seq(BYTE)
      /\ served \in Seq(Int) /\ commands \in Nat
  BY Numbers DEF IInv, TypeOK
<1> QED
  BY <1>1, ThreeParts DEF Way

(* Bytes leave the way at its front, or none do, and nothing is taken.      *)
LEMMA NothingTaken ==
  ASSUME IInv, AInv, served' = served, accepted' = accepted,
         commands' \in Nat, commands <= commands',
         NEW d \in Nat, Way' \in Seq(BYTE), Len(Way') = Len(Way) - d,
         \A k \in 1 .. Len(Way') : Way'[k] = Way[k + d]
  PROVE  /\ EndOfAnswers' /\ TakenInOrder' /\ accepted' \in Seq(Accepted')
         /\ \A j \in 1 .. Len(served), o \in 1 .. 10 : Place(j, o)' = Place(j, o) - d
<1>1. Way \in Seq(BYTE) /\ served \in Seq(Int) /\ Len(served) \in Nat /\ commands \in Nat
  BY WayTypes
<1>2. EndOfAnswers /\ TakenInOrder /\ accepted \in Seq(Accepted)
  BY DEF AInv
<1>3. /\ EndOfAnswers'
      /\ \A j \in 1 .. Len(served), o \in 1 .. 10 : Place(j, o)' = Place(j, o) - d
  BY <1>1, <1>2, WayShortens
<1>4. ASSUME NEW j \in 1 .. Len(served)
      PROVE  /\ served'[j] = served[j] /\ Place(j, 10) \in Int /\ Place(j, 10)' \in Int
             /\ Place(j, 10)' <= Place(j, 10)
  <2> DEFINE p == Place(j, 10)
  <2>1. 10 \in 1 .. 10 /\ j \in Nat
    BY <1>1
  <2>2. p \in Int
    BY <1>1, <2>1, PlaceIsNumber
  <2>3. Place(j, 10)' = p - d
    BY <1>3, <2>1
  <2> HIDE DEF p
  <2>4. p - d \in Int /\ p - d <= p
    BY <2>2
  <2> QED
    BY <2>2, <2>3, <2>4 DEF p
<1>5. TakenInOrder'
  <2>1. Len(served') \in Nat /\ Len(served) <= Len(served')
    BY <1>1
  <2> QED
    BY <1>1, <1>2, <1>4, <2>1, TakenStays
<1>6. accepted' \in Seq(Accepted')
  <2>1. Accepted \subseteq Accepted'
    BY <1>1 DEF Accepted
  <2> QED
    BY <1>2, <2>1
<1> QED
  BY <1>3, <1>5, <1>6

(* The way stays as it is. *)
LEMMA SameAnswers ==
  ASSUME IInv, AInv, served' = served, accepted' = accepted, commands' = commands,
         Way' = Way, Len(got') < 10,
         Len(got') >= 6 => \E j \in 1 .. Len(served) : Place(j, 1) = 1
  PROVE  AInv'
<1>1. /\ Way \in Seq(BYTE) /\ served \in Seq(Int) /\ commands \in Nat
      /\ Len(served) \in Nat
  BY WayTypes
<1>2. /\ Len(Way') = Len(Way) - 0 /\ 0 \in Nat /\ commands <= commands'
      /\ \A k \in 1 .. Len(Way') : Way'[k] = Way[k + 0]
  BY <1>1
<1>3. /\ EndOfAnswers' /\ TakenInOrder' /\ accepted' \in Seq(Accepted')
      /\ \A j \in 1 .. Len(served), o \in 1 .. 10 : Place(j, o)' = Place(j, o) - 0
  BY <1>1, <1>2, NothingTaken
<1>4. BegunAtFirst'
  <2>1. ASSUME NEW j \in 1 .. Len(served), Place(j, 1) = 1 PROVE Place(j, 1)' = 1
    <3>1. 1 \in 1 .. 10
      OBVIOUS
    <3>2. Place(j, 1)' = Place(j, 1) - 0
      BY <1>3, <3>1
    <3> QED
      BY <2>1, <3>2
  <2> QED
    BY <2>1 DEF BegunAtFirst
<1> QED
  BY <1>3, <1>4 DEF AInv

(* A program that begins. *)
LEMMA BeginAnswers ==
  ASSUME IInv, AInv, NEW client \in CLIENT, Begin(client),
         CardReset \/ (doing = "done" /\ UNCHANGED cardVars)
  PROVE  AInv'
<1>1. /\ commands' = commands + 1 /\ got' = << >> /\ out_queue' = out_queue
      /\ served' = served /\ accepted' = accepted
  BY DEF Begin, queueVars, historyVars
<1>2. /\ got \in Seq(BYTE) /\ down \in Seq(BYTE) /\ out_queue \in Seq(BYTE)
      /\ commands \in Nat /\ commands' \in Nat /\ commands <= commands'
  BY <1>1, WayTypes
<1>3. PICK d \in Nat : /\ Way' \in Seq(BYTE) /\ Len(Way') = Len(Way) - d
                       /\ \A k \in 1 .. Len(Way') : Way'[k] = Way[k + d]
  <2>1. CASE CardReset
    <3>1. Way' = << >> \o << >> \o out_queue
      BY <1>1, <2>1 DEF Way, CardReset
    <3> DEFINE d == Len(got) + Len(down)
               v == << >> \o << >> \o out_queue
    <3>2. d \in Nat
      BY <1>2
    <3>3. /\ v \in Seq(BYTE) /\ Len(v) = Len(Way) - d
          /\ \A k \in 1 .. Len(v) : v[k] = Way[k + d]
      BY <1>2, LeftOut DEF Way
    <3>4. Way' = v
      BY <3>1
    <3> HIDE DEF v, d
    <3> QED
      BY <3>2, <3>3, <3>4
  <2>2. CASE doing = "done" /\ UNCHANGED cardVars
    <3>1. got = << >>
      BY <2>2 DEF IInv
    <3>2. Way' = << >> \o down \o out_queue
      BY <1>1, <2>2 DEF Way, cardVars
    <3>3. Way' = Way
      BY <3>1, <3>2 DEF Way
    <3>4. /\ Way \in Seq(BYTE) /\ 0 \in Nat /\ Len(Way) = Len(Way) - 0
          /\ \A k \in 1 .. Len(Way) : Way[k] = Way[k + 0]
      BY WayTypes
    <3> QED
      BY <3>3, <3>4
  <2> QED
    BY <2>1, <2>2
<1>4. EndOfAnswers' /\ TakenInOrder' /\ accepted' \in Seq(Accepted')
  BY <1>1, <1>2, <1>3, NothingTaken
<1>5. BegunAtFirst'
  BY <1>1 DEF BegunAtFirst
<1> QED
  BY <1>4, <1>5 DEF AInv

(* What a program makes of a byte: it goes on with the answer, or gives up, *)
(* or has taken the whole of one.                                           *)
LEMMA ReceiveIs ==
  ASSUME IInv, AInv, ReceiveByte
  PROVE  LET bytes == Append(got, Head(down)) IN
         /\ served' = served /\ commands' = commands /\ out_queue' = out_queue
         /\ down # << >> /\ down' = Tail(down) /\ bytes \in Seq(BYTE)
         /\ \/ /\ accepted' = accepted /\ got' = bytes /\ Len(bytes) < 10
               /\ Len(bytes) >= 6 => \E j \in 1 .. Len(served) : Place(j, 1) = 1
            \/ accepted' = accepted /\ got' = << >>
            \/ /\ got' = << >> /\ Len(bytes) = 10
               /\ \E j \in 1 .. Len(served) :
                    /\ Place(j, 1) = 1
                    /\ accepted' = Append(accepted, [by |-> commands, answer |-> served[j]])
<1> DEFINE bytes == Append(got, Head(down))
           n == Len(bytes)
<1>1. /\ served' = served /\ commands' = commands /\ out_queue' = out_queue
      /\ down # << >> /\ down' = Tail(down) /\ Output(down) = Head(down)
  BY DEF ReceiveByte, queueVars, OutputReady, ShiftedOut, Output
<1>2. /\ got \in Seq(BYTE) /\ down \in Seq(BYTE) /\ out_queue \in Seq(BYTE)
      /\ Way \in Seq(BYTE) /\ served \in Seq(Int) /\ Len(served) \in Nat
  BY WayTypes
<1>3. /\ bytes \in Seq(BYTE) /\ n = Len(got) + 1 /\ n \in Nat /\ Len(got) < 10
      /\ Tail(down) \in Seq(BYTE)
  BY <1>1, <1>2 DEF AInv, BegunAtFirst
<1>4. /\ \A k \in 1 .. n : Way[k] = bytes[k]
      /\ Len(Way) >= n
  <2>1. Way = bytes \o Tail(down) \o out_queue
    BY <1>1, <1>2, HandedOn DEF Way
  <2> HIDE DEF bytes
  <2> DEFINE b == Tail(down)
  <2>2. b \in Seq(BYTE) /\ Way = bytes \o b \o out_queue
    BY <1>3, <2>1
  <2> HIDE DEF b
  <2> DEFINE v == bytes \o b \o out_queue
             l == Len(bytes)
  <2>3. bytes \in Seq(BYTE) /\ b \in Seq(BYTE) /\ out_queue \in Seq(BYTE)
    BY <1>2, <1>3, <2>2
  <2>4. /\ Len(v) = l + Len(b) + Len(out_queue) /\ Len(b) \in Nat
        /\ Len(out_queue) \in Nat
        /\ \A i \in 1 .. l + Len(b) + Len(out_queue) :
             v[i] = IF i <= l THEN bytes[i]
                    ELSE IF i <= l + Len(b) THEN b[i - l]
                    ELSE out_queue[i - (l + Len(b))]
    BY <2>3, ThreeParts
  <2>5. Way = v /\ l = n
    BY <2>2
  <2> HIDE DEF v, l, n
  <2>6. /\ Len(Way) = n + Len(b) + Len(out_queue) /\ Len(b) \in Nat
        /\ Len(out_queue) \in Nat
        /\ \A i \in 1 .. n + Len(b) + Len(out_queue) :
             Way[i] = IF i <= n THEN bytes[i]
                      ELSE IF i <= n + Len(b) THEN b[i - n]
                      ELSE out_queue[i - (n + Len(b))]
    BY <2>4, <2>5
  <2>7. ASSUME NEW k \in 1 .. n PROVE Way[k] = bytes[k]
    <3>1. k \in 1 .. n + Len(b) + Len(out_queue) /\ k <= n
      BY <1>3, <2>6
    <3> QED
      BY <2>6, <3>1
  <2> QED
    BY <1>3, <2>6, <2>7
<1>5. \/ n = 6 /\ ~HeaderIsGood(bytes) /\ got' = << >> /\ accepted' = accepted
      \/ /\ n > 6 /\ n = AnswerLength(bytes) /\ got' = << >>
         /\ accepted' = Append(accepted, [by |-> commands, answer |-> Number(bytes[7])])
      \/ /\ ~(n = 6 /\ ~HeaderIsGood(bytes)) /\ ~(n > 6 /\ n = AnswerLength(bytes))
         /\ got' = bytes /\ accepted' = accepted
  BY <1>1 DEF ReceiveByte
<1> HIDE DEF bytes, n
<1>6. EndOfAnswers
  BY DEF AInv
<1>7. ASSUME n > 6
      PROVE  \E j \in 1 .. Len(served) :
               Place(j, 1) = 1 /\ AnswerLength(bytes) = 10
                 /\ (n >= 7 => Number(bytes[7]) = served[j])
  <2>1. PICK j \in 1 .. Len(served) : Place(j, 1) = 1
    BY <1>3, <1>7 DEF AInv, BegunAtFirst
  <2>2. \A o \in 1 .. 10 : Place(j, o) = o
    <3> SUFFICES ASSUME NEW o \in 1 .. 10 PROVE Place(j, o) = o
      OBVIOUS
    <3> DEFINE w == Len(Way)
               m == Len(served)
    <3>1. Place(j, 1) = w - 10 * (m - j) - 10 + 1 /\ Place(j, o) = w - 10 * (m - j) - 10 + o
      BY DEF Place
    <3>2. w \in Nat /\ m \in Nat /\ j \in 1 .. m
      BY <1>2
    <3> HIDE DEF w, m
    <3> QED
      BY <2>1, <3>1, <3>2
  <2>3. \A k \in 1 .. n : k <= 10 => IsPart(bytes[k], j, k)
    <3> SUFFICES ASSUME NEW k \in 1 .. n, k <= 10 PROVE IsPart(bytes[k], j, k)
      OBVIOUS
    <3>1. k \in 1 .. 10 /\ Place(j, k) = k /\ k >= 1
      <4>1. k \in 1 .. 10 /\ k >= 1
        BY <1>3
      <4> QED
        BY <2>2, <4>1
    <3>2. IsPart(Way[Place(j, k)], j, k)
      BY <1>6, <3>1 DEF EndOfAnswers
    <3>3. IsPart(Way[k], j, k)
      BY <3>1, <3>2
    <3> QED
      BY <1>4, <3>3
  <2>4. IsPart(bytes[4], j, 4) /\ IsPart(bytes[5], j, 5) /\ IsPart(bytes[7], j, 7)
    <3>1. 4 \in 1 .. n /\ 5 \in 1 .. n /\ 7 \in 1 .. n
      BY <1>3, <1>7
    <3> QED
      BY <2>3, <3>1
  <2>5. bytes[4] = 4 /\ bytes[5] = 0 /\ Number(bytes[7]) = served[j]
    BY <2>4 DEF IsPart
  <2>6. AnswerLength(bytes) = 10
    BY <2>5 DEF AnswerLength
  <2> QED
    BY <2>1, <2>5, <2>6
<1>8. CASE /\ n > 6 /\ n = AnswerLength(bytes) /\ got' = << >>
           /\ accepted' = Append(accepted, [by |-> commands, answer |-> Number(bytes[7])])
  <2>1. PICK j \in 1 .. Len(served) : Place(j, 1) = 1 /\ AnswerLength(bytes) = 10
                                        /\ (n >= 7 => Number(bytes[7]) = served[j])
    BY <1>7, <1>8
  <2>2. n = 10 /\ Number(bytes[7]) = served[j]
    BY <1>3, <1>8, <2>1
  <2>3. accepted' = Append(accepted, [by |-> commands, answer |-> served[j]])
    BY <1>8, <2>2
  <2> QED
    BY <1>1, <1>3, <1>8, <2>1, <2>2, <2>3 DEF n, bytes
<1>9. CASE /\ ~(n = 6 /\ ~HeaderIsGood(bytes)) /\ ~(n > 6 /\ n = AnswerLength(bytes))
           /\ got' = bytes /\ accepted' = accepted
  <2>1. n < 10
    BY <1>3, <1>7, <1>9
  <2>2. ASSUME n = 6 PROVE \E j \in 1 .. Len(served) : Place(j, 1) = 1
    <3>1. SubSeq(bytes, 1, 3) = <<Plus, Plus, Plus>>
      BY <1>9, <2>2 DEF HeaderIsGood
    <3>2. bytes[1] = Plus /\ bytes[2] = Plus /\ bytes[3] = Plus
      <4> DEFINE s == SubSeq(bytes, 1, 3)
      <4>1. Len(bytes) = 6
        BY <2>2 DEF n
      <4>2. s[1] = bytes[1] /\ s[2] = bytes[2] /\ s[3] = bytes[3]
        BY <1>3, <4>1
      <4>3. s = <<Plus, Plus, Plus>>
        BY <3>1
      <4> HIDE DEF s
      <4>4. s[1] = Plus /\ s[2] = Plus /\ s[3] = Plus
        BY <4>3
      <4> QED
        BY <4>2, <4>4
    <3>3. Way[1] = Plus /\ Way[2] = Plus /\ Way[3] = Plus /\ Len(Way) >= 3
      <4>1. 1 \in 1 .. n /\ 2 \in 1 .. n /\ 3 \in 1 .. n
        BY <2>2
      <4>2. Len(Way) \in Nat
        BY <1>2
      <4> QED
        BY <1>4, <2>2, <3>2, <4>1, <4>2
    <3> QED
      BY <1>2, <1>6, <3>3, OnlyAtFirst
  <2>3. n >= 6 => \E j \in 1 .. Len(served) : Place(j, 1) = 1
    BY <1>3, <1>7, <2>2
  <2> QED
    BY <1>1, <1>3, <1>9, <2>1, <2>3 DEF n, bytes
<1>10. CASE n = 6 /\ ~HeaderIsGood(bytes) /\ got' = << >> /\ accepted' = accepted
  BY <1>1, <1>3, <1>10 DEF bytes
<1> QED
  BY <1>5, <1>8, <1>9, <1>10

(* A byte taken by a program, when that does not end an answer. *)
LEMMA GoesOnOrGivesUp ==
  ASSUME IInv, AInv, ReceiveByte, accepted' = accepted
  PROVE  AInv'
<1> DEFINE bytes == Append(got, Head(down))
           b == Tail(down)
<1>1. /\ served' = served /\ commands' = commands /\ out_queue' = out_queue
      /\ down # << >> /\ down' = b /\ bytes \in Seq(BYTE) /\ Len(bytes) \in Nat
      /\ \/ /\ got' = bytes /\ Len(bytes) < 10
            /\ Len(bytes) >= 6 => \E j \in 1 .. Len(served) : Place(j, 1) = 1
         \/ got' = << >>
  BY ReceiveIs
<1>2. /\ got \in Seq(BYTE) /\ down \in Seq(BYTE) /\ out_queue \in Seq(BYTE)
      /\ b \in Seq(BYTE) /\ commands \in Nat
  BY <1>1, WayTypes
<1>3. Way = bytes \o b \o out_queue
  BY <1>1, <1>2, HandedOn DEF Way
<1> HIDE DEF bytes, b
<1>4. CASE /\ got' = bytes /\ Len(bytes) < 10
           /\ Len(bytes) >= 6 => \E j \in 1 .. Len(served) : Place(j, 1) = 1
  <2>1. Way' = bytes \o b \o out_queue
    BY <1>1, <1>4 DEF Way
  <2>2. Way' = Way
    BY <1>3, <2>1
  <2> QED
    BY <1>1, <1>4, <2>2, SameAnswers
<1>5. CASE got' = << >>
  <2> DEFINE v == << >> \o b \o out_queue
             d == Len(bytes)
  <2>1. /\ v \in Seq(BYTE) /\ Len(v) = Len(Way) - d /\ d \in Nat
        /\ \A k \in 1 .. Len(v) : v[k] = Way[k + d]
    BY <1>1, <1>2, <1>3, LeftOut
  <2>2. Way' = v
    BY <1>1, <1>5 DEF Way
  <2> HIDE DEF v, d
  <2>3. EndOfAnswers' /\ TakenInOrder' /\ accepted' \in Seq(Accepted')
    <3>1. commands' \in Nat /\ commands <= commands'
      BY <1>1, <1>2
    <3> QED
      BY <1>1, <2>1, <2>2, <3>1, NothingTaken
  <2>4. BegunAtFirst'
    BY <1>5 DEF BegunAtFirst
  <2> QED
    BY <2>3, <2>4 DEF AInv
<1> QED
  BY <1>1, <1>4, <1>5

(* The places of one answer and of an earlier one. *)
LEMMA PlacesOfOne ==
  ASSUME IInv, NEW j \in 1 .. Len(served), Place(j, 1) = 1
  PROVE  /\ Place(j, 10) = 10
         /\ \A i \in 1 .. Len(served) : Place(i, 10) <= 0 => i < j
<1> DEFINE w == Len(Way)
           m == Len(served)
<1>1. w \in Nat /\ m \in Nat /\ j \in 1 .. m
  BY WayTypes
<1>2. /\ Place(j, 1) = w - 10 * (m - j) - 10 + 1
      /\ Place(j, 10) = w - 10 * (m - j) - 10 + 10
      /\ \A i \in 1 .. m : Place(i, 10) = w - 10 * (m - i) - 10 + 10
  BY DEF Place
<1> HIDE DEF w, m
<1>3. Place(j, 10) = 10
  BY <1>1, <1>2
<1>4. ASSUME NEW i \in 1 .. m, Place(i, 10) <= 0 PROVE i < j
  <2>1. w - 10 * (m - i) - 10 + 10 <= 0
    BY <1>2, <1>4
  <2>2. w - 10 * (m - j) - 10 + 1 = 1
    BY <1>2
  <2> QED
    BY <1>1, <2>1, <2>2
<1> QED
  BY <1>3, <1>4 DEF m

(* A byte taken by a program that ends an answer. *)
LEMMA TakesAnswer ==
  ASSUME IInv, AInv, ReceiveByte, got' = << >>, Len(Append(got, Head(down))) = 10,
         NEW j \in 1 .. Len(served), Place(j, 1) = 1,
         accepted' = Append(accepted, [by |-> commands, answer |-> served[j]])
  PROVE  AInv'
<1> DEFINE bytes == Append(got, Head(down))
           b == Tail(down)
<1>1. /\ served' = served /\ commands' = commands /\ out_queue' = out_queue
      /\ down # << >> /\ down' = b /\ bytes \in Seq(BYTE) /\ Len(bytes) = 10
  BY ReceiveIs
<1>2. /\ got \in Seq(BYTE) /\ down \in Seq(BYTE) /\ out_queue \in Seq(BYTE)
      /\ b \in Seq(BYTE) /\ commands \in Nat /\ served \in Seq(Int)
      /\ Way \in Seq(BYTE) /\ Len(served) \in Nat
  BY <1>1, WayTypes
<1>3. Way = bytes \o b \o out_queue
  <2>1. got \in Seq(BYTE) /\ down \in Seq(BYTE) /\ out_queue \in Seq(BYTE) /\ down # << >>
    BY <1>1, <1>2
  <2>2. bytes \o b \o out_queue = got \o down \o out_queue
    BY <2>1, HandedOn
  <2> QED
    BY <2>2 DEF Way
<1> HIDE DEF bytes, b
<1>4. /\ Way' \in Seq(BYTE) /\ Len(Way') = Len(Way) - 10
      /\ \A k \in 1 .. Len(Way') : Way'[k] = Way[k + 10]
  <2> DEFINE v == << >> \o b \o out_queue
             d == Len(bytes)
  <2>1. /\ v \in Seq(BYTE) /\ Len(v) = Len(Way) - d
        /\ \A k \in 1 .. Len(v) : v[k] = Way[k + d]
    <3>1. bytes \in Seq(BYTE) /\ b \in Seq(BYTE) /\ out_queue \in Seq(BYTE)
      BY <1>1, <1>2
    <3> QED
      BY <1>3, <3>1, LeftOut
  <2>2. Way' = v /\ d = 10
    BY <1>1 DEF Way
  <2> HIDE DEF v, d
  <2> QED
    BY <2>1, <2>2
<1>5. /\ EndOfAnswers'
      /\ \A i \in 1 .. Len(served), o \in 1 .. 10 : Place(i, o)' = Place(i, o) - 10
  <2>1. 10 \in Nat /\ EndOfAnswers
    BY DEF AInv
  <2> QED
    BY <1>1, <1>2, <1>4, <2>1, WayShortens
<1>6. BegunAtFirst'
  BY DEF BegunAtFirst
<1> DEFINE a == [by |-> commands, answer |-> served[j]]
           n == Len(accepted)
<1>7. /\ accepted \in Seq(Accepted) /\ n \in Nat /\ a.answer = served[j]
      /\ a \in Accepted /\ Accepted' = Accepted
  <2>1. served[j] \in Int /\ commands \in 0 .. commands
    BY <1>2
  <2> QED
    BY <1>1, <2>1 DEF AInv, Accepted
<1>8. accepted' = Append(accepted, a)
  OBVIOUS
<1> HIDE DEF a
<1>9. /\ accepted' \in Seq(Accepted') /\ Len(accepted') = n + 1
      /\ accepted'[n + 1] = a /\ \A i \in 1 .. n : accepted'[i] = accepted[i]
  BY <1>7, <1>8
<1>10. TakenInOrder'
  <2>1. PICK at \in [1 .. Len(accepted) -> 1 .. Len(served)] :
          \A i \in 1 .. Len(accepted) :
            /\ accepted[i].answer = served[at[i]]
            /\ \A k \in 1 .. i - 1 : at[k] < at[i]
            /\ Place(at[i], 10) <= 0
    BY DEF AInv, TakenInOrder
  <2>2. PICK to \in [1 .. n + 1 -> 1 .. Len(served)] :
          /\ to[n + 1] = j
          /\ \A i \in 1 .. n : to[i] = at[i] /\ at[i] \in 1 .. Len(served)
    <3> DEFINE f == [i \in 1 .. n + 1 |-> IF i = n + 1 THEN j ELSE at[i]]
    <3>1. \A i \in 1 .. n + 1 : i # n + 1 => i \in 1 .. n
      BY <1>7
    <3>2. n + 1 \in 1 .. n + 1 /\ \A i \in 1 .. n : i # n + 1 /\ i \in 1 .. n + 1
      BY <1>7
    <3>3. /\ f \in [1 .. n + 1 -> 1 .. Len(served)] /\ f[n + 1] = j
          /\ \A i \in 1 .. n : f[i] = at[i] /\ at[i] \in 1 .. Len(served)
      BY <3>1, <3>2
    <3> HIDE DEF f
    <3> QED
      BY <3>3
  <2>3. \A i \in 1 .. n : at[i] < j
    BY <2>1, <2>2, PlacesOfOne
  <2>4. \A i \in 1 .. Len(served) : Place(i, 10)' = Place(i, 10) - 10
    <3>1. 10 \in 1 .. 10
      OBVIOUS
    <3> QED
      BY <1>5, <3>1
  <2>5. ASSUME NEW i \in 1 .. n
        PROVE  /\ accepted'[i].answer = served'[to[i]]
               /\ \A k \in 1 .. i - 1 : to[k] < to[i]
               /\ Place(to[i], 10)' <= 0
    <3>1. accepted'[i].answer = served'[to[i]]
      BY <1>1, <1>9, <2>1, <2>2
    <3>2. ASSUME NEW k \in 1 .. i - 1 PROVE to[k] < to[i]
      <4>1. k \in 1 .. n
        BY <1>7
      <4> QED
        BY <2>1, <2>2, <4>1
    <3>3. Place(to[i], 10)' <= 0
      <4> DEFINE p == Place(at[i], 10)
      <4>1. p <= 0
        BY <2>1
      <4>2. p \in Int
        <5>1. at[i] \in Nat /\ 10 \in 1 .. 10
          BY <2>2
        <5> QED
          BY <1>2, <5>1, PlaceIsNumber
      <4>3. Place(to[i], 10)' = p - 10
        BY <2>2, <2>4
      <4> HIDE DEF p
      <4>4. p - 10 <= 0
        BY <4>1, <4>2
      <4> QED
        BY <4>3, <4>4
    <3> QED
      BY <3>1, <3>2, <3>3
  <2>6. ASSUME NEW i, i = n + 1
        PROVE  /\ accepted'[i].answer = served'[to[i]]
               /\ \A k \in 1 .. i - 1 : to[k] < to[i]
               /\ Place(to[i], 10)' <= 0
    <3>1. to[i] = j /\ accepted'[i] = a
      BY <1>9, <2>2, <2>6
    <3>2. accepted'[i].answer = served'[to[i]]
      BY <1>1, <1>7, <3>1
    <3>3. ASSUME NEW k \in 1 .. i - 1 PROVE to[k] < to[i]
      <4>1. k \in 1 .. n
        BY <1>7, <2>6
      <4> QED
        BY <2>2, <2>3, <3>1, <4>1
    <3>4. Place(j, 10)' = 0
      <4>1. Place(j, 10) = 10
        BY PlacesOfOne
      <4> QED
        BY <2>4, <4>1
    <3>5. Place(to[i], 10)' <= 0
      BY <3>1, <3>4
    <3> QED
      BY <3>2, <3>3, <3>5
  <2>7. \A i \in 1 .. n + 1 : i \in 1 .. n \/ i = n + 1
    BY <1>7
  <2>8. to \in [1 .. Len(accepted') -> 1 .. Len(served')]
    BY <1>1, <1>9, <2>2
  <2>9. \A i \in 1 .. Len(accepted') :
          /\ accepted'[i].answer = served'[to[i]]
          /\ \A k \in 1 .. i - 1 : to[k] < to[i]
          /\ Place(to[i], 10)' <= 0
    <3> SUFFICES ASSUME NEW i \in 1 .. Len(accepted')
                 PROVE  /\ accepted'[i].answer = served'[to[i]]
                        /\ \A k \in 1 .. i - 1 : to[k] < to[i]
                        /\ Place(to[i], 10)' <= 0
      OBVIOUS
    <3>1. i \in 1 .. n \/ i = n + 1
      BY <1>9, <2>7
    <3> QED
      BY <2>5, <2>6, <3>1
  <2> QED
    BY <2>8, <2>9 DEF TakenInOrder
<1> QED
  BY <1>5, <1>6, <1>9, <1>10 DEF AInv

(* A byte taken by a program. *)
LEMMA ReceiveAnswers == IInv /\ AInv /\ ReceiveByte => AInv'
<1> SUFFICES ASSUME IInv, AInv, ReceiveByte PROVE AInv'
  OBVIOUS
<1>1. CASE accepted' = accepted
  BY <1>1, GoesOnOrGivesUp
<1>2. ASSUME got' = << >>, Len(Append(got, Head(down))) = 10,
             NEW j \in 1 .. Len(served), Place(j, 1) = 1,
             accepted' = Append(accepted, [by |-> commands, answer |-> served[j]])
      PROVE  AInv'
  BY <1>2, TakesAnswer
<1> QED
  BY <1>1, <1>2, ReceiveIs

(* A look at in_queue, with an answer or without one. *)
LEMMA CheckAnswers == IInv /\ AInv /\ CheckPacket => AInv'
<1> SUFFICES ASSUME IInv, AInv, CheckPacket PROVE AInv'
  OBVIOUS
<1>1. /\ \/ served' = served /\ out_queue' = out_queue
         \/ \E letter \in BYTE : /\ served' = Append(served, Number(letter))
                                 /\ out_queue' = out_queue \o PacketOf(Text, <<letter>>)
      /\ down' = down /\ accepted' = accepted /\ commands' = commands /\ got' = got
  BY CheckIs
<1>2. /\ got \in Seq(BYTE) /\ down \in Seq(BYTE) /\ out_queue \in Seq(BYTE)
      /\ Way \in Seq(BYTE) /\ served \in Seq(Int) /\ Len(served) \in Nat
      /\ commands \in Nat
  BY WayTypes
<1>3. /\ EndOfAnswers /\ TakenInOrder /\ accepted \in Seq(Accepted)
      /\ Len(got) < 10 /\ (Len(got) >= 6 => \E j \in 1 .. Len(served) : Place(j, 1) = 1)
  BY DEF AInv, BegunAtFirst
<1>4. CASE served' = served /\ out_queue' = out_queue
  <2>1. Way' = Way
    BY <1>1, <1>4 DEF Way
  <2> QED
    BY <1>1, <1>3, <1>4, <2>1, SameAnswers
<1>5. ASSUME NEW letter \in BYTE, served' = Append(served, Number(letter)),
             out_queue' = out_queue \o PacketOf(Text, <<letter>>)
      PROVE  AInv'
  <2> DEFINE a == PacketOf(Text, <<letter>>)
             x == Number(letter)
             m == Len(served)
  <2>1. /\ a \in Seq(BYTE) /\ Len(a) = 10
        /\ a[1] = Plus /\ a[2] = Plus /\ a[3] = Plus /\ a[4] = 4 /\ a[5] = 0
        /\ a[6] = Text /\ a[7] = letter
        /\ a[8] = Minus /\ a[9] = Minus /\ a[10] = Minus
    BY AnswerIs
  <2>2. x \in Int
    BY Numbers DEF Number
  <2>3. Way' = got \o down \o (out_queue \o a)
    BY <1>1, <1>5 DEF Way
  <2>4. served' = Append(served, x)
    BY <1>5
  <2> HIDE DEF a, x
  <2>5. /\ Len(served') = m + 1 /\ served'[m + 1] = x
        /\ \A j \in 1 .. m : served'[j] = served[j]
    BY <1>2, <2>2, <2>4
  <2>6. /\ Way' \in Seq(BYTE) /\ Len(Way') = Len(Way) + Len(a)
        /\ \A k \in 1 .. Len(Way) : Way'[k] = Way[k]
        /\ \A k \in 1 .. Len(a) : Way'[Len(Way) + k] = a[k]
    <3>1. /\ got \in Seq(BYTE) /\ down \in Seq(BYTE) /\ out_queue \in Seq(BYTE)
          /\ a \in Seq(BYTE) /\ Way = got \o down \o out_queue
      BY <1>2, <2>1 DEF Way
    <3> DEFINE t == got \o down
    <3>2. t \in Seq(BYTE) /\ Way = t \o out_queue /\ Way' = t \o (out_queue \o a)
      BY <2>3, <3>1, ConcatProperties
    <3> HIDE DEF t
    <3>3. ASSUME NEW w, w = t \o out_queue, NEW v, v = t \o (out_queue \o a)
          PROVE  /\ v \in Seq(BYTE) /\ Len(v) = Len(w) + Len(a)
                 /\ \A k \in 1 .. Len(w) : v[k] = w[k]
                 /\ \A k \in 1 .. Len(a) : v[Len(w) + k] = a[k]
      <4>1. out_queue \in Seq(BYTE) /\ a \in Seq(BYTE) /\ t \in Seq(BYTE)
        BY <3>1, <3>2
      <4> QED
        BY <3>3, <4>1, PutAtEnd
    <3> QED
      BY <3>2, <3>3
  <2>7. /\ \A k \in 1 .. 3 : Way'[Len(Way) + k] = Plus
        /\ Way'[Len(Way) + 4] = 4 /\ Way'[Len(Way) + 5] = 0 /\ Way'[Len(Way) + 6] = Text
        /\ Way'[Len(Way) + 7] = letter
        /\ \A k \in 8 .. 10 : Way'[Len(Way) + k] = Minus
    <3>1. \A k \in 1 .. 10 : Way'[Len(Way) + k] = a[k]
      BY <2>1, <2>6
    <3> DEFINE v == Way'
               n == Len(Way)
    <3> HIDE DEF v, n
    <3>2. \A k \in 1 .. 10 : v[n + k] = a[k]
      BY <3>1 DEF v, n
    <3>3. /\ \A k \in 1 .. 3 : v[n + k] = Plus
          /\ v[n + 4] = 4 /\ v[n + 5] = 0 /\ v[n + 6] = Text /\ v[n + 7] = letter
          /\ \A k \in 8 .. 10 : v[n + k] = Minus
      BY <2>1, <3>2
    <3> QED
      BY <3>3 DEF v, n
  <2>8. /\ EndOfAnswers'
        /\ \A j \in 1 .. Len(served), o \in 1 .. 10 : Place(j, o)' = Place(j, o)
    <3>1. /\ Len(Way') = Len(Way) + 10 /\ x = Number(letter) /\ Number(letter) \in Int
          /\ Len(served') = Len(served) + 1
          /\ served'[Len(served) + 1] = Number(letter)
          /\ \A j \in 1 .. Len(served) : served'[j] = served[j]
      BY <2>1, <2>2, <2>5, <2>6 DEF x
    <3> QED
      BY <1>2, <1>3, <2>6, <2>7, <3>1, WayGrows
  <2>9. ASSUME NEW j \in 1 .. Len(served)
        PROVE  /\ served'[j] = served[j] /\ Place(j, 10) \in Int /\ Place(j, 10)' \in Int
               /\ Place(j, 10)' <= Place(j, 10)
    <3> DEFINE p == Place(j, 10)
    <3>1. 10 \in 1 .. 10 /\ j \in Nat
      BY <1>2
    <3>2. p \in Int
      BY <1>2, <3>1, PlaceIsNumber
    <3>3. Place(j, 10)' = p
      BY <2>8, <3>1
    <3> HIDE DEF p
    <3>4. p <= p
      BY <3>2
    <3> QED
      BY <2>5, <3>2, <3>3, <3>4 DEF p
  <2>10. TakenInOrder'
    <3>1. Len(served') \in Nat /\ Len(served) <= Len(served')
      BY <1>2, <2>5
    <3> QED
      BY <1>1, <1>2, <1>3, <2>9, <3>1, TakenStays
  <2>11. BegunAtFirst'
    <3>1. ASSUME NEW j \in 1 .. Len(served), Place(j, 1) = 1
          PROVE  j \in 1 .. Len(served') /\ Place(j, 1)' = 1
      <4>1. 1 \in 1 .. 10
        OBVIOUS
      <4>2. Place(j, 1)' = 1
        BY <2>8, <3>1, <4>1
      <4> QED
        BY <1>2, <2>5, <4>2
    <3> QED
      BY <1>1, <1>3, <3>1 DEF BegunAtFirst
  <2>12. accepted' \in Seq(Accepted')
    BY <1>1, <1>3 DEF Accepted
  <2> QED
    BY <2>8, <2>10, <2>11, <2>12 DEF AInv
<1> QED
  BY <1>1, <1>4, <1>5

(* At first there are no answers. *)
LEMMA InitAnswers == Init => AInv
<1> SUFFICES ASSUME Init PROVE AInv
  OBVIOUS
<1>1. served = << >> /\ accepted = << >> /\ got = << >> /\ down = << >> /\ out_queue = << >>
  BY DEF Init
<1>2. Len(Way) = 0
  BY <1>1 DEF Way
<1>3. EndOfAnswers
  BY <1>1, <1>2 DEF EndOfAnswers
<1>4. BegunAtFirst
  BY <1>1 DEF BegunAtFirst
<1>5. TakenInOrder
  <2>1. [i \in 1 .. 0 |-> 0] \in [1 .. Len(accepted) -> 1 .. Len(served)]
    BY <1>1
  <2>2. \A i \in 1 .. Len(accepted) : FALSE
    BY <1>1
  <2> QED
    BY <2>1, <2>2 DEF TakenInOrder
<1>6. accepted \in Seq(Accepted)
  BY <1>1
<1> QED
  BY <1>3, <1>4, <1>5, <1>6 DEF AInv

(* Every step keeps the answers. *)
LEMMA StepAnswers == IInv /\ AInv /\ [Next]_vars => AInv'
<1> SUFFICES ASSUME IInv, AInv, [Next]_vars PROVE AInv'
  OBVIOUS
<1>1. ASSUME NEW client \in CLIENT, Start(client) PROVE AInv'
  BY <1>1, BeginAnswers DEF Start
<1>2. ASSUME NEW client \in CLIENT, Again(client) PROVE AInv'
  BY <1>2, BeginAnswers DEF Again
<1>3. ASSUME served' = served, accepted' = accepted, commands' = commands,
             got' = got, Way' = Way
      PROVE  AInv'
  <2>1. Len(got) < 10 /\ (Len(got) >= 6 => \E j \in 1 .. Len(served) : Place(j, 1) = 1)
    BY DEF AInv, BegunAtFirst
  <2> QED
    BY <1>3, <2>1, SameAnswers
<1>4. CASE SendByte
  BY <1>3, <1>4 DEF SendByte, queueVars, historyVars, Way
<1>5. CASE ReadByte
  BY <1>3, <1>5 DEF ReadByte, clientVars, Way
<1>6. CASE WriteByte
  <2>1. /\ out_queue # << >> /\ down' = Append(down, Head(out_queue))
        /\ out_queue' = Tail(out_queue) /\ got' = got
        /\ served' = served /\ accepted' = accepted /\ commands' = commands
    BY <1>6 DEF WriteByte, ShiftedIn, clientVars, historyVars
  <2>2. Way' = Way
    <3>1. got \in Seq(BYTE) /\ down \in Seq(BYTE) /\ out_queue \in Seq(BYTE)
      BY WayTypes
    <3> QED
      BY <2>1, <3>1, HandedOn DEF Way
  <2> QED
    BY <1>3, <2>1, <2>2
<1>7. CASE UNCHANGED vars
  BY <1>3, <1>7 DEF vars, cardVars, queueVars, clientVars, historyVars, Way
<1> QED
  BY <1>1, <1>2, <1>4, <1>5, <1>6, <1>7, ReceiveAnswers, CheckAnswers DEF Next, Client

(* The answers the programs take are answers to commands that were carried  *)
(* out, in their order and none of them twice.                              *)
AcceptedInOrder ==
  \E at \in [1 .. Len(accepted) -> 1 .. Len(served)] :
    \A i \in 1 .. Len(accepted) :
      /\ accepted[i].answer = served[at[i]]
      /\ \A k \in 1 .. i - 1 : at[k] < at[i]

(* Wherever resets cut the answers off, and whatever read_response_from_pi  *)
(* and ReceivePacket find in front of them, what a program takes for an     *)
(* answer is never pieced together from two.                                *)
THEOREM AnswersAreTakenInOrder == Spec => []AcceptedInOrder
<1>1. AInv => AcceptedInOrder
  <2> SUFFICES ASSUME AInv PROVE AcceptedInOrder
    OBVIOUS
  <2>1. TakenInOrder
    BY DEF AInv
  <2> QED
    BY <2>1, Zenon DEF TakenInOrder, AcceptedInOrder
<1> QED
  BY <1>1, InitTypes, InitAnswers, StepTypes, StepAnswers, PTL DEF Spec

(* The answer a program takes is not to a command after its own, if the     *)
(* server carries out commands that were sent.                              *)
LEMMA StepYoung ==
  IInv /\ AInv /\ ServedWasSent /\ NoneTooYoung /\ [Next]_vars => NoneTooYoung'
<1> SUFFICES ASSUME IInv, AInv, ServedWasSent, NoneTooYoung, [Next]_vars
             PROVE  NoneTooYoung'
  OBVIOUS
<1>1. CASE accepted' = accepted
  BY <1>1 DEF NoneTooYoung
<1>2. CASE ReceiveByte /\ accepted' # accepted
  <2>1. PICK j \in 1 .. Len(served) :
          accepted' = Append(accepted, [by |-> commands, answer |-> served[j]])
    BY <1>2, ReceiveIs
  <2>2. served[j] <= commands
    <3>1. /\ whole \in Seq(1 .. commands) /\ served \in Seq(Int) /\ commands \in Nat
      BY WayTypes DEF IInv, TypeOK
    <3>2. served[j] \in Range(served)
      <4>1. j \in DOMAIN served
        BY <3>1
      <4> QED
        BY <4>1 DEF Range
    <3>3. served[j] \in Range(whole)
      BY <3>2 DEF ServedWasSent
    <3>4. PICK i \in DOMAIN whole : served[j] = whole[i]
      BY <3>3 DEF Range
    <3>5. whole[i] \in 1 .. commands
      BY <3>1, <3>4
    <3> QED
      BY <3>1, <3>4, <3>5
  <2> DEFINE a == [by |-> commands, answer |-> served[j]]
             n == Len(accepted)
  <2>3. accepted \in Seq(Accepted) /\ n \in Nat /\ a \in Accepted
    <3>1. served[j] \in Int /\ commands \in 0 .. commands
      BY WayTypes
    <3> QED
      BY <3>1 DEF AInv, Accepted
  <2>4. a.answer <= a.by
    BY <2>2
  <2>5. accepted' = Append(accepted, a)
    BY <2>1
  <2> HIDE DEF a
  <2>6. /\ Len(accepted') = n + 1 /\ accepted'[n + 1] = a
        /\ \A i \in 1 .. n : accepted'[i] = accepted[i]
    BY <2>3, <2>5
  <2>7. \A i \in 1 .. n + 1 : i \in 1 .. n \/ i = n + 1
    BY <2>3
  <2> QED
    BY <2>4, <2>6, <2>7 DEF NoneTooYoung
<1>3. accepted' = accepted \/ ReceiveByte
  BY DEF Next, Client, Start, Again, Begin, SendByte, ReadByte, WriteByte, CheckPacket,
         vars, historyVars
<1> QED
  BY <1>1, <1>2, <1>3

(* What a program takes for an answer is one: to a command that was carried *)
(* out, the same never twice, none older than the last and none to a later  *)
(* command than its own - if what the server carries out is what was sent,  *)
(* in order and once.                                                       *)
THEOREM AnswersAreWhole == Spec /\ []ServedWasSent => []AcceptedIsWhole
<1>1. Init => NoneTooYoung
  <2> SUFFICES ASSUME Init PROVE NoneTooYoung
    OBVIOUS
  <2>1. accepted = << >>
    BY DEF Init
  <2> QED
    BY <2>1 DEF NoneTooYoung
<1>2. IInv /\ AInv /\ NoneTooYoung /\ ServedWasSent => AcceptedIsWhole
  <2> SUFFICES ASSUME IInv, AInv, NoneTooYoung, ServedWasSent PROVE AcceptedIsWhole
    OBVIOUS
  <2> DEFINE answers == [i \in DOMAIN accepted |-> accepted[i].answer]
  <2>1. /\ DOMAIN accepted = 1 .. Len(accepted) /\ DOMAIN served = 1 .. Len(served)
        /\ Len(accepted) \in Nat
    BY WayTypes DEF AInv
  <2>2. PICK at \in [1 .. Len(accepted) -> 1 .. Len(served)] :
          \A i \in 1 .. Len(accepted) :
            /\ accepted[i].answer = served[at[i]]
            /\ \A k \in 1 .. i - 1 : at[k] < at[i]
    BY DEF AInv, TakenInOrder
  <2>3. /\ DOMAIN answers = 1 .. Len(accepted)
        /\ \A i \in 1 .. Len(accepted) : answers[i] = served[at[i]]
    BY <2>1, <2>2
  <2> HIDE DEF answers
  <2>4. ASSUME NEW i \in DOMAIN answers, NEW k \in DOMAIN answers, i < k
        PROVE  answers[i] < answers[k]
    <3>1. i \in 1 .. k - 1 /\ i \in 1 .. Len(accepted) /\ k \in 1 .. Len(accepted)
      BY <2>1, <2>3, <2>4
    <3>2. at[i] < at[k] /\ at[i] \in DOMAIN served /\ at[k] \in DOMAIN served
      BY <2>1, <2>2, <3>1
    <3>3. served[at[i]] < served[at[k]]
      BY <3>2 DEF ServedWasSent, Increasing
    <3> QED
      BY <2>3, <3>1, <3>3
  <2>5. Range(answers) \subseteq Range(served)
    <3> SUFFICES ASSUME NEW i \in DOMAIN answers PROVE answers[i] \in Range(served)
      BY DEF Range
    <3>1. answers[i] = served[at[i]] /\ at[i] \in DOMAIN served
      BY <2>1, <2>2, <2>3
    <3> QED
      BY <3>1 DEF Range
  <2>6. Increasing(answers)
    BY <2>4 DEF Increasing
  <2> QED
    BY <2>1, <2>5, <2>6 DEF AcceptedIsWhole, NoneTooYoung, answers
<1> QED
  BY <1>1, <1>2, InitTypes, InitAnswers, StepTypes, StepAnswers, StepYoung, PTL DEF Spec

=============================================================================
