--------------------------- MODULE Loopback_proofs --------------------------
(***************************************************************************)
(* Proofs about the loopback test, for every depth of the FIFOs, length of *)
(* a test, of a block and of the Pi's ring, and every number of restarts:  *)
(* the types, and with them that the unrolled loops of fifolib.s move what *)
(* they are asked for; that bytes are never overtaken or doubled; that a   *)
(* reset makes the Pi take up at most one byte that nobody sent; and that  *)
(* before a restart nothing is lost.                                       *)
(***************************************************************************)
EXTENDS Loopback, FiniteSetTheorems, SequenceTheorems, TLAPS

(* What the CPC sends. *)
Byte == Nat \ {NotAByte}

(* The CPC: a call under way has bytes left, as many as its place in the    *)
(* unrolled loop stands for, and will not move more than the test wants; a  *)
(* FIFO that was ready is ready still.                                      *)
CallOK ==
  /\ test \in Flush .. Finished /\ i \in 0 .. SZ /\ j \in 0 .. SZ
  /\ restarts \in Nat /\ call \in Calls /\ call.left + call.moved <= MAX_BLOCK
  /\ test # Finished =>
       /\ call.left > 0 /\ call.left % 4 = call.top % 4
       /\ call.at = "data" =>
            IF call.fifo = "out" THEN Len(up) < DEPTH ELSE down # << >>
  /\ rx \in Seq(Nat)
  /\ test \notin Tests => rx = << >>
  /\ test = Flush => call.fifo = "in"
  /\ test \in Tests =>
       IF call.fifo = "out"
         THEN i + call.left + call.moved <= SZ /\ Len(rx) = j
         ELSE j + call.left + call.moved <= SZ /\ Len(rx) = j + call.moved

(* The card and the Pi. *)
PiOK ==
  /\ up \in Seq(Byte) /\ Len(up) <= DEPTH
  /\ down \in Seq(Nat) /\ Len(down) <= DEPTH
  /\ queue \in [Slot -> Nat] /\ rptr \in Slot /\ wptr \in Slot
  /\ pin \in Nat /\ pc \in {"dor", "sample", "pulse", "dir", "write"}
  /\ pc = "write" => wptr # rptr /\ Len(down) < DEPTH

(* The invariant has the types in it. *)
LEMMA InvariantHasTypes == CallOK /\ PiOK => TypeOK
<1> SUFFICES ASSUME CallOK, PiOK PROVE TypeOK
  OBVIOUS
<1>1. SZ \in Nat
  BY LoopbackAssumption
<1>2. Len(rx) <= SZ
  <2>1. CASE test \in Tests
    BY <1>1, <2>1 DEF CallOK, Calls
  <2>2. CASE test \notin Tests
    BY <1>1, <2>2 DEF CallOK
  <2> QED
    BY <2>1, <2>2
<1> QED
  BY <1>2 DEF CallOK, PiOK, TypeOK

-----------------------------------------------------------------------------
(* The CPC's calls. *)

(* The constants, and the tests there are. *)
LEMMA Numbers ==
  /\ SZ \in Nat /\ SZ > 0 /\ QUEUE_SZ \in Nat /\ QUEUE_SZ > 0
  /\ MAX_BLOCK \in Nat /\ MAX_BLOCK > 0 /\ DEPTH \in Nat /\ DEPTH > 0
  /\ Flush = 0 /\ Finished = 4 /\ Tests = {1, 2, 3} /\ Cardinality(Tests) = 3
<1>1. Tests = 1 .. 3
  BY DEF Tests
<1>2. Cardinality(1 .. 3) = IF 1 > 3 THEN 0 ELSE 3 - 1 + 1
  <2>1. 1 \in Int /\ 3 \in Int
    OBVIOUS
  <2> QED
    BY <2>1, FS_Interval, Zenon
<1>3. Cardinality(1 .. 3) = 3
  BY <1>2
<1> QED
  BY <1>1, <1>3, LoopbackAssumption, DepthAssumption DEF Flush, Finished

(* A call of the driver begins with bytes to move, no more than are wanted, *)
(* at the right copy of the loop.                                           *)
LEMMA CallBegins ==
  ASSUME NEW t \in Flush .. 3, NEW fifo \in {"out", "in"}, NEW n \in Nat, n > 0
  PROVE  LET c == CallOf(t, fifo, n) IN
         /\ c \in Calls /\ c.fifo = fifo /\ c.moved = 0 /\ c.at = "status"
         /\ c.left > 0 /\ c.left <= n /\ c.left + c.moved <= MAX_BLOCK
         /\ c.left % 4 = c.top % 4
<1>1. ASSUME NEW m \in Nat, m > 0, m <= n, m <= MAX_BLOCK, NEW w \in BOOLEAN
      PROVE  LET c == Call(fifo, w, m) IN
             /\ c \in Calls /\ c.fifo = fifo /\ c.moved = 0 /\ c.at = "status"
             /\ c.left > 0 /\ c.left <= n /\ c.left + c.moved <= MAX_BLOCK
             /\ c.left % 4 = c.top % 4
  <2>1. EntryPoint(m) \in 1 .. 4 /\ m % 4 = EntryPoint(m) % 4
    BY <1>1 DEF EntryPoint
  <2>2. m \in 0 .. MAX_BLOCK /\ 0 \in 0 .. MAX_BLOCK /\ m + 0 <= MAX_BLOCK
    BY <1>1, Numbers
  <2> QED
    BY <1>1, <2>1, <2>2 DEF Call, Calls
<1>2. 1 \in Nat /\ 1 > 0 /\ 1 <= n /\ 1 <= MAX_BLOCK
  BY Numbers
<1>3. /\ Least(n, MAX_BLOCK) \in Nat /\ Least(n, MAX_BLOCK) > 0
      /\ Least(n, MAX_BLOCK) <= n /\ Least(n, MAX_BLOCK) <= MAX_BLOCK
  BY Numbers DEF Least
<1>4. CASE t \in {Flush, 1}
  <2>1. CallOf(t, fifo, n) = Call(fifo, FALSE, 1)
    <3>1. t = 0 \/ t = 1
      BY <1>4, Numbers
    <3>2. t # 2 /\ t # 3 /\ t \in {0, 1} /\ Flush = 0
      BY <3>1, Numbers
    <3> QED
      BY <3>2 DEF CallOf
  <2> QED
    BY <1>1, <1>2, <2>1
<1>5. CASE t = 2
  <2>1. CallOf(t, fifo, n) = Call(fifo, TRUE, 1)
    BY <1>5, Numbers DEF CallOf
  <2> QED
    BY <1>1, <1>2, <2>1
<1>6. CASE t = 3
  <2>1. CallOf(t, fifo, n) = Call(fifo, FALSE, Least(n, MAX_BLOCK))
    BY <1>6, Numbers DEF CallOf
  <2> QED
    BY <1>1, <1>3, <2>1
<1> QED
  BY <1>4, <1>5, <1>6, Numbers

(* main() goes on in the test with "bytes" received and "sent" sent, or     *)
(* begins the next, when the test has sent and received all.                *)
Goes(bytes, sent) ==
  \/ /\ test' = test /\ rx' = bytes
     /\ test \in Tests => Sent' = sent
  \/ /\ test' = test + 1 /\ rx' = << >>
     /\ test \in Tests => sent = SZ /\ Len(bytes) = SZ
     /\ test' \in Tests => Sent' = 0

(* A test begins, or there is none left. *)
LEMMA TestBegins ==
  ASSUME CallOK, NEW t \in 1 .. Finished, StartTest(t), UNCHANGED restarts
  PROVE  /\ CallOK' /\ test' = t /\ rx' = << >>
         /\ test' \in Tests => Sent' = 0
<1>1. /\ test' = t /\ i' = 0 /\ j' = 0 /\ rx' = << >>
      /\ call' = IF t = Finished THEN call ELSE CallOf(t, "out", SZ)
  BY DEF StartTest
<1>2. CASE t = Finished
  BY <1>1, <1>2, Numbers DEF CallOK
<1>3. CASE t # Finished
  <2> DEFINE c == CallOf(t, "out", SZ)
  <2>1. t \in Flush .. 3 /\ t \in Tests /\ call' = c /\ t # Flush
    BY <1>1, <1>3, Numbers
  <2>2. /\ c \in Calls /\ c.fifo = "out" /\ c.moved = 0 /\ c.at = "status"
        /\ c.left > 0 /\ c.left <= SZ /\ c.left + c.moved <= MAX_BLOCK
        /\ c.left % 4 = c.top % 4
    BY <2>1, CallBegins, Numbers
  <2> HIDE DEF c
  <2>3. c.left \in Nat
    BY <2>2 DEF Calls
  <2>4. 0 + c.left + 0 <= SZ /\ 0 \in 0 .. SZ /\ 0 + 0 = 0
    BY <2>2, <2>3, Numbers
  <2>5. CallOK'
    BY <1>1, <2>1, <2>2, <2>4, Numbers DEF CallOK
  <2>6. Sent' = 0
    BY <1>1, <2>1, <2>2, <2>4 DEF Sent
  <2> QED
    BY <1>1, <2>5, <2>6
<1> QED
  BY <1>2, <1>3

(* A call returns: the program calls again, or goes on to the next test.    *)
LEMMA ReturnGoes ==
  ASSUME CallOK, test # Finished, NEW moved \in Nat, NEW bytes \in Seq(Nat),
         moved <= call.left + call.moved,
         Return(moved, bytes), UNCHANGED restarts,
         test = Flush => bytes = << >>,
         test \in Tests =>
           Len(bytes) = IF call.fifo = "out" THEN j ELSE j + moved
  PROVE  /\ CallOK'
         /\ Goes(bytes, IF call.fifo = "out" THEN i + moved ELSE i)
<1>1. /\ test \in 0 .. 3 /\ call.left \in Nat /\ call.moved \in Nat /\ i \in Nat /\ j \in Nat
      /\ call.fifo \in {"out", "in"} /\ SZ \in Nat /\ restarts \in Nat
  BY Numbers DEF CallOK, Calls
<1>2. CASE test = Flush
  <2>1. test = 0 /\ test + 1 = 1 /\ 1 \in 1 .. Finished /\ test \notin Tests /\ Flush \in Flush .. 3
        /\ test # 4
    BY <1>2, Numbers
  <2>2. CASE moved = 0
    <3>1. StartTest(1)
      BY <1>2, <2>2 DEF Return
    <3>2. CallOK' /\ test' = 1 /\ rx' = << >> /\ (test' \in Tests => Sent' = 0)
      BY <2>1, <3>1, TestBegins
    <3> QED
      BY <2>1, <3>2 DEF Goes
  <2>3. CASE moved # 0
    <3> DEFINE c == CallOf(Flush, "in", 1)
    <3>1. call' = c /\ UNCHANGED <<test, i, j, rx>>
      BY <1>2, <2>3 DEF Return
    <3>2. /\ c \in Calls /\ c.fifo = "in" /\ c.moved = 0 /\ c.at = "status"
          /\ c.left > 0 /\ c.left + c.moved <= MAX_BLOCK /\ c.left % 4 = c.top % 4
      BY <2>1, CallBegins
    <3> HIDE DEF c
    <3>3. CallOK'
      BY <1>2, <2>1, <3>1, <3>2 DEF CallOK
    <3>4. rx = << >>
      BY <2>1 DEF CallOK
    <3> QED
      BY <1>2, <2>1, <3>1, <3>3, <3>4 DEF Goes
  <2> QED
    BY <2>2, <2>3
<1>3. CASE test # Flush
  <2> DEFINE m == IF call.fifo = "out" THEN i + moved ELSE i
             n == IF call.fifo = "out" THEN j ELSE j + moved
  <2>1. test \in Tests /\ test \in 1 .. 3 /\ test \in Flush .. 3 /\ test # Finished
        /\ test + 1 \in 1 .. Finished
    BY <1>1, <1>3, Numbers
  <2>2. m \in 0 .. SZ /\ n \in 0 .. SZ /\ Len(bytes) = n
    <3>1. i \in 0 .. SZ /\ j \in 0 .. SZ
      BY DEF CallOK
    <3>2. IF call.fifo = "out" THEN i + call.left + call.moved <= SZ
                               ELSE j + call.left + call.moved <= SZ
      BY <2>1 DEF CallOK
    <3> DEFINE l == call.left
               k == call.moved
    <3>3. /\ l \in Nat /\ k \in Nat /\ i \in Nat /\ j \in Nat /\ SZ \in Nat
          /\ moved <= l + k
          /\ IF call.fifo = "out" THEN i + l + k <= SZ ELSE j + l + k <= SZ
      BY <1>1, <3>2
    <3> HIDE DEF l, k
    <3>4. CASE call.fifo = "out"
      <4>1. m = i + moved /\ n = j /\ Len(bytes) = j
        BY <2>1, <3>4
      <4>2. i + l + k <= SZ
        BY <3>3, <3>4
      <4> QED
        BY <3>1, <3>3, <4>1, <4>2
    <3>5. CASE call.fifo # "out"
      <4>1. m = i /\ n = j + moved /\ Len(bytes) = j + moved
        BY <2>1, <3>5
      <4>2. j + l + k <= SZ
        BY <3>3, <3>5
      <4> QED
        BY <3>1, <3>3, <4>1, <4>2
    <3> QED
      BY <3>4, <3>5
  <2>3. GoOn(m, n, bytes)
    BY <1>1, <1>3 DEF Return
  <2> HIDE DEF m, n
  <2>4. CASE m = SZ /\ n = SZ
    <3>1. StartTest(test + 1)
      BY <2>3, <2>4 DEF GoOn
    <3>2. CallOK' /\ test' = test + 1 /\ rx' = << >> /\ (test' \in Tests => Sent' = 0)
      BY <2>1, <3>1, TestBegins
    <3> QED
      BY <2>2, <2>4, <3>2 DEF Goes, m
  <2>5. CASE ~(m = SZ /\ n = SZ)
    <3> DEFINE in == n < SZ /\ (call.fifo = "out" \/ m = SZ)
               c == IF in THEN CallOf(test, "in", SZ - n) ELSE CallOf(test, "out", SZ - m)
    <3>1. /\ i' = m /\ j' = n /\ rx' = bytes /\ test' = test /\ call' = c
      BY <2>3, <2>5 DEF GoOn
    <3>2. CASE in
      <4>1. SZ - n \in Nat /\ SZ - n > 0
        BY <1>1, <2>2, <3>2
      <4>2. /\ c \in Calls /\ c.fifo = "in" /\ c.moved = 0 /\ c.at = "status"
            /\ c.left > 0 /\ c.left <= SZ - n /\ c.left + c.moved <= MAX_BLOCK
            /\ c.left % 4 = c.top % 4
        BY <2>1, <3>2, <4>1, CallBegins
      <4> HIDE DEF c
      <4>3. n + c.left + c.moved <= SZ /\ n + c.moved = n
        <5> DEFINE l == c.left
        <5>1. l \in Nat /\ l <= SZ - n /\ n \in Nat /\ SZ \in Nat /\ c.moved = 0
          BY <1>1, <2>2, <4>2 DEF Calls
        <5> HIDE DEF l
        <5>2. n + l + 0 <= SZ /\ n + 0 = n
          BY <5>1
        <5> QED
          BY <5>1, <5>2 DEF l
      <4>4. CallOK'
        <5>1. /\ test' \in Flush .. Finished /\ i' \in 0 .. SZ /\ j' \in 0 .. SZ
              /\ restarts' \in Nat /\ rx' \in Seq(Nat) /\ test' \in Tests
              /\ test' # Flush /\ i' = m /\ j' = n /\ Len(rx') = n /\ call' = c
          BY <1>1, <2>1, <2>2, <3>1, Numbers
        <5> QED
          BY <4>2, <4>3, <5>1 DEF CallOK
      <4>5. Sent' = m
        BY <2>2, <3>1, <4>2 DEF Sent
      <4> QED
        BY <3>1, <4>4, <4>5 DEF Goes, m
    <3>3. CASE ~in
      <4>1. SZ - m \in Nat /\ SZ - m > 0
        BY <1>1, <2>2, <2>5, <3>3
      <4>2. /\ c \in Calls /\ c.fifo = "out" /\ c.moved = 0 /\ c.at = "status"
            /\ c.left > 0 /\ c.left <= SZ - m /\ c.left + c.moved <= MAX_BLOCK
            /\ c.left % 4 = c.top % 4
        BY <2>1, <3>3, <4>1, CallBegins
      <4> HIDE DEF c
      <4>3. m + c.left + c.moved <= SZ
        <5> DEFINE l == c.left
        <5>1. l \in Nat /\ l <= SZ - m /\ m \in Nat /\ SZ \in Nat /\ c.moved = 0
          BY <1>1, <2>2, <4>2 DEF Calls
        <5> HIDE DEF l
        <5>2. m + l + 0 <= SZ
          BY <5>1
        <5> QED
          BY <5>1, <5>2 DEF l
      <4>4. CallOK'
        <5>1. /\ test' \in Flush .. Finished /\ i' \in 0 .. SZ /\ j' \in 0 .. SZ
              /\ restarts' \in Nat /\ rx' \in Seq(Nat) /\ test' \in Tests
              /\ test' # Flush /\ i' = m /\ j' = n /\ Len(rx') = n /\ call' = c
          BY <1>1, <2>1, <2>2, <3>1, Numbers
        <5> QED
          BY <4>2, <4>3, <5>1 DEF CallOK
      <4>5. Sent' = m
        BY <2>2, <3>1, <4>2 DEF Sent
      <4> QED
        BY <3>1, <4>4, <4>5 DEF Goes, m
    <3> QED
      BY <3>2, <3>3
  <2> QED
    BY <2>4, <2>5
<1> QED
  BY <1>2, <1>3

(* The CPC's looks at the status. *)
LEMMA LookGoes ==
  ASSUME CallOK, LookAtStatus
  PROVE  CallOK' /\ test # Finished /\ Goes(rx, Sent) /\ UNCHANGED <<up, down, restarts>>
<1>1. /\ test # Finished /\ call.at = "status" /\ UNCHANGED <<up, down, restarts, piVars>>
      /\ \/ Ready /\ call' = [call EXCEPT !.at = "data"] /\ UNCHANGED <<test, i, j, rx>>
         \/ ~Ready /\ UNCHANGED <<test, i, j, call, rx>>
         \/ ~Ready /\ Return(call.moved, rx)
  BY DEF LookAtStatus, cardVars
<1>2. CASE Ready /\ call' = [call EXCEPT !.at = "data"] /\ UNCHANGED <<test, i, j, rx>>
  <2>1. IF call.fifo = "out" THEN Len(up) < DEPTH ELSE down # << >>
    BY <1>2 DEF Ready, InputReady, OutputReady
  <2>2. /\ call'.left = call.left /\ call'.moved = call.moved /\ call'.top = call.top
        /\ call'.fifo = call.fifo /\ call'.at = "data" /\ call' \in Calls
    BY <1>2 DEF CallOK, Calls
  <2>3. CallOK'
    BY <1>1, <1>2, <2>1, <2>2 DEF CallOK
  <2>4. Sent' = Sent
    BY <1>2, <2>2 DEF Sent
  <2> QED
    BY <1>1, <1>2, <2>3, <2>4 DEF Goes
<1>3. CASE UNCHANGED <<test, i, j, call, rx>>
  <2>1. CallOK'
    BY <1>1, <1>3 DEF CallOK
  <2>2. Sent' = Sent
    BY <1>3 DEF Sent
  <2> QED
    BY <1>1, <1>3, <2>1, <2>2 DEF Goes
<1>4. CASE Return(call.moved, rx)
  <2>1. call.moved \in Nat /\ call.left \in Nat /\ call.moved <= call.left + call.moved
        /\ i \in Nat
    BY Numbers DEF CallOK, Calls
  <2>2. rx \in Seq(Nat) /\ (test = Flush => rx = << >>)
    BY Numbers DEF CallOK
  <2>3. test \in Tests => Len(rx) = IF call.fifo = "out" THEN j ELSE j + call.moved
    BY DEF CallOK
  <2>4. Sent = IF call.fifo = "out" THEN i + call.moved ELSE i
    BY <2>1 DEF Sent
  <2> QED
    BY <1>1, <1>4, <2>1, <2>2, <2>3, <2>4, ReturnGoes
<1> QED
  BY <1>1, <1>2, <1>3, <1>4

(* The CPC has moved a byte: it returns after the last, or goes on to the   *)
(* next copy of the loop.                                                   *)
LEMMA AfterByteGoes ==
  ASSUME CallOK, test # Finished, call.at = "data", UNCHANGED restarts,
         NEW bytes \in Seq(Nat), AfterByte(bytes),
         test = Flush => bytes = << >>,
         test \in Tests =>
           Len(bytes) = IF call.fifo = "out" THEN j ELSE j + call.moved + 1
  PROVE  CallOK' /\ Goes(bytes, IF call.fifo = "out" THEN Sent + 1 ELSE Sent)
<1>1. /\ call.moved \in Nat /\ call.left \in Nat /\ call.left > 0 /\ call.top \in 1 .. 4
      /\ call.left % 4 = call.top % 4 /\ call.moved + 1 \in Nat
      /\ call.moved + 1 <= call.left + call.moved /\ i \in Nat /\ j \in Nat
      /\ call.left + call.moved <= MAX_BLOCK /\ call \in Calls
      /\ call.left <= MAX_BLOCK /\ call.moved <= MAX_BLOCK
      /\ call.fifo \in {"out", "in"}
  BY Numbers DEF CallOK, Calls
<1>2. CASE call.top = 1 /\ call.left = 1
  <2>1. Return(call.moved + 1, bytes)
    BY <1>2 DEF AfterByte
  <2>2. j + (call.moved + 1) = j + call.moved + 1
    BY <1>1
  <2>3. Sent + 1 = i + (call.moved + 1) \/ call.fifo # "out"
    BY <1>1 DEF Sent
  <2>4. call.fifo # "out" => Sent = i
    BY <1>1 DEF Sent
  <2> DEFINE moved == call.moved + 1
  <2>5. moved \in Nat /\ moved <= call.left + call.moved /\ Return(moved, bytes)
    BY <1>1, <2>1
  <2>6. test \in Tests => Len(bytes) = IF call.fifo = "out" THEN j ELSE j + moved
    BY <2>2
  <2>7. (IF call.fifo = "out" THEN Sent + 1 ELSE Sent)
          = IF call.fifo = "out" THEN i + moved ELSE i
    BY <2>3, <2>4
  <2> HIDE DEF moved
  <2>8. CallOK' /\ Goes(bytes, IF call.fifo = "out" THEN i + moved ELSE i)
    BY <2>5, <2>6, ReturnGoes
  <2> QED
    BY <2>7, <2>8
<1>3. CASE ~(call.top = 1 /\ call.left = 1)
  <2>1. /\ call' = [call EXCEPT !.at = "status", !.left = @ - 1, !.moved = @ + 1,
                                !.top = IF @ = 1 THEN 4 ELSE @ - 1]
        /\ rx' = bytes /\ UNCHANGED <<test, i, j>>
    BY <1>3 DEF AfterByte
  <2>2. /\ call'.at = "status" /\ call'.left = call.left - 1
        /\ call'.moved = call.moved + 1 /\ call'.fifo = call.fifo
        /\ call'.top = IF call.top = 1 THEN 4 ELSE call.top - 1
        /\ call'.waits = call.waits
    BY <1>1, <2>1 DEF Calls
  <2>3. call.left > 1
    BY <1>1, <1>3
  <2> DEFINE l  == call.left
             m  == call.moved
             t  == call.top
             lp == call'.left
             mp == call'.moved
             tp == call'.top
  <2>4. /\ lp > 0 /\ lp % 4 = tp % 4 /\ lp + mp = l + m
        /\ lp \in 0 .. MAX_BLOCK /\ mp \in 0 .. MAX_BLOCK /\ tp \in 1 .. 4
        /\ lp \in Nat /\ mp \in Nat
    <3>1. /\ l \in Nat /\ m \in Nat /\ t \in 1 .. 4 /\ l % 4 = t % 4 /\ l > 1
          /\ lp = l - 1 /\ mp = m + 1 /\ tp = IF t = 1 THEN 4 ELSE t - 1
          /\ l + m <= MAX_BLOCK /\ MAX_BLOCK \in Nat
      BY <1>1, <2>2, <2>3, Numbers
    <3> HIDE DEF l, m, t, lp, mp, tp
    <3>2. lp % 4 = tp % 4
      BY <3>1
    <3> QED
      BY <3>1, <3>2
  <2>5. call' \in Calls
    BY <1>1, <2>1, <2>2, <2>4 DEF Calls, lp, mp, tp
  <2>6. test \in Tests =>
          IF call.fifo = "out"
            THEN i + call'.left + call'.moved <= SZ /\ Len(bytes) = j
            ELSE j + call'.left + call'.moved <= SZ /\ Len(bytes) = j + call'.moved
    <3>1. test \in Tests =>
            IF call.fifo = "out" THEN i + l + m <= SZ ELSE j + l + m <= SZ
      BY DEF CallOK
    <3>2. /\ l \in Nat /\ m \in Nat /\ i \in Nat /\ j \in Nat /\ mp = m + 1
          /\ lp + mp = l + m /\ lp \in Nat /\ mp \in Nat /\ SZ \in Nat
      BY <1>1, <2>2, <2>4, Numbers
    <3> HIDE DEF l, m, lp, mp
    <3>3. i + lp + mp = i + l + m /\ j + lp + mp = j + l + m /\ j + mp = j + m + 1
      BY <3>2
    <3> QED
      BY <3>1, <3>3 DEF lp, mp, m
  <2>7. test \notin Tests => bytes = << >>
    BY Numbers DEF CallOK
  <2>8. CallOK'
    BY <2>1, <2>2, <2>4, <2>5, <2>6, <2>7 DEF CallOK
  <2>9. Sent' = IF call.fifo = "out" THEN Sent + 1 ELSE Sent
    BY <1>1, <2>1, <2>2 DEF Sent
  <2> QED
    BY <2>1, <2>8, <2>9 DEF Goes
<1> QED
  BY <1>2, <1>3

(* The CPC writes a byte into a FIFO that has room for it still. *)
LEMMA WriteGoes ==
  ASSUME CallOK, PiOK, WriteData
  PROVE  /\ CallOK' /\ test \in Tests /\ Goes(rx, Sent + 1)
         /\ up' = Append(up, FirstByte + Sent) /\ FirstByte + Sent \in Byte
         /\ Len(up) < DEPTH /\ UNCHANGED <<down, restarts, piVars>>
<1>1. /\ test # Finished /\ call.at = "data" /\ call.fifo = "out"
      /\ up' = ShiftedIn(up, FirstByte + i + call.moved) /\ AfterByte(rx)
      /\ UNCHANGED <<down, restarts, piVars>>
  BY DEF WriteData
<1>2. test \in Tests /\ Len(up) < DEPTH
  BY <1>1, Numbers DEF CallOK
<1>3. rx \in Seq(Nat) /\ Len(rx) = j /\ test # Flush
  BY <1>1, <1>2, Numbers DEF CallOK
<1>4. CallOK' /\ Goes(rx, Sent + 1)
  BY <1>1, <1>3, AfterByteGoes
<1>5. FirstByte \in Nat /\ FirstByte > 0
  <2>1. restarts \in Nat /\ test - 1 \in Nat /\ 3 * restarts + (test - 1) \in Nat
        /\ test \in Int
    BY <1>2, Numbers DEF CallOK
  <2>2. 3 * restarts + test - 1 = 3 * restarts + (test - 1)
    BY <2>1
  <2>3. SZ * (3 * restarts + test - 1) \in Nat
    BY <2>1, <2>2, Numbers
  <2> QED
    BY <2>3, Numbers DEF FirstByte
<1>6. i \in Nat /\ call.moved \in Nat /\ FirstByte + i + call.moved = FirstByte + Sent
  BY <1>1, <1>5, Numbers DEF CallOK, Calls, Sent
<1>7. FirstByte + Sent \in Byte
  BY <1>1, <1>5, <1>6 DEF Sent, Byte, NotAByte
<1>8. up' = Append(up, FirstByte + Sent)
  BY <1>1, <1>2, <1>6 DEF ShiftedIn, InputReady
<1> QED
  BY <1>1, <1>2, <1>4, <1>7, <1>8

(* The CPC reads a byte that is there still. *)
LEMMA ReadGoes ==
  ASSUME CallOK, PiOK, ReadData
  PROVE  /\ CallOK' /\ test # Finished /\ down # << >>
         /\ Goes(IF test = Flush THEN rx ELSE Append(rx, Head(down)), Sent)
         /\ test = Flush => rx = << >>
         /\ down' = Tail(down) /\ UNCHANGED <<up, restarts, piVars>>
<1>1. /\ test # Finished /\ call.at = "data" /\ call.fifo = "in"
      /\ down' = ShiftedOut(down)
      /\ AfterByte(IF test = Flush THEN rx ELSE Append(rx, Output(down)))
      /\ UNCHANGED <<up, restarts, piVars>>
  BY DEF ReadData
<1>2. down # << >> /\ down' = Tail(down) /\ Output(down) = Head(down) /\ Head(down) \in Nat
  <2>1. down # << >> /\ down \in Seq(Nat)
    BY <1>1 DEF CallOK, PiOK
  <2>2. Head(down) \in Nat
    BY <2>1, HeadTailProperties
  <2> QED
    BY <1>1, <2>1, <2>2 DEF ShiftedOut, OutputReady, Output
<1> DEFINE bytes == IF test = Flush THEN rx ELSE Append(rx, Head(down))
<1>3. rx \in Seq(Nat) /\ bytes \in Seq(Nat) /\ AfterByte(bytes)
      /\ (test = Flush => rx = << >>)
  BY <1>1, <1>2, Numbers DEF CallOK
<1>4. test \in Tests => Len(bytes) = j + call.moved + 1
  BY <1>1, <1>2, Numbers DEF CallOK
<1>5. test = Flush => bytes = << >>
  BY <1>3
<1> HIDE DEF bytes
<1>6. CallOK' /\ Goes(bytes, Sent)
  BY <1>1, <1>3, <1>4, <1>5, AfterByteGoes
<1> QED
  BY <1>1, <1>2, <1>3, <1>6 DEF bytes

(* The program is run again, with the FIFOs empty. *)
LEMMA RestartGoes ==
  ASSUME CallOK, Restart
  PROVE  /\ CallOK' /\ test' = Flush /\ rx' = << >> /\ up' = << >> /\ down' = << >>
         /\ restarts' = restarts + 1 /\ UNCHANGED piVars
<1>1. /\ restarts' = restarts + 1 /\ up' = << >> /\ down' = << >> /\ UNCHANGED piVars
      /\ test' = Flush /\ i' = 0 /\ j' = 0 /\ rx' = << >> /\ call' = CallOf(Flush, "in", 1)
  BY DEF Restart, CardReset
<1> DEFINE c == CallOf(Flush, "in", 1)
<1>2. /\ c \in Calls /\ c.fifo = "in" /\ c.moved = 0 /\ c.at = "status"
      /\ c.left > 0 /\ c.left + c.moved <= MAX_BLOCK /\ c.left % 4 = c.top % 4
  BY CallBegins, Numbers
<1> HIDE DEF c
<1>3. call' = c /\ Flush \in Flush .. Finished /\ Flush \notin Tests /\ 0 \in 0 .. SZ
      /\ restarts' \in Nat /\ Flush # Finished
  BY <1>1, Numbers DEF CallOK, c
<1>4. CallOK'
  BY <1>1, <1>2, <1>3 DEF CallOK
<1> QED
  BY <1>1, <1>4

-----------------------------------------------------------------------------
(* The Pi's steps. *)

(* The Pi takes from the one FIFO and puts into the other, so that what the *)
(* CPC has found at the status bit stays true.                              *)
LEMMA PiKeepsCalls ==
  ASSUME CallOK, PiOK, UNCHANGED cpcVars,
         up' = up \/ up' = ShiftedOut(up),
         down' = down \/ \E byte \in Nat : down' = ShiftedIn(down, byte)
  PROVE  CallOK'
<1>1. Len(up) < DEPTH => Len(up') < DEPTH
  <2>1. up \in Seq(Byte) /\ DEPTH \in Nat
    BY Numbers DEF PiOK
  <2>2. up' = up \/ (up' = Tail(up) /\ up # << >>)
    BY DEF ShiftedOut, OutputReady
  <2> QED
    BY <2>1, <2>2
<1>2. down # << >> => down' # << >>
  BY DEF PiOK, ShiftedIn
<1> QED
  BY <1>1, <1>2 DEF CallOK, cpcVars

(* The Pi looks at the pin, or at the ring and the pin. *)
LEMMA LooksKeepPi ==
  ASSUME CallOK, PiOK, LookAtDor \/ LookAtDir
  PROVE  /\ CallOK' /\ PiOK' /\ UNCHANGED <<cardVars, cpcVars, queue, rptr, wptr, pin>>
         /\ pc \in {"dor", "dir"} /\ pc' \in {"dor", "sample", "dir", "write"}
         /\ pc' = "sample" => up # << >>
<1>1. UNCHANGED <<up, down, cpcVars, queue, rptr, wptr, pin>>
  BY DEF LookAtDor, LookAtDir, cardVars
<1>2. CallOK'
  BY <1>1, PiKeepsCalls
<1>3. /\ pc \in {"dor", "dir"} /\ pc' \in {"dor", "sample", "dir", "write"}
      /\ pc' = "write" => wptr # rptr /\ Len(down) < DEPTH
      /\ pc' = "sample" => up # << >>
  BY DEF LookAtDor, LookAtDir, InputReady, OutputReady
<1>4. PiOK'
  BY <1>1, <1>3 DEF PiOK
<1> QED
  BY <1>1, <1>2, <1>3, <1>4 DEF cardVars

(* The Pi samples the pins. *)
LEMMA SampleGoes ==
  ASSUME CallOK, PiOK, SamplePins
  PROVE  /\ CallOK' /\ PiOK' /\ UNCHANGED <<cardVars, cpcVars, queue, rptr, wptr>>
         /\ pc = "sample" /\ pc' = "pulse"
         /\ pin' = IF up = << >> THEN NotAByte ELSE Head(up)
<1>1. /\ pc = "sample" /\ pc' = "pulse" /\ pin' = Output(up)
      /\ UNCHANGED <<up, down, cpcVars, queue, rptr, wptr>>
  BY DEF SamplePins, cardVars
<1>2. CallOK'
  BY <1>1, PiKeepsCalls
<1>3. pin' = (IF up = << >> THEN NotAByte ELSE Head(up)) /\ pin' \in Nat
  BY <1>1 DEF Output, OutputReady, PiOK, Byte, NotAByte
<1>4. PiOK'
  BY <1>1, <1>3 DEF PiOK
<1> QED
  BY <1>1, <1>2, <1>3, <1>4 DEF cardVars

(* The next slot is a slot. *)
LEMMA NextSlotIsSlot ==
  ASSUME NEW k \in Slot
  PROVE  /\ NextSlot(k) \in Slot
         /\ NextSlot(k) = IF k + 1 = QUEUE_SZ THEN 0 ELSE k + 1
<1>1. k \in Nat /\ k < QUEUE_SZ /\ QUEUE_SZ \in Nat /\ QUEUE_SZ > 0
  BY Numbers DEF Slot
<1>2. (k + 1) % QUEUE_SZ = IF k + 1 = QUEUE_SZ THEN 0 ELSE k + 1
  BY <1>1
<1> QED
  BY <1>1, <1>2 DEF Slot, NextSlot

(* The Pi pulses SO and stores the byte. *)
LEMMA StoreGoes ==
  ASSUME CallOK, PiOK, PulseAndStore
  PROVE  /\ CallOK' /\ PiOK' /\ UNCHANGED <<down, cpcVars, wptr, pin>>
         /\ pc = "pulse" /\ pc' = "dir"
         /\ up' = IF up = << >> THEN << >> ELSE Tail(up)
         /\ queue' = [queue EXCEPT ![rptr] = pin] /\ rptr' = NextSlot(rptr)
<1>1. /\ pc = "pulse" /\ pc' = "dir" /\ up' = ShiftedOut(up)
      /\ queue' = [queue EXCEPT ![rptr] = pin] /\ rptr' = NextSlot(rptr)
      /\ UNCHANGED <<down, cpcVars, wptr, pin>>
  BY DEF PulseAndStore
<1>2. CallOK'
  BY <1>1, PiKeepsCalls
<1>3. up' = IF up = << >> THEN << >> ELSE Tail(up)
  BY <1>1 DEF ShiftedOut, OutputReady
<1>4. up' \in Seq(Byte) /\ Len(up') <= DEPTH
  BY <1>3, Numbers DEF PiOK
<1>5. rptr' \in Slot /\ queue' \in [Slot -> Nat]
  BY <1>1, NextSlotIsSlot DEF PiOK
<1>6. PiOK'
  BY <1>1, <1>4, <1>5 DEF PiOK
<1> QED
  BY <1>1, <1>2, <1>3, <1>6

(* The Pi writes a byte of the ring into a FIFO that has room still. *)
LEMMA TakeGoes ==
  ASSUME CallOK, PiOK, WriteFifoByte
  PROVE  /\ CallOK' /\ PiOK' /\ UNCHANGED <<up, cpcVars, queue, rptr, pin>>
         /\ pc = "write" /\ pc' = "dor" /\ wptr # rptr
         /\ down' = Append(down, queue[wptr]) /\ wptr' = NextSlot(wptr)
<1>1. /\ pc = "write" /\ pc' = "dor" /\ down' = ShiftedIn(down, queue[wptr])
      /\ wptr' = NextSlot(wptr) /\ UNCHANGED <<up, cpcVars, queue, rptr, pin>>
  BY DEF WriteFifoByte
<1>2. queue[wptr] \in Nat /\ wptr # rptr /\ Len(down) < DEPTH
  BY <1>1 DEF PiOK
<1>3. CallOK'
  BY <1>1, <1>2, PiKeepsCalls
<1>4. down' = Append(down, queue[wptr])
  BY <1>1, <1>2 DEF ShiftedIn, InputReady
<1>5. down' \in Seq(Nat) /\ Len(down') <= DEPTH
  BY <1>2, <1>4, Numbers DEF PiOK
<1>6. wptr' \in Slot
  BY <1>1, NextSlotIsSlot DEF PiOK
<1>7. PiOK'
  BY <1>1, <1>5, <1>6 DEF PiOK
<1> QED
  BY <1>1, <1>2, <1>3, <1>4, <1>7

-----------------------------------------------------------------------------
(* Types. *)

(* The CPC's steps leave the Pi in order. *)
LEMMA CpcKeepsPi ==
  ASSUME CallOK, PiOK, Cpc \/ Restart
  PROVE  PiOK'
<1>1. CASE LookAtStatus
  BY <1>1 DEF LookAtStatus, PiOK, cardVars, piVars
<1>2. CASE WriteData
  <2>1. /\ up' = Append(up, FirstByte + Sent) /\ FirstByte + Sent \in Byte
        /\ Len(up) < DEPTH /\ UNCHANGED <<down, piVars>>
    BY <1>2, WriteGoes
  <2> DEFINE b == FirstByte + Sent
  <2> HIDE DEF b
  <2>2. up' \in Seq(Byte) /\ Len(up') <= DEPTH
    BY <2>1, Numbers DEF PiOK, b
  <2> QED
    BY <2>1, <2>2 DEF PiOK, piVars
<1>3. CASE ReadData
  <2>1. down # << >> /\ down' = Tail(down) /\ UNCHANGED <<up, piVars>>
    BY <1>3, ReadGoes
  <2>2. /\ down' \in Seq(Nat) /\ Len(down') <= DEPTH
        /\ Len(down) < DEPTH => Len(down') < DEPTH
    BY <2>1, Numbers DEF PiOK
  <2> QED
    BY <2>1, <2>2 DEF PiOK, piVars
<1>4. CASE Restart
  <2>1. up' = << >> /\ down' = << >> /\ UNCHANGED piVars
    BY <1>4, RestartGoes
  <2> QED
    BY <2>1, Numbers DEF PiOK, piVars
<1> QED
  BY <1>1, <1>2, <1>3, <1>4 DEF Cpc

(* Both machines start in order. *)
LEMMA InitTypes == Init => CallOK /\ PiOK
<1> SUFFICES ASSUME Init PROVE CallOK /\ PiOK
  OBVIOUS
<1> DEFINE c == CallOf(Flush, "in", 1)
<1>1. /\ c \in Calls /\ c.fifo = "in" /\ c.moved = 0 /\ c.at = "status"
      /\ c.left > 0 /\ c.left + c.moved <= MAX_BLOCK /\ c.left % 4 = c.top % 4
  BY CallBegins, Numbers
<1>2. call = c
  BY DEF Init
<1> HIDE DEF c
<1>3. CallOK
  BY <1>1, <1>2, Numbers DEF Init, CallOK
<1>4. PiOK
  BY Numbers DEF Init, PiOK, Slot, NotAByte
<1> QED
  BY <1>3, <1>4

(* Every step keeps both machines in order. *)
LEMMA StepTypes == CallOK /\ PiOK /\ [Next]_vars => CallOK' /\ PiOK'
<1> SUFFICES ASSUME CallOK, PiOK, [Next]_vars
             PROVE  CallOK' /\ PiOK'
  OBVIOUS
<1>1. CASE Cpc
  BY <1>1, CpcKeepsPi, LookGoes, WriteGoes, ReadGoes DEF Cpc
<1>2. CASE Restart
  BY <1>2, CpcKeepsPi, RestartGoes
<1>3. CASE Pi
  BY <1>3, LooksKeepPi, SampleGoes, StoreGoes, TakeGoes DEF Pi
<1>4. CASE UNCHANGED vars
  BY <1>4 DEF vars, cardVars, cpcVars, piVars, CallOK, PiOK
<1> QED
  BY <1>1, <1>2, <1>3, <1>4 DEF Next

(* The types hold throughout: no call moves more bytes than the test wants, *)
(* no FIFO is over its depth, and no byte written is lost at a full one.    *)
THEOREM TypeCorrect == Spec => []TypeOK
<1>1. CallOK /\ PiOK => TypeOK
  BY InvariantHasTypes
<1> QED
  BY InitTypes, StepTypes, <1>1, PTL DEF Spec

-----------------------------------------------------------------------------
(* Sequences of bytes, some of which are strays: NotAByte. *)

(* The bytes rise, and are no more than n. *)
Ordered(s) ==
  \A k, l \in 1 .. Len(s) : k < l /\ s[k] # NotAByte /\ s[l] # NotAByte => s[k] < s[l]
Upto(s, n) == \A k \in 1 .. Len(s) : s[k] <= n

(* The bytes of s are less than those of t. *)
Before(s, t) ==
  \A k \in 1 .. Len(s), l \in 1 .. Len(t) :
    s[k] # NotAByte /\ t[l] # NotAByte => s[k] < t[l]

StrayPlaces(s) == {k \in 1 .. Len(s) : s[k] = NotAByte}
Strays(s) == Cardinality(StrayPlaces(s))

(* s is t, with some of the bytes left out: place k of s is place f[k] of t. *)
PartBy(s, t, f) ==
  /\ f \in [1 .. Len(s) -> 1 .. Len(t)]
  /\ \A k, l \in 1 .. Len(s) : k < l => f[k] < f[l]
  /\ \A k \in 1 .. Len(s) : s[k] = t[f[k]]
PartOf(s, t) == \E f : PartBy(s, t, f)

(* Rising bytes rise still when some are left out, and are no more than     *)
(* they were.                                                               *)
LEMMA PartIsOrdered ==
  ASSUME NEW s \in Seq(Nat), NEW t \in Seq(Nat), PartOf(s, t)
  PROVE  /\ Ordered(t) => Ordered(s)
         /\ \A n \in Nat : Upto(t, n) => Upto(s, n)
<1>1. PICK f : PartBy(s, t, f)
  BY DEF PartOf
<1>2. /\ \A k \in 1 .. Len(s) : f[k] \in 1 .. Len(t) /\ s[k] = t[f[k]]
      /\ \A k, l \in 1 .. Len(s) : k < l => f[k] < f[l]
  BY <1>1 DEF PartBy
<1>3. Ordered(t) => Ordered(s)
  <2> SUFFICES ASSUME Ordered(t), NEW k \in 1 .. Len(s), NEW l \in 1 .. Len(s), k < l,
                      s[k] # NotAByte, s[l] # NotAByte
               PROVE  s[k] < s[l]
    BY DEF Ordered
  <2>1. /\ f[k] \in 1 .. Len(t) /\ f[l] \in 1 .. Len(t) /\ f[k] < f[l]
        /\ s[k] = t[f[k]] /\ s[l] = t[f[l]]
    BY <1>2
  <2>2. t[f[k]] < t[f[l]]
    BY <2>1 DEF Ordered
  <2> QED
    BY <2>1, <2>2
<1>4. \A n \in Nat : Upto(t, n) => Upto(s, n)
  BY <1>2 DEF Upto
<1> QED
  BY <1>3, <1>4

(* The places of the strays are finitely many. *)
LEMMA StrayPlacesFinite ==
  ASSUME NEW s \in Seq(Nat)
  PROVE  IsFiniteSet(StrayPlaces(s)) /\ Strays(s) \in Nat
<1>1. Len(s) \in Int /\ 1 \in Int
  OBVIOUS
<1>2. IsFiniteSet(1 .. Len(s))
  BY <1>1, FS_Interval, Zenon
<1>3. StrayPlaces(s) \in SUBSET (1 .. Len(s))
  BY DEF StrayPlaces
<1>4. IsFiniteSet(StrayPlaces(s))
  BY <1>2, <1>3, FS_Subset, Zenon
<1> QED
  BY <1>4, FS_CardinalityType DEF Strays

(* Leaving bytes out adds no stray. *)
LEMMA PartHasFewerStrays ==
  ASSUME NEW s \in Seq(Nat), NEW t \in Seq(Nat), PartOf(s, t)
  PROVE  Strays(s) <= Strays(t)
<1>1. PICK f : PartBy(s, t, f)
  BY DEF PartOf
<1> DEFINE S == StrayPlaces(s)
           T == StrayPlaces(t)
           g == [k \in S |-> f[k]]
<1>2. /\ \A k \in S : k \in 1 .. Len(s) /\ f[k] \in T
      /\ \A k, l \in S : k # l => f[k] # f[l]
  <2>1. \A k \in S : k \in 1 .. Len(s) /\ s[k] = NotAByte
    BY DEF StrayPlaces
  <2>2. \A k \in S : f[k] \in 1 .. Len(t) /\ t[f[k]] = NotAByte
    BY <1>1, <2>1 DEF PartBy
  <2>3. \A k \in S : f[k] \in T
    BY <2>2 DEF StrayPlaces
  <2>4. Len(s) \in Nat /\ Len(t) \in Nat
    OBVIOUS
  <2>5. ASSUME NEW k \in S, NEW l \in S, k # l PROVE f[k] # f[l]
    <3>1. k < l \/ l < k
      BY <2>1, <2>4, <2>5
    <3>2. f[k] < f[l] \/ f[l] < f[k]
      BY <1>1, <2>1, <3>1 DEF PartBy
    <3> QED
      BY <2>2, <2>4, <3>2
  <2> QED
    BY <2>1, <2>3, <2>5
<1>3. g \in Injection(S, T)
  <2>1. g \in [S -> T]
    BY <1>2
  <2>2. \A k, l \in DOMAIN g : g[k] = g[l] => k = l
    BY <1>2
  <2> QED
    BY <2>1, <2>2 DEF Injection, IsInjective
<1>4. IsFiniteSet(T)
  BY StrayPlacesFinite
<1> HIDE DEF g, S, T
<1>5. Cardinality(S) <= Cardinality(T)
  BY <1>3, <1>4, FS_Injection, Zenon
<1> QED
  BY <1>5 DEF Strays, S, T

(* All bytes are a part, and so are none, and those after the first. *)
LEMMA SimpleParts ==
  ASSUME NEW s \in Seq(Nat)
  PROVE  PartOf(s, s) /\ PartOf(<< >>, s) /\ (s # << >> => PartOf(Tail(s), s))
<1>1. PartBy(s, s, [k \in 1 .. Len(s) |-> k])
  BY DEF PartBy
<1>2. PartBy(<< >>, s, << >>)
  BY DEF PartBy
<1>3. ASSUME s # << >> PROVE PartOf(Tail(s), s)
  <2> DEFINE t == Tail(s)
  <2>1. /\ t \in Seq(Nat) /\ Len(t) = Len(s) - 1 /\ Len(t) \in Nat
        /\ \A k \in 1 .. Len(t) : t[k] = s[k + 1]
    BY <1>3, HeadTailProperties
  <2> HIDE DEF t
  <2> DEFINE f == [k \in 1 .. Len(t) |-> k + 1]
  <2>2. f \in [1 .. Len(t) -> 1 .. Len(s)]
    <3>1. \A k \in 1 .. Len(t) : k + 1 \in 1 .. Len(s)
      <4>1. Len(s) \in Nat /\ Len(t) = Len(s) - 1
        BY <2>1
      <4> QED
        BY <4>1
    <3> QED
      BY <3>1
  <2>3. PartBy(t, s, f)
    BY <2>1, <2>2 DEF PartBy
  <2> QED
    BY <2>3 DEF PartOf, t
<1> QED
  BY <1>1, <1>2, <1>3 DEF PartOf

(* Each place of two sequences together is one of the first or the second.  *)
LEMMA PlacesTogether ==
  ASSUME NEW s \in Seq(Nat), NEW t \in Seq(Nat)
  PROVE  /\ s \o t \in Seq(Nat) /\ Len(s \o t) = Len(s) + Len(t)
         /\ Len(s) \in Nat /\ Len(t) \in Nat /\ Len(s \o t) \in Nat
         /\ \A k \in 1 .. Len(s) : k \in 1 .. Len(s \o t) /\ (s \o t)[k] = s[k]
         /\ \A k \in 1 .. Len(t) : Len(s) + k \in 1 .. Len(s \o t) /\ (s \o t)[Len(s) + k] = t[k]
         /\ \A k \in 1 .. Len(s \o t) :
              k \in 1 .. Len(s) \/ \E m \in 1 .. Len(t) : k = Len(s) + m
<1> DEFINE u == s \o t
<1>1. /\ Len(u) = Len(s) + Len(t) /\ Len(s) \in Nat /\ Len(t) \in Nat
      /\ \A k \in 1 .. Len(s) + Len(t) : u[k] = IF k <= Len(s) THEN s[k] ELSE t[k - Len(s)]
      /\ u \in Seq(Nat)
  BY ConcatProperties
<1> HIDE DEF u
<1>2. \A k \in 1 .. Len(s) : k \in 1 .. Len(u) /\ u[k] = s[k]
  BY <1>1
<1>3. \A k \in 1 .. Len(t) : Len(s) + k \in 1 .. Len(u) /\ u[Len(s) + k] = t[k]
  <2>1. \A k \in 1 .. Len(t) : Len(s) + k \in 1 .. Len(u) /\ ~(Len(s) + k <= Len(s))
                               /\ (Len(s) + k) - Len(s) = k
    BY <1>1
  <2> QED
    BY <1>1, <2>1
<1>4. \A k \in 1 .. Len(u) : k \in 1 .. Len(s) \/ \E m \in 1 .. Len(t) : k = Len(s) + m
  <2> TAKE k \in 1 .. Len(u)
  <2>1. CASE k <= Len(s)
    BY <1>1, <2>1
  <2>2. CASE k > Len(s)
    <3>1. k - Len(s) \in 1 .. Len(t) /\ k = Len(s) + (k - Len(s))
      BY <1>1, <2>2
    <3> QED
      BY <3>1
  <2> QED
    BY <1>1, <2>1, <2>2
<1>5. Len(u) \in Nat
  BY <1>1
<1>6. /\ u \in Seq(Nat) /\ Len(u) = Len(s) + Len(t)
      /\ Len(s) \in Nat /\ Len(t) \in Nat /\ Len(u) \in Nat
      /\ \A k \in 1 .. Len(s) : k \in 1 .. Len(u) /\ u[k] = s[k]
      /\ \A k \in 1 .. Len(t) : Len(s) + k \in 1 .. Len(u) /\ u[Len(s) + k] = t[k]
      /\ \A k \in 1 .. Len(u) :
           k \in 1 .. Len(s) \/ \E m \in 1 .. Len(t) : k = Len(s) + m
  BY <1>1, <1>2, <1>3, <1>4, <1>5, Zenon
<1> QED
  BY <1>6, Zenon DEF u

(* Parts of two sequences make a part of the two together. *)
LEMMA PartsTogether ==
  ASSUME NEW a \in Seq(Nat), NEW s \in Seq(Nat), PartOf(a, s),
         NEW b \in Seq(Nat), NEW t \in Seq(Nat), PartOf(b, t)
  PROVE  PartOf(a \o b, s \o t)
<1>1. PICK f : PartBy(a, s, f)
  BY DEF PartOf
<1>2. PICK g : PartBy(b, t, g)
  BY DEF PartOf
<1> DEFINE c == a \o b
           u == s \o t
           h == [k \in 1 .. Len(c) |->
                   IF k <= Len(a) THEN f[k] ELSE Len(s) + g[k - Len(a)]]
<1>3. /\ Len(c) = Len(a) + Len(b) /\ Len(u) = Len(s) + Len(t)
      /\ Len(a) \in Nat /\ Len(b) \in Nat /\ Len(s) \in Nat /\ Len(t) \in Nat
      /\ \A k \in 1 .. Len(a) + Len(b) : c[k] = IF k <= Len(a) THEN a[k] ELSE b[k - Len(a)]
      /\ \A k \in 1 .. Len(s) : k \in 1 .. Len(u) /\ u[k] = s[k]
      /\ \A k \in 1 .. Len(t) : Len(s) + k \in 1 .. Len(u) /\ u[Len(s) + k] = t[k]
  <2>1. /\ Len(c) = Len(a) + Len(b) /\ Len(a) \in Nat /\ Len(b) \in Nat
        /\ \A k \in 1 .. Len(a) + Len(b) : c[k] = IF k <= Len(a) THEN a[k] ELSE b[k - Len(a)]
    BY ConcatProperties
  <2>2. /\ Len(u) = Len(s) + Len(t) /\ Len(s) \in Nat /\ Len(t) \in Nat
        /\ \A k \in 1 .. Len(s) : k \in 1 .. Len(u) /\ u[k] = s[k]
        /\ \A k \in 1 .. Len(t) : Len(s) + k \in 1 .. Len(u) /\ u[Len(s) + k] = t[k]
    BY PlacesTogether, Zenon
  <2> QED
    BY <2>1, <2>2
<1> HIDE DEF c, u
<1>4. /\ \A k \in 1 .. Len(a) : f[k] \in 1 .. Len(s) /\ a[k] = s[f[k]]
      /\ \A k, l \in 1 .. Len(a) : k < l => f[k] < f[l]
      /\ \A k \in 1 .. Len(b) : g[k] \in 1 .. Len(t) /\ b[k] = t[g[k]]
      /\ \A k, l \in 1 .. Len(b) : k < l => g[k] < g[l]
  BY <1>1, <1>2 DEF PartBy
<1>5. \A k \in 1 .. Len(c) : h[k] \in 1 .. Len(u) /\ c[k] = u[h[k]]
  <2> TAKE k \in 1 .. Len(c)
  <2>1. CASE k <= Len(a)
    <3>1. k \in 1 .. Len(a) /\ h[k] = f[k] /\ c[k] = a[k]
      BY <1>3, <2>1
    <3>2. f[k] \in 1 .. Len(s) /\ a[k] = s[f[k]]
      BY <1>4, <3>1
    <3>3. u[f[k]] = s[f[k]] /\ f[k] \in 1 .. Len(u)
      BY <1>3, <3>2
    <3> QED
      BY <3>1, <3>2, <3>3
  <2>2. CASE k > Len(a)
    <3> DEFINE m == k - Len(a)
    <3>1. m \in 1 .. Len(b) /\ h[k] = Len(s) + g[m] /\ c[k] = b[m]
      BY <1>3, <2>2
    <3>2. g[m] \in 1 .. Len(t) /\ b[m] = t[g[m]]
      BY <1>4, <3>1
    <3> HIDE DEF m, h
    <3>3. Len(s) + g[m] \in 1 .. Len(u) /\ u[Len(s) + g[m]] = t[g[m]]
      BY <1>3, <3>2
    <3> QED
      BY <3>1, <3>2, <3>3
  <2> QED
    BY <1>3, <2>1, <2>2
<1>6. \A k, l \in 1 .. Len(c) : k < l => h[k] < h[l]
  <2> TAKE k, l \in 1 .. Len(c)
  <2> HAVE k < l
  <2>1. CASE l <= Len(a)
    BY <1>3, <1>4, <2>1
  <2>2. CASE k <= Len(a) /\ l > Len(a)
    <3>1. k \in 1 .. Len(a) /\ l - Len(a) \in 1 .. Len(b)
      BY <1>3, <2>2
    <3>2. f[k] \in 1 .. Len(s) /\ g[l - Len(a)] \in 1 .. Len(t)
      BY <1>4, <3>1
    <3>3. h[k] = f[k] /\ h[l] = Len(s) + g[l - Len(a)]
      BY <1>3, <2>2
    <3> DEFINE x == f[k]
               y == g[l - Len(a)]
    <3>4. x \in 1 .. Len(s) /\ y \in 1 .. Len(t) /\ Len(s) \in Nat
      BY <1>3, <3>2
    <3> HIDE DEF h, x, y
    <3>5. x < Len(s) + y
      BY <3>4
    <3> QED
      BY <3>3, <3>5 DEF x, y
  <2>3. CASE k > Len(a)
    <3> DEFINE m == k - Len(a)
               n == l - Len(a)
    <3>0. /\ Len(a) \in Nat /\ Len(b) \in Nat /\ Len(c) = Len(a) + Len(b)
          /\ ~(k <= Len(a)) /\ ~(l <= Len(a))
      BY <1>3, <2>3
    <3>1. m \in 1 .. Len(b) /\ n \in 1 .. Len(b) /\ m < n
          /\ h[k] = Len(s) + g[m] /\ h[l] = Len(s) + g[n]
      <4>1. m \in 1 .. Len(b) /\ n \in 1 .. Len(b) /\ m < n
        BY <2>3, <3>0
      <4>2. h[k] = Len(s) + g[m] /\ h[l] = Len(s) + g[n]
        BY <3>0
      <4> QED
        BY <4>1, <4>2
    <3> HIDE DEF m, n, h
    <3> DEFINE x == g[m]
               y == g[n]
    <3>2. g[m] \in 1 .. Len(t) /\ g[n] \in 1 .. Len(t) /\ g[m] < g[n]
      BY <1>4, <3>1
    <3>3. x \in Int /\ y \in Int /\ x < y /\ Len(s) \in Nat
      <4>1. Len(s) \in Nat
        BY <1>3
      <4> QED
        BY <3>2, <4>1
    <3> HIDE DEF x, y
    <3>4. Len(s) + x < Len(s) + y
      BY <3>3
    <3> QED
      BY <3>1, <3>4 DEF x, y
  <2> QED
    BY <1>3, <2>1, <2>2, <2>3
<1>7. PartBy(c, u, h)
  BY <1>5, <1>6 DEF PartBy
<1> QED
  BY <1>7 DEF PartOf, c, u

(* Two sequences together rise when each does and one is before the other.  *)
LEMMA OrderedTogether ==
  ASSUME NEW s \in Seq(Nat), NEW t \in Seq(Nat)
  PROVE  /\ Ordered(s \o t) <=> Ordered(s) /\ Ordered(t) /\ Before(s, t)
         /\ \A n \in Nat : Upto(s \o t, n) <=> Upto(s, n) /\ Upto(t, n)
<1> DEFINE u == s \o t
<1>1. /\ Len(u) = Len(s) + Len(t) /\ Len(s) \in Nat /\ Len(t) \in Nat
      /\ u \in Seq(Nat)
  BY ConcatProperties
<1>2. /\ \A k \in 1 .. Len(s) : k \in 1 .. Len(u) /\ u[k] = s[k]
      /\ \A k \in 1 .. Len(t) : Len(s) + k \in 1 .. Len(u) /\ u[Len(s) + k] = t[k]
  BY PlacesTogether
<1>3. \A k \in 1 .. Len(u) : k \in 1 .. Len(s) \/ \E m \in 1 .. Len(t) : k = Len(s) + m
  BY PlacesTogether
<1> HIDE DEF u
<1>4. ASSUME Ordered(u) PROVE Ordered(s) /\ Ordered(t) /\ Before(s, t)
  <2>1. \A k, l \in 1 .. Len(u) :
          k < l /\ u[k] # NotAByte /\ u[l] # NotAByte => u[k] < u[l]
    BY <1>4 DEF Ordered
  <2>2. Ordered(s)
    BY <1>2, <2>1 DEF Ordered
  <2>3. ASSUME NEW k \in 1 .. Len(t), NEW l \in 1 .. Len(t), k < l,
               t[k] # NotAByte, t[l] # NotAByte
        PROVE  t[k] < t[l]
    <3>1. Len(s) + k < Len(s) + l
      BY <1>1, <2>3
    <3> QED
      BY <1>2, <2>1, <2>3, <3>1
  <2>4. ASSUME NEW k \in 1 .. Len(s), NEW l \in 1 .. Len(t),
               s[k] # NotAByte, t[l] # NotAByte
        PROVE  s[k] < t[l]
    <3>1. k < Len(s) + l
      BY <1>1
    <3> QED
      BY <1>2, <2>1, <2>4, <3>1
  <2> QED
    BY <2>2, <2>3, <2>4 DEF Ordered, Before
<1>5. ASSUME Ordered(s), Ordered(t), Before(s, t) PROVE Ordered(u)
  <2> SUFFICES ASSUME NEW k \in 1 .. Len(u), NEW l \in 1 .. Len(u), k < l,
                      u[k] # NotAByte, u[l] # NotAByte
               PROVE  u[k] < u[l]
    BY DEF Ordered
  <2>1. CASE l \in 1 .. Len(s)
    <3>1. k \in 1 .. Len(s)
      <4>1. Len(s) \in Nat /\ Len(u) \in Nat
        BY <1>1
      <4> QED
        BY <2>1, <4>1
    <3>2. u[k] = s[k] /\ u[l] = s[l]
      BY <1>2, <2>1, <3>1
    <3> QED
      BY <1>5, <2>1, <3>1, <3>2 DEF Ordered
  <2>2. CASE l \notin 1 .. Len(s)
    <3>1. PICK n \in 1 .. Len(t) : l = Len(s) + n
      BY <1>3, <2>2
    <3>2. u[l] = t[n]
      BY <1>2, <3>1
    <3>3. CASE k \in 1 .. Len(s)
      <4>1. u[k] = s[k]
        BY <1>2, <3>3
      <4> QED
        BY <1>5, <3>2, <3>3, <4>1 DEF Before
    <3>4. CASE k \notin 1 .. Len(s)
      <4>1. PICK m \in 1 .. Len(t) : k = Len(s) + m
        BY <1>3, <3>4
      <4>2. u[k] = t[m] /\ m < n
        BY <1>1, <1>2, <3>1, <4>1
      <4> QED
        BY <1>5, <3>2, <4>2 DEF Ordered
    <3> QED
      BY <3>3, <3>4
  <2> QED
    BY <2>1, <2>2
<1>6. \A n \in Nat : Upto(u, n) <=> Upto(s, n) /\ Upto(t, n)
  BY <1>2, <1>3 DEF Upto
<1> QED
  BY <1>4, <1>5, <1>6 DEF u

(* A byte more, or a stray. *)
LEMMA OrderedAppend ==
  ASSUME NEW s \in Seq(Nat), Ordered(s), NEW b \in Nat, b = NotAByte \/ Upto(s, b - 1)
  PROVE  /\ Ordered(Append(s, b))
         /\ \A n \in Nat : Upto(s, n) /\ b <= n => Upto(Append(s, b), n)
         /\ \A t \in Seq(Nat) :
              Before(s, t) /\ (b # NotAByte => \A k \in 1 .. Len(t) : b < t[k])
                => Before(Append(s, b), t)
<1> DEFINE u == Append(s, b)
<1>1. /\ Len(u) = Len(s) + 1 /\ Len(s) \in Nat /\ u[Len(s) + 1] = b
      /\ \A k \in 1 .. Len(s) : u[k] = s[k] /\ s[k] \in Nat
  BY AppendProperties
<1>2. \A k \in 1 .. Len(u) : k \in 1 .. Len(s) \/ k = Len(s) + 1
  BY <1>1
<1> HIDE DEF u
<1>3. Ordered(u)
  <2> SUFFICES ASSUME NEW k \in 1 .. Len(u), NEW l \in 1 .. Len(u), k < l,
                      u[k] # NotAByte, u[l] # NotAByte
               PROVE  u[k] < u[l]
    BY DEF Ordered
  <2>1. k \in 1 .. Len(s)
    BY <1>1
  <2>2. CASE l \in 1 .. Len(s)
    BY <1>1, <2>1, <2>2 DEF Ordered
  <2>3. CASE l = Len(s) + 1
    <3>1. u[l] = b /\ u[k] = s[k] /\ s[k] \in Nat /\ b # NotAByte
      BY <1>1, <2>1, <2>3
    <3>2. s[k] <= b - 1
      BY <2>1, <3>1 DEF Upto
    <3> QED
      BY <3>1, <3>2
  <2> QED
    BY <1>2, <2>2, <2>3
<1>4. \A n \in Nat : Upto(s, n) /\ b <= n => Upto(u, n)
  BY <1>1, <1>2 DEF Upto
<1>5. \A t \in Seq(Nat) :
        Before(s, t) /\ (b # NotAByte => \A k \in 1 .. Len(t) : b < t[k]) => Before(u, t)
  BY <1>1, <1>2 DEF Before
<1> QED
  BY <1>3, <1>4, <1>5 DEF u

(* Where there is no stray, there is none to count. *)
LEMMA StraysTogether ==
  ASSUME NEW s \in Seq(Nat), NEW t \in Seq(Byte)
  PROVE  Strays(s \o t) = Strays(s)
<1> DEFINE u == s \o t
<1>1. /\ Len(u) = Len(s) + Len(t) /\ Len(s) \in Nat /\ Len(t) \in Nat
      /\ \A k \in 1 .. Len(s) + Len(t) : u[k] = IF k <= Len(s) THEN s[k] ELSE t[k - Len(s)]
  <2>1. t \in Seq(Nat)
    BY DEF Byte
  <2> QED
    BY <2>1, ConcatProperties
<1> HIDE DEF u
<1>2. \A k \in 1 .. Len(t) : t[k] # NotAByte
  BY DEF Byte
<1>3. \A k \in 1 .. Len(u) : u[k] = NotAByte => k \in 1 .. Len(s) /\ s[k] = NotAByte
  <2> TAKE k \in 1 .. Len(u)
  <2> HAVE u[k] = NotAByte
  <2>1. CASE k <= Len(s)
    BY <1>1, <2>1
  <2>2. CASE k > Len(s)
    <3>1. k - Len(s) \in 1 .. Len(t) /\ u[k] = t[k - Len(s)]
      BY <1>1, <2>2
    <3> QED
      BY <1>2, <3>1
  <2> QED
    BY <1>1, <2>1, <2>2
<1>4. \A k \in 1 .. Len(s) : s[k] = NotAByte => k \in 1 .. Len(u) /\ u[k] = NotAByte
  BY <1>1
<1>5. StrayPlaces(u) = StrayPlaces(s)
  BY <1>3, <1>4 DEF StrayPlaces
<1> QED
  BY <1>5 DEF Strays, u

(* A stray more counts for one, a byte for none. *)
LEMMA StraysAppend ==
  ASSUME NEW s \in Seq(Nat), NEW b \in Nat
  PROVE  Strays(Append(s, b)) = IF b = NotAByte THEN Strays(s) + 1 ELSE Strays(s)
<1> DEFINE u == Append(s, b)
           m == Len(s) + 1
<1>1. /\ Len(u) = Len(s) + 1 /\ Len(s) \in Nat /\ u[m] = b
      /\ \A k \in 1 .. Len(s) : u[k] = s[k]
  BY AppendProperties
<1>2. /\ \A k \in 1 .. Len(u) : k \in 1 .. Len(s) \/ k = m
      /\ \A k \in 1 .. Len(s) : k \in 1 .. Len(u)
      /\ m \in 1 .. Len(u) /\ m \notin 1 .. Len(s)
  BY <1>1
<1> HIDE DEF u, m
<1>3. StrayPlaces(u) = IF b = NotAByte THEN StrayPlaces(s) \cup {m} ELSE StrayPlaces(s)
  BY <1>1, <1>2 DEF StrayPlaces
<1>4. IsFiniteSet(StrayPlaces(s)) /\ m \notin StrayPlaces(s)
  BY <1>2, StrayPlacesFinite DEF StrayPlaces
<1>5. Cardinality(StrayPlaces(s) \cup {m}) = Cardinality(StrayPlaces(s)) + 1
  BY <1>4, FS_AddElement, Zenon
<1> QED
  BY <1>3, <1>5 DEF Strays, u

(* The first byte of the one goes to the end of the other. *)
LEMMA FirstMoves ==
  ASSUME NEW s \in Seq(Nat), NEW t \in Seq(Nat), t # << >>
  PROVE  Append(s, Head(t)) \o Tail(t) = s \o t
<1> DEFINE h == Head(t)
           r == Tail(t)
           a == Append(s, h)
<1>1. h \in Nat /\ r \in Seq(Nat) /\ Len(r) = Len(t) - 1 /\ Len(t) \in Nat /\ Len(t) > 0
      /\ h = t[1] /\ \A k \in 1 .. Len(r) : r[k] = t[k + 1]
  BY HeadTailProperties
<1> HIDE DEF h, r
<1>2. /\ a \in Seq(Nat) /\ Len(a) = Len(s) + 1 /\ a[Len(s) + 1] = h /\ Len(s) \in Nat
      /\ \A k \in 1 .. Len(s) : a[k] = s[k]
  BY <1>1, AppendProperties
<1> HIDE DEF a
<1> DEFINE u == a \o r
           v == s \o t
<1>3. /\ u \in Seq(Nat) /\ Len(u) = Len(a) + Len(r)
      /\ \A k \in 1 .. Len(a) : u[k] = a[k]
      /\ \A k \in 1 .. Len(r) : u[Len(a) + k] = r[k]
      /\ \A k \in 1 .. Len(u) : k \in 1 .. Len(a) \/ \E m \in 1 .. Len(r) : k = Len(a) + m
  <2>1. a \in Seq(Nat) /\ r \in Seq(Nat)
    BY <1>1, <1>2
  <2>2. /\ a \o r \in Seq(Nat) /\ Len(a \o r) = Len(a) + Len(r)
        /\ \A k \in 1 .. Len(a) : (a \o r)[k] = a[k]
        /\ \A k \in 1 .. Len(r) : (a \o r)[Len(a) + k] = r[k]
        /\ \A k \in 1 .. Len(a \o r) :
             k \in 1 .. Len(a) \/ \E m \in 1 .. Len(r) : k = Len(a) + m
    <3>1. a \o r \in Seq(Nat) /\ Len(a \o r) = Len(a) + Len(r)
      BY <2>1, PlacesTogether, Zenon
    <3>2. \A k \in 1 .. Len(a) : (a \o r)[k] = a[k]
      BY <2>1, PlacesTogether, Zenon
    <3>3. \A k \in 1 .. Len(r) : (a \o r)[Len(a) + k] = r[k]
      <4>1. \A x, y \in Seq(Nat) : \A k \in 1 .. Len(y) : (x \o y)[Len(x) + k] = y[k]
        BY PlacesTogether
      <4> QED
        BY <2>1, <4>1, Zenon
    <3>4. \A k \in 1 .. Len(a \o r) :
            k \in 1 .. Len(a) \/ \E m \in 1 .. Len(r) : k = Len(a) + m
      BY <2>1, PlacesTogether, Zenon
    <3> QED
      BY <3>1, <3>2, <3>3, <3>4
  <2> QED
    BY <2>2, Zenon
<1>4. /\ v \in Seq(Nat) /\ Len(v) = Len(s) + Len(t)
      /\ \A k \in 1 .. Len(s) : v[k] = s[k]
      /\ \A k \in 1 .. Len(t) : v[Len(s) + k] = t[k]
  BY PlacesTogether
<1> HIDE DEF u, v
<1>5. Len(u) = Len(v)
  BY <1>1, <1>2, <1>3, <1>4
<1>6. \A k \in 1 .. Len(u) : u[k] = v[k]
  <2> TAKE k \in 1 .. Len(u)
  <2>1. CASE k \in 1 .. Len(s)
    <3>1. k \in 1 .. Len(a)
      BY <1>2, <2>1
    <3> QED
      BY <1>2, <1>3, <1>4, <2>1, <3>1
  <2>2. CASE k = Len(s) + 1
    <3>1. k \in 1 .. Len(a) /\ 1 \in 1 .. Len(t)
      BY <1>1, <1>2, <2>2
    <3>2. u[k] = a[k] /\ v[k] = t[1]
      BY <1>3, <1>4, <2>2, <3>1
    <3> QED
      BY <1>1, <1>2, <2>2, <3>2
  <2>3. CASE k \notin 1 .. Len(a)
    <3>1. PICK m \in 1 .. Len(r) : k = Len(a) + m
      BY <1>3, <2>3
    <3>2. u[k] = r[m] /\ r[m] = t[m + 1]
      BY <1>1, <1>3, <3>1
    <3>3. k = Len(s) + (m + 1) /\ m + 1 \in 1 .. Len(t)
      BY <1>1, <1>2, <3>1
    <3> QED
      BY <1>4, <3>2, <3>3
  <2> QED
    BY <1>2, <2>1, <2>2, <2>3
<1>7. u = v
  BY <1>3, <1>4, <1>5, <1>6, SeqEqual, Zenon
<1> QED
  BY <1>7 DEF u, v, a, h, r

-----------------------------------------------------------------------------
(* The Pi's ring. *)

(* How many bytes there are from slot w to slot r, and where the k-th is.   *)
Fill(r, w) == IF w <= r THEN r - w ELSE r - w + QUEUE_SZ
Place(w, k) == IF w + k - 1 < QUEUE_SZ THEN w + k - 1 ELSE w + k - 1 - QUEUE_SZ

(* The numbers modulo the size of the ring. *)
LEMMA RingNumbers ==
  ASSUME NEW r \in Slot, NEW w \in Slot
  PROVE  /\ (r - w) % QUEUE_SZ = Fill(r, w) /\ Fill(r, w) \in 0 .. QUEUE_SZ - 1
         /\ \A k \in 1 .. QUEUE_SZ :
              (w + k - 1) % QUEUE_SZ = Place(w, k) /\ Place(w, k) \in Slot
<1>1. /\ QUEUE_SZ \in Nat /\ QUEUE_SZ > 0 /\ r \in Nat /\ w \in Nat
      /\ r < QUEUE_SZ /\ w < QUEUE_SZ
  BY Numbers DEF Slot
<1>2. ASSUME NEW x \in Int
      PROVE  /\ x >= 0 /\ x < QUEUE_SZ => x % QUEUE_SZ = x
             /\ x >= QUEUE_SZ /\ x < 2 * QUEUE_SZ => x % QUEUE_SZ = x - QUEUE_SZ
             /\ x < 0 /\ x >= -QUEUE_SZ => x % QUEUE_SZ = x + QUEUE_SZ
  BY <1>1
<1>3. (r - w) % QUEUE_SZ = Fill(r, w) /\ Fill(r, w) \in 0 .. QUEUE_SZ - 1
  BY <1>1, <1>2 DEF Fill
<1>4. ASSUME NEW k \in 1 .. QUEUE_SZ
      PROVE  (w + k - 1) % QUEUE_SZ = Place(w, k) /\ Place(w, k) \in Slot
  <2> DEFINE x == w + k - 1
  <2>1. x \in Int /\ x >= 0 /\ x < 2 * QUEUE_SZ
    BY <1>1
  <2> HIDE DEF x
  <2>2. x % QUEUE_SZ = IF x < QUEUE_SZ THEN x ELSE x - QUEUE_SZ
    BY <1>1, <1>2, <2>1
  <2>3. (IF x < QUEUE_SZ THEN x ELSE x - QUEUE_SZ) \in 0 .. QUEUE_SZ - 1
    BY <1>1, <2>1
  <2>4. Place(w, k) = IF x < QUEUE_SZ THEN x ELSE x - QUEUE_SZ
    BY <1>1 DEF x, Place
  <2>5. x % QUEUE_SZ = Place(w, k) /\ Place(w, k) \in Slot
    BY <2>2, <2>3, <2>4 DEF Slot
  <2> QED
    BY <2>5 DEF x
<1> QED
  BY <1>3, <1>4

(* The bytes in a ring, as InRing has them. *)
RingOf(q, r, w) ==
  [k \in 1 .. (r - w) % QUEUE_SZ |-> q[(w + k - 1) % QUEUE_SZ]]

(* The bytes in the ring, place by place. *)
LEMMA RingBytes ==
  ASSUME NEW q \in [Slot -> Nat], NEW r \in Slot, NEW w \in Slot
  PROVE  /\ \A k \in 1 .. Fill(r, w) : RingOf(q, r, w)[k] = q[Place(w, k)]
         /\ RingOf(q, r, w) \in Seq(Nat) /\ Len(RingOf(q, r, w)) = Fill(r, w)
         /\ RingOf(q, r, w) # << >> <=> w # r
<1> DEFINE n == Fill(r, w)
<1>1. /\ (r - w) % QUEUE_SZ = n /\ n \in 0 .. QUEUE_SZ - 1
      /\ \A k \in 1 .. QUEUE_SZ : (w + k - 1) % QUEUE_SZ = Place(w, k) /\ Place(w, k) \in Slot
  BY RingNumbers
<1>2. n = 0 <=> w = r
  BY Numbers DEF Fill, Slot
<1> HIDE DEF n
<1>3. \A k \in 1 .. n : k \in 1 .. QUEUE_SZ
  BY <1>1, Numbers
<1> DEFINE ring == RingOf(q, r, w)
<1>4. ring = [k \in 1 .. n |-> q[Place(w, k)]]
  BY <1>1, <1>3 DEF RingOf
<1>5. \A k \in 1 .. n : q[Place(w, k)] \in Nat
  BY <1>1, <1>3
<1> HIDE DEF ring
<1>6. ring \in Seq(Nat) /\ Len(ring) = n
  BY <1>1, <1>4, <1>5, Numbers
<1>7. ring # << >> <=> n # 0
  BY <1>1, <1>6, Numbers
<1> QED
  BY <1>2, <1>4, <1>6, <1>7 DEF n, ring

(* A byte stored comes last; when the ring is full but for one slot, the    *)
(* store makes it look empty.                                               *)
LEMMA RingStores ==
  ASSUME NEW q \in [Slot -> Nat], NEW r \in Slot, NEW w \in Slot, NEW b \in Nat
  PROVE  RingOf([q EXCEPT ![r] = b], NextSlot(r), w)
           = IF Len(RingOf(q, r, w)) + 1 < QUEUE_SZ THEN Append(RingOf(q, r, w), b)
                                                    ELSE << >>
<1> DEFINE n    == Fill(r, w)
           s    == NextSlot(r)
           p    == [q EXCEPT ![r] = b]
           ring == RingOf(q, r, w)
           new  == RingOf(p, s, w)
<1>1. /\ QUEUE_SZ \in Nat /\ QUEUE_SZ > 0 /\ r \in Nat /\ w \in Nat
      /\ r < QUEUE_SZ /\ w < QUEUE_SZ
      /\ s \in Slot /\ s = IF r + 1 = QUEUE_SZ THEN 0 ELSE r + 1
  BY Numbers, NextSlotIsSlot DEF Slot
<1>2. /\ \A k \in 1 .. n : ring[k] = q[Place(w, k)]
      /\ ring \in Seq(Nat)
      /\ Len(ring) = n /\ n \in Nat
  BY RingBytes, RingNumbers
<1>3. p \in [Slot -> Nat]
  OBVIOUS
<1> HIDE DEF s, p
<1>4. /\ \A k \in 1 .. Fill(s, w) : new[k] = p[Place(w, k)]
      /\ new \in Seq(Nat) /\ Len(new) = Fill(s, w)
  <2>1. p \in [Slot -> Nat] /\ s \in Slot
    BY <1>1, <1>3
  <2> QED
    BY <2>1, RingBytes
<1>5. /\ n + 1 < QUEUE_SZ => Fill(s, w) = n + 1
      /\ n + 1 >= QUEUE_SZ => Fill(s, w) = 0
      /\ Place(w, n + 1) = r
      /\ \A k \in 1 .. n : Place(w, k) # r /\ Place(w, k) \in Slot
  <2>1. n + 1 < QUEUE_SZ => Fill(s, w) = n + 1
    BY <1>1 DEF Fill
  <2>2. n + 1 >= QUEUE_SZ => Fill(s, w) = 0
    BY <1>1 DEF Fill
  <2>3. Place(w, n + 1) = r
    BY <1>1 DEF Fill, Place
  <2>4. \A k \in 1 .. n : Place(w, k) # r /\ Place(w, k) \in Slot
    BY <1>1 DEF Fill, Place, Slot
  <2> QED
    BY <2>1, <2>2, <2>3, <2>4
<1>6. /\ \A k \in 1 .. n : p[Place(w, k)] = q[Place(w, k)]
      /\ p[Place(w, n + 1)] = b
  BY <1>5 DEF p
<1> HIDE DEF n, ring, new
<1>7. CASE n + 1 < QUEUE_SZ
  <2>1. Len(new) = n + 1 /\ \A k \in 1 .. n + 1 : new[k] = p[Place(w, k)]
    BY <1>4, <1>5, <1>7
  <2> DEFINE a == Append(ring, b)
  <2>2. /\ a \in Seq(Nat) /\ Len(a) = n + 1 /\ a[n + 1] = b
        /\ \A k \in 1 .. n : a[k] = ring[k]
    BY <1>2, AppendProperties
  <2> HIDE DEF a
  <2>3. \A k \in 1 .. n + 1 : new[k] = a[k]
    <3> TAKE k \in 1 .. n + 1
    <3>1. CASE k \in 1 .. n
      <4>1. new[k] = p[Place(w, k)] /\ ring[k] = q[Place(w, k)]
        BY <1>2, <2>1, <3>1
      <4> QED
        BY <1>6, <2>2, <3>1, <4>1
    <3>2. CASE k = n + 1
      <4>1. new[k] = p[Place(w, n + 1)]
        BY <2>1, <3>2
      <4> QED
        BY <1>6, <2>2, <3>2, <4>1
    <3> QED
      BY <1>2, <3>1, <3>2
  <2>4. new = a
    BY <1>4, <2>1, <2>2, <2>3, SeqEqual
  <2> QED
    BY <1>2, <1>7, <2>4 DEF a, new, p, s, ring
<1>8. CASE ~(n + 1 < QUEUE_SZ)
  <2>1. Len(new) = 0
    BY <1>1, <1>2, <1>4, <1>5, <1>8
  <2>2. new = << >>
    BY <1>4, <2>1
  <2> QED
    BY <1>2, <1>8, <2>2 DEF new, p, s, ring
<1> QED
  BY <1>7, <1>8

(* The byte taken is the first. *)
LEMMA RingTakes ==
  ASSUME NEW q \in [Slot -> Nat], NEW r \in Slot, NEW w \in Slot, w # r
  PROVE  /\ RingOf(q, r, w) # << >> /\ q[w] = Head(RingOf(q, r, w))
         /\ RingOf(q, r, NextSlot(w)) = Tail(RingOf(q, r, w))
<1> DEFINE n    == Fill(r, w)
           s    == NextSlot(w)
           ring == RingOf(q, r, w)
           new  == RingOf(q, r, s)
<1>1. /\ QUEUE_SZ \in Nat /\ QUEUE_SZ > 0 /\ r \in Nat /\ w \in Nat
      /\ r < QUEUE_SZ /\ w < QUEUE_SZ
      /\ s \in Slot /\ s = IF w + 1 = QUEUE_SZ THEN 0 ELSE w + 1
  BY Numbers, NextSlotIsSlot DEF Slot
<1>2. /\ \A k \in 1 .. n : ring[k] = q[Place(w, k)]
      /\ ring \in Seq(Nat)
      /\ Len(ring) = n /\ n \in Nat /\ ring # << >>
  BY RingBytes, RingNumbers
<1> HIDE DEF s
<1>3. /\ \A k \in 1 .. Fill(r, s) : new[k] = q[Place(s, k)]
      /\ new \in Seq(Nat) /\ Len(new) = Fill(r, s)
  BY <1>1, RingBytes
<1>4. /\ Fill(r, s) = n - 1 /\ Place(w, 1) = w /\ n > 0
      /\ \A k \in 1 .. n - 1 : Place(s, k) = Place(w, k + 1)
  <2>1. Fill(r, s) = n - 1 /\ n > 0
    BY <1>1 DEF Fill
  <2>2. Place(w, 1) = w
    BY <1>1 DEF Place
  <2>3. \A k \in 1 .. n - 1 : Place(s, k) = Place(w, k + 1)
    BY <1>1 DEF Fill, Place
  <2> QED
    BY <2>1, <2>2, <2>3
<1> HIDE DEF n, ring, new
<1>5. q[w] = Head(ring)
  <2>1. 1 \in 1 .. n
    BY <1>2, <1>4
  <2>2. ring[1] = q[Place(w, 1)]
    BY <1>2, <2>1
  <2> QED
    BY <1>2, <1>4, <2>2
<1>6. new = Tail(ring)
  <2> DEFINE t == Tail(ring)
  <2>1. t \in Seq(Nat) /\ Len(t) = n - 1 /\ \A k \in 1 .. Len(t) : t[k] = ring[k + 1]
    BY <1>2, HeadTailProperties
  <2> HIDE DEF t
  <2>2. Len(new) = n - 1 /\ \A k \in 1 .. n - 1 : new[k] = q[Place(s, k)]
    BY <1>3, <1>4
  <2>3. \A k \in 1 .. n - 1 : new[k] = t[k]
    <3> TAKE k \in 1 .. n - 1
    <3>1. new[k] = q[Place(w, k + 1)]
      BY <1>4, <2>2
    <3>2. k + 1 \in 1 .. n
      BY <1>2
    <3>3. ring[k + 1] = q[Place(w, k + 1)]
      BY <1>2, <3>2
    <3> QED
      BY <2>1, <3>1, <3>3
  <2>4. new = t
    BY <1>3, <2>1, <2>2, <2>3, SeqEqual
  <2> QED
    BY <2>4 DEF t
<1> QED
  BY <1>2, <1>5, <1>6 DEF ring, new, s

-----------------------------------------------------------------------------
(* The numbers of the bytes. *)

(* The bytes before test t, and the last one sent when "sent" are in it.    *)
BytesBefore(starts, t) == SZ * (3 * starts + (IF t = Flush THEN 0 ELSE t - 1))
LastByteOf(starts, t, sent) ==
  BytesBefore(starts, t) + (IF t \in Tests THEN sent ELSE 0)
LastByte == LastByteOf(restarts, test, Sent)

(* A test adds as many bytes as it has, three tests and a restart no fewer. *)
LEMMA BytesCounted ==
  ASSUME NEW starts \in Nat, NEW t \in Flush .. Finished
  PROVE  /\ BytesBefore(starts, t) \in Nat
         /\ BytesBefore(starts, Flush) = BytesBefore(starts, 1)
         /\ t \in Tests => BytesBefore(starts, t + 1) = BytesBefore(starts, t) + SZ
         /\ t \in Tests =>
              BytesBefore(starts + 1, Flush) >= BytesBefore(starts, t) + SZ
         /\ BytesBefore(starts + 1, Flush) >= BytesBefore(starts, t)
<1> DEFINE n == 3 * starts + (IF t = Flush THEN 0 ELSE t - 1)
           m == 3 * (starts + 1)
<1>1. /\ n \in Nat /\ m \in Nat /\ n <= m /\ (t \in Tests => n + 1 <= m)
      /\ SZ \in Nat
  BY Numbers
<1>2. /\ BytesBefore(starts, t) = SZ * n
      /\ BytesBefore(starts + 1, Flush) = SZ * m
      /\ BytesBefore(starts, Flush) = BytesBefore(starts, 1)
      /\ t \in Tests => BytesBefore(starts, t + 1) = SZ * (n + 1)
  <2>1. BytesBefore(starts, t) = SZ * n
    BY DEF BytesBefore
  <2>2. BytesBefore(starts + 1, Flush) = SZ * m
    <3>1. 3 * (starts + 1) + 0 = m
      OBVIOUS
    <3>2. BytesBefore(starts + 1, Flush) = SZ * (3 * (starts + 1) + 0)
      BY DEF BytesBefore
    <3> QED
      BY <3>1, <3>2
  <2>3. BytesBefore(starts, Flush) = BytesBefore(starts, 1)
    <3>1. 1 # Flush /\ 1 - 1 = 0
      BY Numbers
    <3> QED
      BY <3>1 DEF BytesBefore
  <2>4. ASSUME t \in Tests PROVE BytesBefore(starts, t + 1) = SZ * (n + 1)
    <3>1. t \in Nat /\ t # Flush /\ t + 1 # Flush
      BY <2>4, Numbers
    <3>2. 3 * starts + ((t + 1) - 1) = n + 1
      BY <3>1
    <3>3. BytesBefore(starts, t + 1) = SZ * (3 * starts + ((t + 1) - 1))
      BY <3>1 DEF BytesBefore
    <3> QED
      BY <3>2, <3>3
  <2> QED
    BY <2>1, <2>2, <2>3, <2>4
<1> HIDE DEF n, m
<1>3. SZ * n \in Nat /\ SZ * (n + 1) = SZ * n + SZ
  BY <1>1
<1>4. ASSUME NEW x \in Nat, NEW y \in Nat, x <= y PROVE SZ * x <= SZ * y
  BY <1>1, <1>4
<1>5. SZ * n <= SZ * m /\ (t \in Tests => SZ * (n + 1) <= SZ * m) /\ SZ * m \in Nat
  BY <1>1, <1>4
<1> QED
  BY <1>1, <1>2, <1>3, <1>5

(* How many are sent. *)
LEMMA SentTypes ==
  CallOK => /\ Sent \in Nat /\ (test \in Tests => Sent <= SZ)
            /\ LastByte \in Nat
            /\ (test \in Tests => FirstByte + Sent = LastByte + 1)
<1> SUFFICES ASSUME CallOK
             PROVE  /\ Sent \in Nat /\ (test \in Tests => Sent <= SZ)
                    /\ LastByte \in Nat
                    /\ (test \in Tests => FirstByte + Sent = LastByte + 1)
  OBVIOUS
<1>1. /\ i \in 0 .. SZ /\ call.moved \in Nat /\ call.left \in Nat /\ SZ \in Nat
      /\ restarts \in Nat /\ test \in Flush .. Finished
  BY Numbers DEF CallOK, Calls
<1>2. test \in Tests => (call.fifo = "out" => i + call.left + call.moved <= SZ)
  BY DEF CallOK
<1>3. Sent \in Nat /\ (test \in Tests => Sent <= SZ)
  BY <1>1, <1>2 DEF Sent
<1> DEFINE n == BytesBefore(restarts, test)
<1>4. n \in Nat
  BY <1>1, BytesCounted
<1> HIDE DEF n
<1>5. LastByte = n + (IF test \in Tests THEN Sent ELSE 0)
  BY DEF LastByte, LastByteOf, n
<1>6. test \in Tests => FirstByte = 1 + n
  <2> SUFFICES ASSUME test \in Tests PROVE FirstByte = 1 + n
    OBVIOUS
  <2>1. test # Flush /\ test \in Nat
    BY Numbers
  <2>2. n = SZ * (3 * restarts + (test - 1))
    BY <2>1 DEF n, BytesBefore
  <2>3. 3 * restarts + test - 1 = 3 * restarts + (test - 1)
    BY <1>1, <2>1
  <2> QED
    BY <2>2, <2>3, Numbers DEF FirstByte
<1> QED
  BY <1>3, <1>4, <1>5, <1>6

(* The last byte sent, when the CPC goes on. *)
LEMMA LastByteGoes ==
  ASSUME CallOK, CallOK', test # Finished, UNCHANGED restarts,
         NEW bytes, NEW sent \in {Sent, Sent + 1}, Goes(bytes, sent)
  PROVE  /\ LastByte \in Nat /\ LastByte' \in Nat
         /\ test \in Tests => LastByte' = LastByte + (sent - Sent)
         /\ test = Flush => LastByte' = LastByte
<1>1. /\ restarts \in Nat /\ test \in 0 .. 3 /\ test \in Flush .. Finished
      /\ Sent \in Nat /\ sent \in Nat /\ LastByte \in Nat
  BY SentTypes, Numbers DEF CallOK
<1>2. LastByte' = LastByteOf(restarts, test', Sent')
  BY DEF LastByte
<1>3. CASE test' = test /\ (test \in Tests => Sent' = sent)
  <2>1. CASE test \in Tests
    <3>1. LastByte' = BytesBefore(restarts, test) + sent
          /\ LastByte = BytesBefore(restarts, test) + Sent
      BY <1>2, <1>3, <2>1 DEF LastByteOf, LastByte
    <3> DEFINE n == BytesBefore(restarts, test)
    <3>2. n \in Nat
      BY <1>1, BytesCounted
    <3> HIDE DEF n
    <3>3. n + sent = n + Sent + (sent - Sent) /\ n + sent \in Nat
      BY <1>1, <3>2
    <3> QED
      BY <1>1, <2>1, <3>1, <3>3, Numbers DEF n
  <2>2. CASE test \notin Tests
    <3>1. LastByte' = LastByte
      BY <1>2, <1>3, <2>2 DEF LastByteOf, LastByte
    <3> QED
      BY <1>1, <2>2, <3>1
  <2> QED
    BY <2>1, <2>2
<1>4. CASE /\ test' = test + 1
           /\ test \in Tests => sent = SZ
           /\ test' \in Tests => Sent' = 0
  <2>1. LastByte' = BytesBefore(restarts, test + 1) + 0
    BY <1>2, <1>4 DEF LastByteOf
  <2>2. CASE test \in Tests
    <3> DEFINE n == BytesBefore(restarts, test)
    <3>1. n \in Nat /\ BytesBefore(restarts, test + 1) = n + SZ
      BY <1>1, <2>2, BytesCounted
    <3>2. LastByte = n + Sent
      BY <2>2 DEF LastByteOf, LastByte
    <3> HIDE DEF n
    <3>3. n + SZ + 0 = n + Sent + (sent - Sent) /\ n + SZ + 0 \in Nat /\ sent = SZ
      BY <1>1, <1>4, <2>2, <3>1, Numbers
    <3> QED
      BY <1>1, <2>1, <2>2, <3>1, <3>2, <3>3, Numbers
  <2>3. CASE test = Flush
    <3>1. test + 1 = 1 /\ test \notin Tests
      BY <2>3, Numbers
    <3>2. BytesBefore(restarts, 1) = BytesBefore(restarts, Flush)
          /\ BytesBefore(restarts, Flush) \in Nat
      BY <1>1, <2>3, BytesCounted
    <3>3. LastByte = BytesBefore(restarts, Flush) + 0
      BY <2>3, <3>1 DEF LastByteOf, LastByte
    <3>4. LastByte' = LastByte
      BY <2>1, <3>1, <3>2, <3>3
    <3> QED
      BY <1>1, <3>1, <3>4
  <2> QED
    BY <1>1, <2>2, <2>3, Numbers
<1> QED
  BY <1>3, <1>4 DEF Goes

(* A restart skips the numbers of the bytes not sent. *)
LEMMA LastByteSkips ==
  ASSUME CallOK, Restart
  PROVE  LastByte \in Nat /\ LastByte' \in Nat /\ LastByte' >= LastByte
<1>1. test' = Flush /\ restarts' = restarts + 1
  BY RestartGoes
<1>2. /\ restarts \in Nat /\ test \in Flush .. Finished /\ Sent \in Nat
      /\ (test \in Tests => Sent <= SZ) /\ LastByte \in Nat
  BY SentTypes DEF CallOK
<1> DEFINE n == BytesBefore(restarts, test)
           m == BytesBefore(restarts + 1, Flush)
<1>3. n \in Nat /\ m \in Nat /\ m >= n /\ (test \in Tests => m >= n + SZ)
  <2>1. restarts + 1 \in Nat /\ Flush \in Flush .. Finished
    BY <1>2, Numbers
  <2>2. m \in Nat
    BY <2>1, BytesCounted
  <2> QED
    BY <1>2, <2>2, BytesCounted
<1>4. LastByte' = m + 0
  BY <1>1, Numbers DEF LastByte, LastByteOf
<1>5. LastByte = n + (IF test \in Tests THEN Sent ELSE 0)
  BY DEF LastByte, LastByteOf
<1> HIDE DEF n, m
<1> QED
  BY <1>2, <1>3, <1>4, <1>5, Numbers

-----------------------------------------------------------------------------
(* What the steps do to the bytes on their way. *)

(* The bytes that the Pi has taken up. *)
Behind == rx \o down \o InRing

(* All of them are sequences of bytes. *)
LEMMA SeqTypes ==
  CallOK /\ PiOK =>
    /\ rx \in Seq(Nat) /\ down \in Seq(Nat) /\ InRing \in Seq(Nat) /\ up \in Seq(Nat)
    /\ up \in Seq(Byte) /\ pin \in Nat
    /\ rx \o down \in Seq(Nat) /\ Behind \in Seq(Nat) /\ OnTheirWay \in Seq(Nat)
    /\ OnTheirWay = Behind \o up
<1> SUFFICES ASSUME CallOK, PiOK
             PROVE  /\ rx \in Seq(Nat) /\ down \in Seq(Nat) /\ InRing \in Seq(Nat)
                    /\ up \in Seq(Nat) /\ up \in Seq(Byte) /\ pin \in Nat
                    /\ rx \o down \in Seq(Nat) /\ Behind \in Seq(Nat)
                    /\ OnTheirWay \in Seq(Nat)
                    /\ OnTheirWay = Behind \o up
  OBVIOUS
<1>1. rx \in Seq(Nat) /\ down \in Seq(Nat) /\ up \in Seq(Nat) /\ up \in Seq(Byte)
      /\ pin \in Nat
  BY DEF CallOK, PiOK, Byte
<1>2. InRing \in Seq(Nat)
  <2>1. InRing = RingOf(queue, rptr, wptr)
    BY DEF InRing, RingOf
  <2> QED
    BY <2>1, RingBytes DEF PiOK
<1>3. rx \o down \in Seq(Nat)
  BY <1>1, ConcatProperties
<1>4. Behind \in Seq(Nat)
  BY <1>2, <1>3, ConcatProperties DEF Behind
<1>5. OnTheirWay = Behind \o up
  BY DEF OnTheirWay, Behind
<1>6. OnTheirWay \in Seq(Nat)
  BY <1>1, <1>4, <1>5, ConcatProperties
<1> QED
  BY <1>1, <1>2, <1>3, <1>4, <1>5, <1>6

(* The same of the next state. *)
LEMMA NextSeqTypes ==
  CallOK' /\ PiOK' =>
    /\ Behind' \in Seq(Nat) /\ up' \in Seq(Nat) /\ up' \in Seq(Byte)
    /\ InRing' \in Seq(Nat)
    /\ OnTheirWay' = Behind' \o up' /\ OnTheirWay' \in Seq(Nat)
<1> DEFINE Typed == /\ Behind \in Seq(Nat) /\ up \in Seq(Nat) /\ up \in Seq(Byte)
                    /\ InRing \in Seq(Nat)
                    /\ OnTheirWay = Behind \o up /\ OnTheirWay \in Seq(Nat)
<1>1. CallOK /\ PiOK => Typed
  BY SeqTypes
<1> HIDE DEF Typed
<1>2. CallOK' /\ PiOK' => Typed'
  BY <1>1, PTL
<1> QED
  BY <1>2 DEF Typed

(* A byte that comes last of the second comes last of the two. *)
LEMMA LastTogether ==
  ASSUME NEW s \in Seq(Nat), NEW t \in Seq(Nat), NEW b \in Nat
  PROVE  s \o Append(t, b) = Append(s \o t, b)
<1>1. <<b>> \in Seq(Nat) /\ s \o t \in Seq(Nat)
  BY ConcatProperties
<1>2. Append(t, b) = t \o <<b>> /\ Append(s \o t, b) = (s \o t) \o <<b>>
  BY <1>1, AppendIsConcat
<1> QED
  BY <1>1, <1>2, ConcatAssociative

(* The CPC takes bytes in and away, and sends the next. *)
LEMMA CpcMoves ==
  ASSUME CallOK, PiOK, Cpc \/ Restart
  PROVE  /\ CallOK' /\ PiOK' /\ UNCHANGED piVars
         /\ PartOf(Behind', Behind)
         /\ LastByte \in Nat /\ LastByte' \in Nat /\ LastByte' >= LastByte
         /\ \/ up' = up \/ up' = << >>
            \/ /\ up' = Append(up, LastByte + 1) /\ LastByte + 1 \in Byte
               /\ LastByte' >= LastByte + 1
         /\ \/ Restart /\ restarts' = restarts + 1
            \/ UNCHANGED restarts /\ (up' # up => Len(up') > Len(up))
<1>0. /\ rx \in Seq(Nat) /\ down \in Seq(Nat) /\ InRing \in Seq(Nat)
      /\ rx \o down \in Seq(Nat) /\ Behind \in Seq(Nat) /\ up \in Seq(Nat)
  BY SeqTypes
<1>1. /\ PartOf(rx, rx) /\ PartOf(down, down) /\ PartOf(InRing, InRing)
      /\ PartOf(Behind, Behind) /\ PartOf(<< >>, rx) /\ PartOf(<< >>, down)
      /\ << >> \in Seq(Nat)
  BY <1>0, SimpleParts
<1>2. ASSUME UNCHANGED piVars PROVE InRing' = InRing
  BY <1>2 DEF piVars, InRing
<1>3. ASSUME NEW r \in Seq(Nat), NEW d \in Seq(Nat), PartOf(r, rx), PartOf(d, down)
      PROVE  PartOf((r \o d) \o InRing, Behind)
  <2>1. PartOf(r \o d, rx \o down) /\ r \o d \in Seq(Nat)
    BY <1>0, <1>3, PartsTogether, ConcatProperties
  <2>2. PartOf((r \o d) \o InRing, (rx \o down) \o InRing)
    BY <1>0, <1>1, <2>1, PartsTogether
  <2> QED
    BY <2>2 DEF Behind
<1>4. Behind' = (rx' \o down') \o InRing'
  BY DEF Behind
<1>5. test # Finished => test \in Tests \/ test = Flush
  BY Numbers DEF CallOK
<1>6. Sent \in Nat /\ LastByte \in Nat
      /\ (test \in Tests => FirstByte + Sent = LastByte + 1)
  BY SentTypes
<1>7. CASE LookAtStatus
  <2>1. CallOK' /\ test # Finished /\ Goes(rx, Sent) /\ UNCHANGED <<up, down, restarts>>
    BY <1>7, LookGoes
  <2>2. UNCHANGED piVars /\ PiOK'
    BY <1>7, CpcKeepsPi DEF LookAtStatus, Cpc
  <2>3. rx' \in {rx, << >>}
    BY <2>1 DEF Goes
  <2>4. PartOf(Behind', Behind)
    BY <1>0, <1>1, <1>2, <1>3, <1>4, <2>1, <2>2, <2>3
  <2>5. LastByte' = LastByte
    <3>1. /\ test \in Tests => LastByte' = LastByte + (Sent - Sent)
          /\ test = Flush => LastByte' = LastByte
      BY <2>1, LastByteGoes
    <3> QED
      BY <1>5, <1>6, <2>1, <3>1
  <2> QED
    BY <1>6, <2>1, <2>2, <2>4, <2>5
<1>8. CASE WriteData
  <2>1. /\ CallOK' /\ test \in Tests /\ Goes(rx, Sent + 1)
        /\ up' = Append(up, FirstByte + Sent) /\ FirstByte + Sent \in Byte
        /\ UNCHANGED <<down, restarts, piVars>>
    BY <1>8, WriteGoes
  <2>2. PiOK'
    BY <1>8, CpcKeepsPi DEF Cpc
  <2>3. rx' \in {rx, << >>}
    BY <2>1 DEF Goes
  <2>4. PartOf(Behind', Behind)
    BY <1>0, <1>1, <1>2, <1>3, <1>4, <2>1, <2>3
  <2>5. LastByte' = LastByte + 1
    <3>1. LastByte' = LastByte + ((Sent + 1) - Sent)
      BY <2>1, LastByteGoes, Numbers
    <3> QED
      BY <1>6, <3>1
  <2>6. up' = Append(up, LastByte + 1) /\ LastByte + 1 \in Byte
    BY <1>6, <2>1
  <2>7. Len(up') > Len(up)
    BY <1>0, <1>6, <2>6
  <2> QED
    BY <1>6, <2>1, <2>2, <2>4, <2>5, <2>6, <2>7
<1>9. CASE ReadData
  <2>1. /\ CallOK' /\ test # Finished /\ down # << >>
        /\ Goes(IF test = Flush THEN rx ELSE Append(rx, Head(down)), Sent)
        /\ test = Flush => rx = << >>
        /\ down' = Tail(down) /\ UNCHANGED <<up, restarts, piVars>>
    BY <1>9, ReadGoes
  <2>2. PiOK'
    BY <1>9, CpcKeepsPi DEF Cpc
  <2>3. PartOf(Behind', Behind)
    <3>1. CASE rx' = Append(rx, Head(down))
      <4>1. Append(rx, Head(down)) \o Tail(down) = rx \o down
        BY <1>0, <2>1, FirstMoves
      <4>2. Behind' = Behind
        BY <1>2, <1>4, <2>1, <3>1, <4>1 DEF Behind
      <4> QED
        BY <1>1, <4>2
    <3>2. CASE rx' \in {rx, << >>}
      <4>1. PartOf(Tail(down), down) /\ Tail(down) \in Seq(Nat)
        BY <1>0, <2>1, SimpleParts
      <4> QED
        BY <1>0, <1>1, <1>2, <1>3, <1>4, <2>1, <3>2, <4>1
    <3> QED
      BY <2>1, <3>1, <3>2 DEF Goes
  <2>4. LastByte' = LastByte
    <3>1. /\ test \in Tests => LastByte' = LastByte + (Sent - Sent)
          /\ test = Flush => LastByte' = LastByte
      BY <2>1, LastByteGoes
    <3> QED
      BY <1>5, <1>6, <2>1, <3>1
  <2> QED
    BY <1>6, <2>1, <2>2, <2>3, <2>4
<1>10. CASE Restart
  <2>1. /\ CallOK' /\ rx' = << >> /\ up' = << >> /\ down' = << >>
        /\ restarts' = restarts + 1 /\ UNCHANGED piVars
    BY <1>10, RestartGoes
  <2>2. PiOK'
    BY <1>10, CpcKeepsPi
  <2>3. PartOf(Behind', Behind)
    BY <1>1, <1>2, <1>3, <1>4, <2>1
  <2>4. LastByte' \in Nat /\ LastByte' >= LastByte
    BY <1>10, LastByteSkips
  <2> QED
    BY <1>6, <1>10, <2>1, <2>2, <2>3, <2>4
<1> QED
  BY <1>7, <1>8, <1>9, <1>10 DEF Cpc

(* The Pi keeps them as they are, but for the byte it stores. *)
LEMMA PiMoves ==
  ASSUME CallOK, PiOK, Pi
  PROVE  /\ CallOK' /\ PiOK' /\ UNCHANGED cpcVars /\ LastByte' = LastByte
         /\ \/ /\ LookAtDor \/ LookAtDir \/ SamplePins \/ WriteFifoByte
               /\ up' = up /\ Behind' = Behind
            \/ /\ PulseAndStore
               /\ up' = IF up = << >> THEN << >> ELSE Tail(up)
               /\ \/ Behind' = Append(Behind, pin)
                  \/ PartOf(Behind', Behind) /\ Len(InRing) + 1 >= QUEUE_SZ
<1>0. /\ rx \in Seq(Nat) /\ down \in Seq(Nat) /\ InRing \in Seq(Nat) /\ pin \in Nat
      /\ rx \o down \in Seq(Nat) /\ Behind \in Seq(Nat) /\ up \in Seq(Nat)
  BY SeqTypes
<1>1. ASSUME UNCHANGED cpcVars PROVE LastByte' = LastByte
  BY <1>1 DEF cpcVars, LastByte, Sent
<1>2. Behind' = (rx' \o down') \o InRing'
  BY DEF Behind
<1>3. /\ InRing = RingOf(queue, rptr, wptr) /\ InRing' = RingOf(queue', rptr', wptr')
      /\ queue \in [Slot -> Nat] /\ rptr \in Slot /\ wptr \in Slot
  BY DEF PiOK, InRing, RingOf
<1>4. CASE LookAtDor \/ LookAtDir
  <2>1. CallOK' /\ PiOK' /\ UNCHANGED <<up, down, cpcVars, queue, rptr, wptr>>
    BY <1>4, LooksKeepPi DEF cardVars
  <2>2. Behind' = Behind
    BY <1>2, <1>3, <2>1 DEF Behind, cpcVars
  <2> QED
    BY <1>1, <1>4, <2>1, <2>2
<1>5. CASE SamplePins
  <2>1. CallOK' /\ PiOK' /\ UNCHANGED <<up, down, cpcVars, queue, rptr, wptr>>
    BY <1>5, SampleGoes DEF cardVars
  <2>2. Behind' = Behind
    BY <1>2, <1>3, <2>1 DEF Behind, cpcVars
  <2> QED
    BY <1>1, <1>5, <2>1, <2>2
<1>6. CASE WriteFifoByte
  <2>1. /\ CallOK' /\ PiOK' /\ UNCHANGED <<up, cpcVars, queue, rptr, pin>> /\ wptr # rptr
        /\ down' = Append(down, queue[wptr]) /\ wptr' = NextSlot(wptr)
    BY <1>6, TakeGoes
  <2>2. InRing # << >> /\ queue[wptr] = Head(InRing) /\ InRing' = Tail(InRing)
    BY <1>3, <2>1, RingTakes
  <2>3. Head(InRing) \in Nat
    BY <1>0, <2>2, HeadTailProperties
  <2>4. rx \o Append(down, Head(InRing)) = Append(rx \o down, Head(InRing))
    BY <1>0, <2>3, LastTogether
  <2>5. Append(rx \o down, Head(InRing)) \o Tail(InRing) = (rx \o down) \o InRing
    BY <1>0, <2>2, FirstMoves
  <2>6. Behind' = Behind
    BY <1>2, <2>1, <2>2, <2>4, <2>5 DEF Behind, cpcVars
  <2> QED
    BY <1>1, <1>6, <2>1, <2>6
<1>7. CASE PulseAndStore
  <2>1. /\ CallOK' /\ PiOK' /\ UNCHANGED <<down, cpcVars, wptr, pin>>
        /\ up' = IF up = << >> THEN << >> ELSE Tail(up)
        /\ queue' = [queue EXCEPT ![rptr] = pin] /\ rptr' = NextSlot(rptr)
    BY <1>7, StoreGoes
  <2>2. InRing' = IF Len(InRing) + 1 < QUEUE_SZ THEN Append(InRing, pin) ELSE << >>
    BY <1>0, <1>3, <2>1, RingStores
  <2>3. Behind' = (rx \o down) \o InRing'
    BY <1>2, <2>1 DEF cpcVars
  <2>4. CASE Len(InRing) + 1 < QUEUE_SZ
    <3>1. Behind' = Append(Behind, pin)
      BY <1>0, <2>2, <2>3, <2>4, LastTogether DEF Behind
    <3> QED
      BY <1>1, <1>7, <2>1, <3>1
  <2>5. CASE ~(Len(InRing) + 1 < QUEUE_SZ)
    <3> DEFINE s == rx \o down
    <3>1. PartOf(s, s) /\ PartOf(<< >>, InRing) /\ << >> \in Seq(Nat)
      <4>1. s \in Seq(Nat) /\ InRing \in Seq(Nat)
        BY <1>0
      <4> HIDE DEF s
      <4> QED
        BY <4>1, SimpleParts
    <3>2. PartOf((rx \o down) \o << >>, (rx \o down) \o InRing)
      BY <1>0, <3>1, PartsTogether
    <3>3. PartOf(Behind', Behind)
      BY <2>2, <2>3, <2>5, <3>2 DEF Behind
    <3>4. Len(InRing) + 1 >= QUEUE_SZ
      BY <1>0, <2>5, Numbers
    <3> QED
      BY <1>1, <1>7, <2>1, <3>3, <3>4
  <2> QED
    BY <2>4, <2>5
<1> QED
  BY <1>4, <1>5, <1>6, <1>7 DEF Pi

-----------------------------------------------------------------------------
(* The order of the bytes. *)

(* The bytes on their way rise, up to the last one sent.  A byte sampled    *)
(* and not yet stored comes between those behind and those still in the     *)
(* FIFO, whose first it is unless a reset has emptied the FIFO since.       *)
Order ==
  /\ Ordered(OnTheirWay) /\ Upto(OnTheirWay, LastByte)
  /\ pc = "pulse" /\ pin # NotAByte =>
       /\ pin <= LastByte /\ Upto(Behind, pin - 1)
       /\ \A k \in 1 .. Len(up) : IF k = 1 THEN pin <= up[k] ELSE pin < up[k]

(* The CPC's steps keep the order. *)
LEMMA CpcKeepsOrder ==
  ASSUME CallOK, PiOK, Order, Cpc \/ Restart
  PROVE  Order'
<1>1. /\ Behind \in Seq(Nat) /\ up \in Seq(Nat) /\ up \in Seq(Byte) /\ pin \in Nat
      /\ OnTheirWay = Behind \o up /\ OnTheirWay \in Seq(Nat)
  BY SeqTypes
<1>2. /\ CallOK' /\ PiOK' /\ UNCHANGED piVars
      /\ PartOf(Behind', Behind)
      /\ LastByte \in Nat /\ LastByte' \in Nat /\ LastByte' >= LastByte
      /\ \/ up' = up \/ up' = << >>
         \/ /\ up' = Append(up, LastByte + 1) /\ LastByte + 1 \in Byte
            /\ LastByte' >= LastByte + 1
  BY CpcMoves
<1>3. /\ Behind' \in Seq(Nat) /\ up' \in Seq(Nat) /\ OnTheirWay' = Behind' \o up'
      /\ OnTheirWay' \in Seq(Nat)
  BY <1>2, NextSeqTypes
<1>4. Ordered(OnTheirWay) /\ Upto(OnTheirWay, LastByte)
  BY DEF Order
<1>5. pc = "pulse" /\ pin # NotAByte =>
        pin <= LastByte' /\ Upto(Behind', pin - 1) /\ pin - 1 \in Nat /\ pin <= LastByte
  <2> SUFFICES ASSUME pc = "pulse", pin # NotAByte
               PROVE  /\ pin <= LastByte' /\ Upto(Behind', pin - 1)
                      /\ pin - 1 \in Nat /\ pin <= LastByte
    OBVIOUS
  <2>1. pin <= LastByte /\ Upto(Behind, pin - 1)
    BY DEF Order
  <2>2. pin - 1 \in Nat
    BY <1>1 DEF NotAByte
  <2>3. Upto(Behind', pin - 1)
    BY <1>1, <1>2, <1>3, <2>1, <2>2, PartIsOrdered
  <2> QED
    BY <1>1, <1>2, <2>1, <2>2, <2>3
<1>6. pc' = pc /\ pin' = pin
  BY <1>2 DEF piVars
<1>7. CASE up' = up \/ up' = << >>
  <2>1. PartOf(up', up)
    BY <1>1, <1>7, SimpleParts
  <2>2. PartOf(OnTheirWay', OnTheirWay)
    BY <1>1, <1>2, <1>3, <2>1, PartsTogether
  <2>3. Ordered(OnTheirWay') /\ Upto(OnTheirWay', LastByte)
    BY <1>1, <1>2, <1>3, <1>4, <2>2, PartIsOrdered
  <2>4. Upto(OnTheirWay', LastByte')
    <3>1. \A k \in 1 .. Len(OnTheirWay') : OnTheirWay'[k] \in Nat
      BY <1>3
    <3> QED
      BY <1>2, <2>3, <3>1 DEF Upto
  <2>5. pc = "pulse" /\ pin # NotAByte =>
          \A k \in 1 .. Len(up') : IF k = 1 THEN pin <= up'[k] ELSE pin < up'[k]
    BY <1>7 DEF Order
  <2> QED
    BY <1>5, <1>6, <2>3, <2>4, <2>5 DEF Order
<1>8. CASE /\ up' = Append(up, LastByte + 1) /\ LastByte + 1 \in Byte
           /\ LastByte' >= LastByte + 1
  <2> DEFINE b == LastByte + 1
             u == Append(OnTheirWay, b)
  <2>1. b \in Nat /\ b - 1 = LastByte /\ b <= LastByte' /\ b # NotAByte /\ up' = Append(up, b)
    BY <1>2, <1>8 DEF NotAByte
  <2>2. Behind \o up' = u
    BY <1>1, <2>1, LastTogether
  <2> HIDE DEF b
  <2>3. u \in Seq(Nat)
    BY <1>1, <2>1, AppendProperties
  <2>4. Ordered(u) /\ Upto(u, LastByte')
    <3>1. /\ Ordered(u)
          /\ \A n \in Nat : Upto(OnTheirWay, n) /\ b <= n => Upto(u, n)
      <4>1. Upto(OnTheirWay, b - 1)
        BY <1>4, <2>1
      <4> QED
        BY <1>1, <1>4, <2>1, <4>1, OrderedAppend
    <3>2. Upto(OnTheirWay, LastByte')
      <4>1. \A k \in 1 .. Len(OnTheirWay) : OnTheirWay[k] \in Nat
        BY <1>1
      <4> QED
        BY <1>2, <1>4, <4>1 DEF Upto
    <3> QED
      BY <1>2, <2>1, <3>1, <3>2
  <2> HIDE DEF u
  <2>5. PartOf(OnTheirWay', u)
    <3>1. PartOf(up', up')
      BY <1>3, SimpleParts
    <3>2. PartOf(Behind' \o up', Behind \o up')
      BY <1>1, <1>2, <1>3, <3>1, PartsTogether
    <3> QED
      BY <1>3, <2>2, <3>2
  <2>6. Ordered(OnTheirWay') /\ Upto(OnTheirWay', LastByte')
    BY <1>2, <1>3, <2>3, <2>4, <2>5, PartIsOrdered
  <2>7. pc = "pulse" /\ pin # NotAByte =>
          \A k \in 1 .. Len(up') : IF k = 1 THEN pin <= up'[k] ELSE pin < up'[k]
    <3> SUFFICES ASSUME pc = "pulse", pin # NotAByte, NEW k \in 1 .. Len(up')
                 PROVE  IF k = 1 THEN pin <= up'[k] ELSE pin < up'[k]
      OBVIOUS
    <3>1. k \in 1 .. Len(up) \/ up'[k] = b
      BY <1>1, <2>1
    <3>2. CASE k \in 1 .. Len(up)
      <4>1. up'[k] = up[k]
        BY <1>1, <2>1, <3>2
      <4> QED
        BY <3>2, <4>1 DEF Order
    <3>3. CASE up'[k] = b
      <4>1. pin < b
        BY <1>1, <1>2, <1>5, <2>1
      <4> QED
        BY <1>1, <2>1, <3>3, <4>1
    <3> QED
      BY <3>1, <3>2, <3>3
  <2> QED
    BY <1>5, <1>6, <2>6, <2>7 DEF Order
<1> QED
  BY <1>2, <1>7, <1>8

(* The Pi's steps keep the order. *)
LEMMA PiKeepsOrder ==
  ASSUME CallOK, PiOK, Order, Pi
  PROVE  Order'
<1>1. /\ Behind \in Seq(Nat) /\ up \in Seq(Nat) /\ up \in Seq(Byte) /\ pin \in Nat
      /\ OnTheirWay = Behind \o up /\ OnTheirWay \in Seq(Nat) /\ LastByte \in Nat
  BY SeqTypes, SentTypes
<1>2. /\ CallOK' /\ PiOK' /\ UNCHANGED cpcVars /\ LastByte' = LastByte
      /\ \/ /\ LookAtDor \/ LookAtDir \/ SamplePins \/ WriteFifoByte
            /\ up' = up /\ Behind' = Behind
         \/ /\ PulseAndStore
            /\ up' = IF up = << >> THEN << >> ELSE Tail(up)
            /\ Behind' = Append(Behind, pin) \/ PartOf(Behind', Behind)
  BY PiMoves
<1>3. /\ Behind' \in Seq(Nat) /\ up' \in Seq(Nat) /\ OnTheirWay' = Behind' \o up'
      /\ OnTheirWay' \in Seq(Nat)
  BY <1>2, NextSeqTypes
<1>4. /\ Ordered(OnTheirWay) /\ Upto(OnTheirWay, LastByte)
      /\ Ordered(Behind) /\ Ordered(up) /\ Before(Behind, up)
      /\ Upto(Behind, LastByte) /\ Upto(up, LastByte)
  BY <1>1, OrderedTogether DEF Order
<1>5. CASE LookAtDor \/ LookAtDir \/ WriteFifoByte
  <2>1. Behind' = Behind /\ up' = up /\ OnTheirWay' = OnTheirWay
    BY <1>1, <1>2, <1>3, <1>5 DEF PulseAndStore, LookAtDor, LookAtDir, WriteFifoByte
  <2>2. pc' # "pulse"
    BY <1>5 DEF LookAtDor, LookAtDir, WriteFifoByte
  <2> QED
    BY <1>2, <1>4, <2>1, <2>2 DEF Order
<1>6. CASE SamplePins
  <2>1. /\ Behind' = Behind /\ up' = up /\ OnTheirWay' = OnTheirWay /\ pc' = "pulse"
        /\ pin' = IF up = << >> THEN NotAByte ELSE Head(up)
    <3>1. pc = "sample" /\ pc' = "pulse"
          /\ pin' = IF up = << >> THEN NotAByte ELSE Head(up)
      BY <1>6, SampleGoes
    <3> QED
      BY <1>1, <1>2, <1>3, <3>1 DEF PulseAndStore
  <2>2. ASSUME pin' # NotAByte
        PROVE  /\ pin' <= LastByte /\ Upto(Behind, pin' - 1)
               /\ \A k \in 1 .. Len(up) : IF k = 1 THEN pin' <= up[k] ELSE pin' < up[k]
    <3>1. up # << >> /\ pin' = up[1] /\ 1 \in 1 .. Len(up) /\ Len(up) \in Nat
      BY <1>1, <2>1, <2>2
    <3>2. pin' \in Nat /\ pin' > 0 /\ NotAByte = 0
      BY <1>1, <2>2, <3>1 DEF NotAByte
    <3>3. pin' <= LastByte
      BY <1>4, <3>1 DEF Upto
    <3>4. ASSUME NEW k \in 1 .. Len(Behind) PROVE Behind[k] <= pin' - 1
      <4>1. Behind[k] \in Nat
        BY <1>1
      <4>2. Behind[k] # NotAByte => Behind[k] < pin'
        BY <1>4, <2>2, <3>1 DEF Before
      <4> QED
        BY <3>2, <4>1, <4>2
    <3>5. ASSUME NEW k \in 1 .. Len(up) PROVE IF k = 1 THEN pin' <= up[k] ELSE pin' < up[k]
      <4>1. up[k] \in Nat /\ up[k] # NotAByte
        BY <1>1 DEF Byte
      <4>2. k # 1 => 1 < k
        BY <3>1
      <4>3. k # 1 => pin' < up[k]
        BY <1>4, <2>2, <3>1, <4>1, <4>2 DEF Ordered
      <4> QED
        BY <3>1, <3>2, <4>3
    <3> QED
      BY <3>3, <3>4, <3>5 DEF Upto
  <2> QED
    BY <1>2, <1>4, <2>1, <2>2 DEF Order
<1>7. CASE PulseAndStore
  <2>1. /\ pc = "pulse" /\ pc' = "dir"
        /\ up' = IF up = << >> THEN << >> ELSE Tail(up)
        /\ Behind' = Append(Behind, pin) \/ PartOf(Behind', Behind)
    <3>1. pc = "pulse" /\ pc' = "dir"
      BY <1>7, StoreGoes
    <3> QED
      BY <1>2, <3>1 DEF LookAtDor, LookAtDir, SamplePins, WriteFifoByte
  <2>2. PartOf(up', up)
    BY <1>1, <2>1, SimpleParts
  <2>3. Ordered(OnTheirWay') /\ Upto(OnTheirWay', LastByte)
    <3>1. CASE PartOf(Behind', Behind)
      <4>1. PartOf(OnTheirWay', OnTheirWay)
        BY <1>1, <1>3, <2>2, <3>1, PartsTogether
      <4> QED
        BY <1>1, <1>3, <1>4, <4>1, PartIsOrdered
    <3>2. CASE Behind' = Append(Behind, pin)
      <4>1. pin = NotAByte \/ Upto(Behind, pin - 1)
        BY <2>1 DEF Order
      <4>2. pin <= LastByte
        BY <1>1, <2>1 DEF Order, NotAByte
      <4>3. /\ Ordered(Behind') /\ Upto(Behind', LastByte)
            /\ Before(Behind, up') /\ (pin # NotAByte => \A k \in 1 .. Len(up') : pin < up'[k])
                 => Before(Behind', up')
        BY <1>1, <1>3, <1>4, <3>2, <4>1, <4>2, OrderedAppend
      <4>4. Before(Behind, up')
        <5>1. PICK f : PartBy(up', up, f)
          BY <2>2 DEF PartOf
        <5> QED
          BY <1>4, <5>1 DEF PartBy, Before
      <4>5. pin # NotAByte => \A k \in 1 .. Len(up') : pin < up'[k]
        <5> SUFFICES ASSUME pin # NotAByte, NEW k \in 1 .. Len(up') PROVE pin < up'[k]
          OBVIOUS
        <5>1. up # << >> /\ up' = Tail(up)
          BY <2>1
        <5>2. up'[k] = up[k + 1] /\ k + 1 \in 1 .. Len(up) /\ k + 1 # 1
          BY <1>1, <5>1, HeadTailProperties
        <5>3. IF k + 1 = 1 THEN pin <= up[k + 1] ELSE pin < up[k + 1]
          BY <2>1, <5>2 DEF Order
        <5> QED
          BY <5>2, <5>3
      <4>6. Ordered(up') /\ Upto(up', LastByte)
        BY <1>1, <1>3, <1>4, <2>2, PartIsOrdered
      <4> QED
        BY <1>1, <1>3, <4>3, <4>4, <4>5, <4>6, OrderedTogether
    <3> QED
      BY <2>1, <3>1, <3>2
  <2> QED
    BY <1>2, <2>1, <2>3 DEF Order
<1> QED
  BY <1>5, <1>6, <1>7 DEF Pi

(* Nothing is on its way at first. *)
LEMMA InitMoves ==
  Init => /\ rx = << >> /\ down = << >> /\ InRing = << >> /\ up = << >>
          /\ Behind = << >> /\ OnTheirWay = << >> /\ pc = "dor" /\ restarts = 0
<1> SUFFICES ASSUME Init
             PROVE  /\ rx = << >> /\ down = << >> /\ InRing = << >> /\ up = << >>
                    /\ Behind = << >> /\ OnTheirWay = << >> /\ pc = "dor"
                    /\ restarts = 0
  OBVIOUS
<1>1. rx = << >> /\ down = << >> /\ up = << >> /\ pc = "dor" /\ restarts = 0
      /\ rptr = 0 /\ wptr = 0
  BY DEF Init
<1>2. InRing = << >>
  <2>1. CallOK /\ PiOK
    BY InitTypes
  <2>2. InRing = RingOf(queue, rptr, wptr) /\ queue \in [Slot -> Nat]
        /\ rptr \in Slot /\ wptr \in Slot
    BY <2>1 DEF PiOK, InRing, RingOf
  <2>3. InRing # << >> <=> wptr # rptr
    BY <2>2, RingBytes
  <2> QED
    BY <1>1, <2>3
<1>3. << >> \o << >> = << >>
  OBVIOUS
<1> QED
  BY <1>1, <1>2, <1>3 DEF Behind, OnTheirWay

(* The order holds at first, and every step keeps it. *)
LEMMA OrderHolds ==
  /\ Init => Order
  /\ CallOK /\ PiOK /\ Order /\ [Next]_vars => Order'
<1>1. Init => Order
  <2> SUFFICES ASSUME Init PROVE Order
    OBVIOUS
  <2>1. OnTheirWay = << >> /\ pc = "dor"
    BY InitMoves
  <2> QED
    BY <2>1 DEF Order, Ordered, Upto
<1>2. ASSUME CallOK, PiOK, Order, [Next]_vars PROVE Order'
  <2>1. CASE Cpc \/ Restart
    BY <1>2, <2>1, CpcKeepsOrder
  <2>2. CASE Pi
    BY <1>2, <2>2, PiKeepsOrder
  <2>3. CASE UNCHANGED vars
    <3>1. /\ rx' = rx /\ down' = down /\ up' = up /\ InRing' = InRing
          /\ pc' = pc /\ pin' = pin /\ LastByte' = LastByte
      BY <2>3 DEF vars, cardVars, cpcVars, piVars, InRing, LastByte, Sent
    <3>2. Behind' = Behind /\ OnTheirWay' = OnTheirWay
      BY <3>1 DEF Behind, OnTheirWay
    <3> QED
      BY <1>2, <3>1, <3>2 DEF Order
  <2> QED
    BY <1>2, <2>1, <2>2, <2>3 DEF Next
<1> QED
  BY <1>1, <1>2

(* No byte comes twice or before an older one, however often the program is *)
(* stopped and run again, and whether or not the ring overflows.            *)
THEOREM BytesStayInOrder == Spec => []NeverOutOfOrder
<1>1. CallOK /\ PiOK /\ Order => NeverOutOfOrder
  <2> SUFFICES ASSUME CallOK, PiOK, Order PROVE NeverOutOfOrder
    OBVIOUS
  <2>1. OnTheirWay \in Seq(Nat) /\ Ordered(OnTheirWay)
    BY SeqTypes DEF Order
  <2>2. DOMAIN OnTheirWay = 1 .. Len(OnTheirWay)
    BY <2>1
  <2> QED
    BY <2>1, <2>2 DEF NeverOutOfOrder, Ordered
<1>2. Spec => [](CallOK /\ PiOK)
  BY InitTypes, StepTypes, PTL DEF Spec
<1> QED
  BY <1>1, <1>2, OrderHolds, PTL DEF Spec

-----------------------------------------------------------------------------
(* The strays. *)

(* A stray is on its way into the ring: it is sampled, or will be, as a     *)
(* reset has emptied the FIFO after the Pi looked at DOR.  With it there    *)
(* are no more strays than there were resets.                               *)
StrayComing == (pc = "pulse" /\ pin = NotAByte) \/ (pc = "sample" /\ up = << >>)
StraysOK == Strays(Behind) + (IF StrayComing THEN 1 ELSE 0) <= restarts

(* The CPC's steps make no stray but by a reset. *)
LEMMA CpcKeepsStrays ==
  ASSUME CallOK, PiOK, StraysOK, Cpc \/ Restart
  PROVE  StraysOK'
<1>1. Behind \in Seq(Nat) /\ up \in Seq(Nat)
  BY SeqTypes
<1>2. /\ CallOK' /\ PiOK' /\ UNCHANGED piVars /\ PartOf(Behind', Behind)
      /\ \/ Restart /\ restarts' = restarts + 1
         \/ UNCHANGED restarts /\ (up' # up => Len(up') > Len(up))
  BY CpcMoves
<1>3. Behind' \in Seq(Nat)
  BY <1>2, NextSeqTypes
<1> DEFINE n == Strays(Behind)
           m == Strays(Behind')
<1>4. n \in Nat /\ m \in Nat /\ m <= n /\ restarts \in Nat
  BY <1>1, <1>2, <1>3, PartHasFewerStrays, StrayPlacesFinite DEF CallOK
<1>5. n + (IF StrayComing THEN 1 ELSE 0) <= restarts
  BY DEF StraysOK
<1>6. StraysOK' <=> m + (IF StrayComing' THEN 1 ELSE 0) <= restarts'
  BY DEF StraysOK
<1> HIDE DEF n, m
<1>7. CASE restarts' = restarts + 1
  BY <1>4, <1>5, <1>6, <1>7
<1>8. CASE UNCHANGED restarts /\ (up' # up => Len(up') > Len(up))
  <2>1. up' = << >> => up = << >>
    <3>1. Len(up) \in Nat /\ Len(<< >>) = 0
      BY <1>1
    <3> QED
      BY <1>8, <3>1
  <2>2. StrayComing' => StrayComing
    BY <1>2, <2>1 DEF StrayComing, piVars
  <2> QED
    BY <1>4, <1>5, <1>6, <1>8, <2>2
<1> QED
  BY <1>2, <1>7, <1>8

(* The Pi's steps make none: the one that comes is stored. *)
LEMMA PiKeepsStrays ==
  ASSUME CallOK, PiOK, StraysOK, Pi
  PROVE  StraysOK'
<1>1. Behind \in Seq(Nat) /\ pin \in Nat
  BY SeqTypes
<1>2. /\ CallOK' /\ PiOK' /\ restarts' = restarts
      /\ \/ /\ LookAtDor \/ LookAtDir \/ SamplePins \/ WriteFifoByte
            /\ up' = up /\ Behind' = Behind
         \/ PulseAndStore /\ (Behind' = Append(Behind, pin) \/ PartOf(Behind', Behind))
  BY PiMoves DEF cpcVars
<1>3. Behind' \in Seq(Nat)
  BY <1>2, NextSeqTypes
<1> DEFINE n == Strays(Behind)
           m == Strays(Behind')
<1>4. n \in Nat /\ m \in Nat /\ restarts \in Nat
  BY <1>1, <1>3, StrayPlacesFinite DEF CallOK
<1>5. n + (IF StrayComing THEN 1 ELSE 0) <= restarts
  BY DEF StraysOK
<1>6. StraysOK' <=> m + (IF StrayComing' THEN 1 ELSE 0) <= restarts
  BY <1>2 DEF StraysOK
<1>7. CASE (LookAtDor \/ LookAtDir \/ SamplePins \/ WriteFifoByte) /\ Behind' = Behind
  <2>1. StrayComing' => StrayComing
    <3>1. CASE LookAtDor
      <4>1. pc' = "sample" => up' # << >>
        BY <3>1 DEF LookAtDor, OutputReady, cardVars
      <4>2. pc' # "pulse"
        BY <3>1 DEF LookAtDor
      <4> QED
        BY <4>1, <4>2 DEF StrayComing
    <3>2. CASE LookAtDir \/ WriteFifoByte
      BY <3>2 DEF LookAtDir, WriteFifoByte, StrayComing
    <3>3. CASE SamplePins
      <4>1. pc = "sample" /\ pc' = "pulse"
            /\ pin' = IF up = << >> THEN NotAByte ELSE Head(up)
        BY <3>3, SampleGoes
      <4>2. up # << >> => Head(up) # NotAByte
        BY DEF PiOK, Byte
      <4> QED
        BY <4>1, <4>2 DEF StrayComing
    <3> QED
      BY <1>7, <3>1, <3>2, <3>3
  <2>2. m = n
    BY <1>7
  <2> HIDE DEF n, m
  <2> QED
    BY <1>4, <1>5, <1>6, <2>1, <2>2
<1>8. CASE PulseAndStore /\ (Behind' = Append(Behind, pin) \/ PartOf(Behind', Behind))
  <2>1. pc = "pulse" /\ pc' = "dir"
    BY <1>8, StoreGoes
  <2>2. ~StrayComing' /\ (pin = NotAByte => StrayComing)
    BY <2>1 DEF StrayComing
  <2>3. m <= n + (IF pin = NotAByte THEN 1 ELSE 0)
    <3>1. CASE Behind' = Append(Behind, pin)
      <4>1. m = IF pin = NotAByte THEN n + 1 ELSE n
        BY <1>1, <3>1, StraysAppend
      <4> HIDE DEF n, m
      <4> QED
        BY <1>4, <4>1
    <3>2. CASE PartOf(Behind', Behind)
      <4>1. m <= n
        BY <1>1, <1>3, <3>2, PartHasFewerStrays
      <4> HIDE DEF n, m
      <4> QED
        BY <1>4, <4>1
    <3> QED
      BY <1>8, <3>1, <3>2
  <2> HIDE DEF n, m
  <2> QED
    BY <1>4, <1>5, <1>6, <2>2, <2>3
<1> QED
  BY <1>2, <1>7, <1>8

(* There is no stray at first, and every step keeps them few. *)
LEMMA StraysHold ==
  /\ Init => StraysOK
  /\ CallOK /\ PiOK /\ StraysOK /\ [Next]_vars => StraysOK'
<1>1. Init => StraysOK
  <2> SUFFICES ASSUME Init PROVE StraysOK
    OBVIOUS
  <2>1. Behind = << >> /\ pc = "dor" /\ restarts = 0
    BY InitMoves
  <2>2. StrayPlaces(<< >>) = {}
    BY DEF StrayPlaces
  <2>3. Strays(Behind) = 0
    BY <2>1, <2>2, FS_EmptySet DEF Strays
  <2> QED
    BY <2>1, <2>3 DEF StraysOK, StrayComing
<1>2. ASSUME CallOK, PiOK, StraysOK, [Next]_vars PROVE StraysOK'
  <2>1. CASE Cpc \/ Restart
    BY <1>2, <2>1, CpcKeepsStrays
  <2>2. CASE Pi
    BY <1>2, <2>2, PiKeepsStrays
  <2>3. CASE UNCHANGED vars
    <3>1. /\ rx' = rx /\ down' = down /\ up' = up /\ InRing' = InRing
          /\ pc' = pc /\ pin' = pin /\ restarts' = restarts
      BY <2>3 DEF vars, cardVars, cpcVars, piVars, InRing
    <3>2. Behind' = Behind /\ (StrayComing' <=> StrayComing)
      BY <3>1 DEF Behind, StrayComing
    <3> QED
      BY <1>2, <3>1, <3>2 DEF StraysOK
  <2> QED
    BY <1>2, <2>1, <2>2, <2>3 DEF Next
<1> QED
  BY <1>1, <1>2

(* A byte that nobody sent is taken up at most once for each time that the  *)
(* program is run again.                                                    *)
THEOREM StraysCountResets == Spec => []OneStrayByteAReset
<1>1. CallOK /\ PiOK /\ StraysOK => OneStrayByteAReset
  <2> SUFFICES ASSUME CallOK, PiOK, StraysOK PROVE OneStrayByteAReset
    OBVIOUS
  <2>1. /\ Behind \in Seq(Nat) /\ up \in Seq(Byte) /\ OnTheirWay = Behind \o up
        /\ OnTheirWay \in Seq(Nat)
    BY SeqTypes
  <2>2. Strays(OnTheirWay) = Strays(Behind)
    BY <2>1, StraysTogether
  <2> DEFINE n == Strays(Behind)
  <2>3. n \in Nat /\ n + (IF StrayComing THEN 1 ELSE 0) <= restarts /\ restarts \in Nat
    BY <2>1, StrayPlacesFinite DEF StraysOK, CallOK
  <2>4. n <= restarts
    <3> HIDE DEF n
    <3> QED
      BY <2>3
  <2>5. {k \in DOMAIN OnTheirWay : OnTheirWay[k] = NotAByte} = StrayPlaces(OnTheirWay)
    <3>1. DOMAIN OnTheirWay = 1 .. Len(OnTheirWay)
      BY <2>1
    <3> QED
      BY <3>1 DEF StrayPlaces
  <2> QED
    BY <2>2, <2>4, <2>5 DEF OneStrayByteAReset, Strays
<1>2. Spec => [](CallOK /\ PiOK)
  BY InitTypes, StepTypes, PTL DEF Spec
<1> QED
  BY <1>1, <1>2, StraysHold, PTL DEF Spec

-----------------------------------------------------------------------------
(* Before the first restart. *)

(* As in the programs: a test is not longer than the Pi's ring. *)
RingHoldsATest == SZ <= QUEUE_SZ /\ QUEUE_SZ > 1

(* The bytes from the first on. *)
Numbered(first, n) == [k \in 1 .. n |-> first + k - 1]

(* Before the first restart the bytes on their way are those sent, one by   *)
(* one, and the Pi holds the first that is in its FIFO.  When the Pi has    *)
(* nothing to read back to the CPC but what is in the ring, it writes that  *)
(* down before it takes up more, so that the ring never has a whole test.   *)
Fresh ==
  restarts = 0 =>
    /\ pc \in {"sample", "pulse"} => up # << >>
    /\ pc = "pulse" => pin = Head(up)
    /\ OnTheirWay = IF test \in Tests THEN Numbered(FirstByte, Sent) ELSE << >>
    /\ rx = << >> /\ down = << >> =>
         Len(InRing) <= 1 /\ (InRing # << >> => pc \in {"dir", "write"})

(* One byte more. *)
LEMMA NumberedGrows ==
  ASSUME NEW first \in Nat, NEW n \in Nat
  PROVE  /\ Numbered(first, n) \in Seq(Int) /\ Len(Numbered(first, n)) = n
         /\ Numbered(first, 0) = << >>
         /\ Numbered(first, n + 1) = Append(Numbered(first, n), first + n)
<1> DEFINE s == Numbered(first, n)
           t == Numbered(first, n + 1)
           a == Append(s, first + n)
<1>1. /\ s \in Seq(Int) /\ Len(s) = n /\ \A k \in 1 .. n : s[k] = first + k - 1
      /\ t \in Seq(Int) /\ Len(t) = n + 1 /\ \A k \in 1 .. n + 1 : t[k] = first + k - 1
  BY DEF Numbered
<1>2. Numbered(first, 0) = << >>
  BY DEF Numbered
<1> HIDE DEF s, t
<1>3. /\ a \in Seq(Int) /\ Len(a) = n + 1 /\ \A k \in 1 .. n : a[k] = s[k]
      /\ a[n + 1] = first + n
  <2>1. first + n \in Int
    OBVIOUS
  <2> QED
    BY <1>1, <2>1, AppendProperties
<1> HIDE DEF a
<1>4. \A k \in 1 .. n + 1 : t[k] = a[k]
  <2> TAKE k \in 1 .. n + 1
  <2>1. CASE k \in 1 .. n
    BY <1>1, <1>3, <2>1
  <2>2. CASE k = n + 1
    <3>1. first + (n + 1) - 1 = first + n
      OBVIOUS
    <3> QED
      BY <1>1, <1>3, <2>2, <3>1
  <2> QED
    BY <2>1, <2>2
<1>5. t = a
  BY <1>1, <1>3, <1>4, SeqEqual
<1> QED
  BY <1>1, <1>2, <1>5 DEF s, t, a

(* How many bytes are on their way. *)
LEMMA LengthTogether ==
  ASSUME CallOK, PiOK
  PROVE  /\ Len(OnTheirWay) = Len(rx) + Len(down) + Len(InRing) + Len(up)
         /\ Len(rx) \in Nat /\ Len(down) \in Nat /\ Len(InRing) \in Nat /\ Len(up) \in Nat
<1>1. /\ rx \in Seq(Nat) /\ down \in Seq(Nat) /\ InRing \in Seq(Nat) /\ up \in Seq(Nat)
      /\ rx \o down \in Seq(Nat) /\ Behind \in Seq(Nat)
      /\ OnTheirWay = Behind \o up
  BY SeqTypes
<1>2. /\ Len(rx \o down) = Len(rx) + Len(down)
      /\ Len(Behind) = Len(rx \o down) + Len(InRing)
      /\ Len(OnTheirWay) = Len(Behind) + Len(up)
  BY <1>1, ConcatProperties DEF Behind
<1> QED
  BY <1>1, <1>2

(* As many as were sent. *)
LEMMA LengthFresh ==
  ASSUME CallOK, PiOK, Fresh, restarts = 0
  PROVE  /\ Len(rx) + Len(down) + Len(InRing) + Len(up)
              = IF test \in Tests THEN Sent ELSE 0
         /\ FirstByte + Sent \in Nat \/ test \notin Tests
<1>1. Sent \in Nat /\ LastByte \in Nat /\ (test \in Tests => FirstByte + Sent = LastByte + 1)
  BY SentTypes
<1>2. test \in Tests => FirstByte \in Nat
  <2> SUFFICES ASSUME test \in Tests PROVE FirstByte \in Nat
    OBVIOUS
  <2>1. restarts = 0 /\ test \in {1, 2, 3} /\ SZ \in Nat
    BY Numbers
  <2>2. FirstByte = 1 + SZ * (3 * 0 + test - 1)
    BY Numbers DEF FirstByte
  <2>3. 3 * 0 + test - 1 \in Nat
    BY <2>1
  <2>4. SZ * (3 * 0 + test - 1) \in Nat
    BY <2>1, <2>3
  <2> QED
    BY <2>2, <2>4
<1>3. OnTheirWay = IF test \in Tests THEN Numbered(FirstByte, Sent) ELSE << >>
  BY DEF Fresh
<1>4. Len(OnTheirWay) = IF test \in Tests THEN Sent ELSE 0
  BY <1>1, <1>2, <1>3, NumberedGrows
<1> QED
  BY <1>1, <1>4, LengthTogether

(* A new test begins with nothing on its way. *)
LEMMA FreshTest ==
  ASSUME CallOK, PiOK, Fresh, restarts = 0, CallOK', PiOK',
         rx' = << >>, Len(down') = 0, Len(InRing') = 0, up' = up, Len(up) = 0,
         test' \in Tests => Sent' = 0, UNCHANGED <<restarts, piVars>>
  PROVE  Fresh'
<1>1. down' = << >> /\ InRing' = << >> /\ up' = << >> /\ up = << >>
  <2>1. down' \in Seq(Nat) /\ up' \in Seq(Byte) /\ InRing' \in Seq(Nat)
    BY NextSeqTypes DEF PiOK
  <2> QED
    BY <2>1
<1>2. OnTheirWay' = << >>
  <2>1. OnTheirWay' = ((rx' \o down') \o InRing') \o up'
    BY DEF OnTheirWay
  <2>2. << >> \o << >> = << >>
    OBVIOUS
  <2> QED
    BY <1>1, <2>1, <2>2
<1>3. test' \in Tests => Numbered(FirstByte', Sent') = << >>
  BY DEF Numbered
<1>4. pc \notin {"sample", "pulse"} /\ pc' = pc
  BY <1>1 DEF Fresh, piVars
<1>5. Len(InRing') <= 1
  OBVIOUS
<1> QED
  BY <1>1, <1>2, <1>3, <1>4, <1>5 DEF Fresh

(* The CPC's steps. *)
LEMMA CpcKeepsFresh ==
  ASSUME CallOK, PiOK, Fresh, restarts = 0, Cpc
  PROVE  Fresh'
<1>1. CallOK' /\ PiOK' /\ UNCHANGED piVars
  BY CpcMoves
<1>2. InRing' = InRing
  BY <1>1 DEF piVars, InRing
<1>3. /\ rx \in Seq(Nat) /\ down \in Seq(Nat) /\ InRing \in Seq(Nat) /\ up \in Seq(Nat)
      /\ Behind \in Seq(Nat) /\ OnTheirWay = Behind \o up
      /\ Sent \in Nat
  BY SeqTypes, SentTypes
<1>4. /\ Len(rx) + Len(down) + Len(InRing) + Len(up) = IF test \in Tests THEN Sent ELSE 0
      /\ Len(rx) \in Nat /\ Len(down) \in Nat /\ Len(InRing) \in Nat /\ Len(up) \in Nat
  BY LengthFresh, LengthTogether
<1>5. test' = test /\ restarts' = restarts => FirstByte' = FirstByte
  BY DEF FirstByte
<1>6. /\ pc \in {"sample", "pulse"} => up # << >>
      /\ pc = "pulse" => pin = Head(up)
      /\ OnTheirWay = IF test \in Tests THEN Numbered(FirstByte, Sent) ELSE << >>
      /\ rx = << >> /\ down = << >> =>
           Len(InRing) <= 1 /\ (InRing # << >> => pc \in {"dir", "write"})
  BY DEF Fresh
<1>7. CASE LookAtStatus
  <2>1. test # Finished /\ Goes(rx, Sent) /\ UNCHANGED <<up, down, restarts>>
    BY <1>7, LookGoes
  <2>2. CASE /\ test' = test /\ rx' = rx
             /\ test \in Tests => Sent' = Sent
    <3>1. OnTheirWay' = OnTheirWay
      BY <1>2, <2>1, <2>2 DEF OnTheirWay
    <3> QED
      BY <1>1, <1>2, <1>5, <1>6, <2>1, <2>2, <3>1 DEF Fresh, piVars
  <2>3. CASE /\ test' = test + 1 /\ rx' = << >>
             /\ test \in Tests => Sent = SZ /\ Len(rx) = SZ
             /\ test' \in Tests => Sent' = 0
    <3>1. Len(down) = 0 /\ Len(InRing) = 0 /\ Len(up) = 0
      BY <1>3, <1>4, <2>3
    <3>2. Len(down') = 0 /\ Len(InRing') = 0
      BY <1>2, <2>1, <3>1
    <3> QED
      BY <1>1, <2>1, <2>3, <3>1, <3>2, FreshTest
  <2> QED
    BY <2>1, <2>2, <2>3 DEF Goes
<1>8. CASE WriteData
  <2>1. /\ test \in Tests /\ Goes(rx, Sent + 1) /\ up' = Append(up, FirstByte + Sent)
        /\ FirstByte + Sent \in Byte /\ UNCHANGED <<down, restarts>>
    BY <1>8, WriteGoes
  <2>2. CASE test' = test /\ rx' = rx /\ (test \in Tests => Sent' = Sent + 1)
    <3> DEFINE b == FirstByte + Sent
    <3>1. b \in Nat /\ up' = Append(up, b)
      BY <2>1 DEF Byte
    <3>2. Behind' = Behind
      BY <1>2, <2>1, <2>2 DEF Behind
    <3>3. OnTheirWay' = Append(OnTheirWay, b)
      <4>1. OnTheirWay' = Behind \o up'
        BY <1>1, <3>2, NextSeqTypes
      <4> HIDE DEF b
      <4> QED
        BY <1>3, <3>1, <4>1, LastTogether
    <3>4. OnTheirWay' = Numbered(FirstByte, Sent + 1)
      <4>1. FirstByte \in Nat
        <5>1. FirstByte = 1 + SZ * (3 * 0 + test - 1) /\ SZ \in Nat /\ test \in {1, 2, 3}
          BY <2>1, Numbers DEF FirstByte
        <5>2. 3 * 0 + test - 1 \in Nat
          BY <5>1
        <5>3. SZ * (3 * 0 + test - 1) \in Nat
          BY <5>1, <5>2
        <5> QED
          BY <5>1, <5>3
      <4> QED
        BY <1>3, <1>6, <2>1, <3>3, <4>1, NumberedGrows
    <3>5. up' # << >> /\ (up # << >> => Head(up') = Head(up))
      BY <1>3, <3>1, AppendProperties, HeadTailAppend
    <3> QED
      BY <1>1, <1>2, <1>5, <1>6, <2>1, <2>2, <3>4, <3>5 DEF Fresh, piVars
  <2>3. CASE test \in Tests => Sent + 1 = SZ /\ Len(rx) = SZ
    BY <1>3, <1>4, <2>1, <2>3
  <2> QED
    BY <2>1, <2>2, <2>3 DEF Goes
<1>9. CASE ReadData
  <2>1. /\ test # Finished /\ down # << >>
        /\ Goes(IF test = Flush THEN rx ELSE Append(rx, Head(down)), Sent)
        /\ down' = Tail(down) /\ UNCHANGED <<up, restarts>>
    BY <1>9, ReadGoes
  <2>2. test \in Tests /\ test # Flush /\ Len(down) > 0
    <3>1. Len(down) > 0
      BY <1>3, <2>1
    <3> QED
      BY <1>4, <3>1, Numbers
  <2> DEFINE bytes == Append(rx, Head(down))
  <2>3. /\ bytes \in Seq(Nat) /\ Len(bytes) = Len(rx) + 1 /\ bytes # << >>
        /\ Len(down') = Len(down) - 1
    <3> DEFINE h == Head(down)
    <3>1. h \in Nat /\ Len(Tail(down)) = Len(down) - 1
      <4>1. down \in Seq(Nat) /\ down # << >>
        BY <1>3, <2>1
      <4>2. Head(down) \in Nat /\ Len(Tail(down)) = Len(down) - 1
        BY <4>1, HeadTailProperties, Zenon
      <4> QED
        BY <4>2
    <3> HIDE DEF h
    <3>2. /\ Append(rx, h) \in Seq(Nat) /\ Len(Append(rx, h)) = Len(rx) + 1
          /\ Append(rx, h) # << >>
      <4>1. rx \in Seq(Nat) /\ h \in Nat
        BY <1>3, <3>1
      <4> QED
        BY <4>1, AppendProperties
    <3> QED
      BY <2>1, <3>1, <3>2 DEF h
  <2>4. Goes(bytes, Sent)
    BY <2>1, <2>2
  <2>5. bytes \o Tail(down) = rx \o down
    BY <1>3, <2>1, FirstMoves
  <2> HIDE DEF bytes
  <2>6. CASE test' = test /\ rx' = bytes /\ (test \in Tests => Sent' = Sent)
    <3>1. OnTheirWay' = OnTheirWay
      BY <1>2, <2>1, <2>5, <2>6 DEF OnTheirWay
    <3> QED
      BY <1>1, <1>2, <1>5, <1>6, <2>1, <2>2, <2>3, <2>6, <3>1 DEF Fresh, piVars
  <2>7. CASE /\ test' = test + 1 /\ rx' = << >>
             /\ test \in Tests => Sent = SZ /\ Len(bytes) = SZ
             /\ test' \in Tests => Sent' = 0
    <3>1. Len(down') = 0 /\ Len(InRing) = 0 /\ Len(up) = 0
      <4>1. Len(rx) + 1 = Sent
        BY <2>2, <2>3, <2>7
      <4> QED
        BY <1>4, <2>2, <2>3, <4>1
    <3>2. Len(InRing') = 0 /\ up' = up
      BY <1>2, <2>1, <3>1
    <3> QED
      BY <1>1, <2>1, <2>7, <3>1, <3>2, FreshTest
  <2> QED
    BY <2>4, <2>6, <2>7 DEF Goes
<1> QED
  BY <1>7, <1>8, <1>9 DEF Cpc

(* The Pi's steps: the ring has room for the byte that it stores. *)
LEMMA PiKeepsFresh ==
  ASSUME RingHoldsATest, CallOK, PiOK, Fresh, restarts = 0, Pi
  PROVE  Fresh'
<1>1. /\ CallOK' /\ PiOK' /\ UNCHANGED cpcVars
      /\ \/ /\ LookAtDor \/ LookAtDir \/ SamplePins \/ WriteFifoByte
            /\ up' = up /\ Behind' = Behind
         \/ /\ PulseAndStore
            /\ up' = IF up = << >> THEN << >> ELSE Tail(up)
            /\ Behind' = Append(Behind, pin) \/ Len(InRing) + 1 >= QUEUE_SZ
  BY PiMoves
<1>2. /\ rx' = rx /\ test' = test /\ restarts' = restarts /\ Sent' = Sent
      /\ FirstByte' = FirstByte
  BY <1>1 DEF cpcVars, Sent, FirstByte
<1>3. /\ rx \in Seq(Nat) /\ down \in Seq(Nat) /\ InRing \in Seq(Nat) /\ up \in Seq(Nat)
      /\ Behind \in Seq(Nat) /\ OnTheirWay = Behind \o up /\ pin \in Nat
  BY SeqTypes
<1>4. /\ Behind' \in Seq(Nat) /\ up' \in Seq(Nat) /\ OnTheirWay' = Behind' \o up'
  BY <1>1, NextSeqTypes
<1>5. /\ pc \in {"sample", "pulse"} => up # << >>
      /\ pc = "pulse" => pin = Head(up)
      /\ OnTheirWay = IF test \in Tests THEN Numbered(FirstByte, Sent) ELSE << >>
      /\ rx = << >> /\ down = << >> =>
           Len(InRing) <= 1 /\ (InRing # << >> => pc \in {"dir", "write"})
  BY DEF Fresh
<1>6. ASSUME UNCHANGED <<down, queue, rptr, wptr>> PROVE InRing' = InRing
  BY <1>6 DEF InRing
<1>7. CASE LookAtDor
  <2>1. /\ pc = "dor" /\ pc' \in {"sample", "dir"} /\ (pc' = "sample" => up # << >>)
        /\ UNCHANGED <<up, down, queue, rptr, wptr>>
    BY <1>7 DEF LookAtDor, OutputReady, cardVars
  <2>2. OnTheirWay' = OnTheirWay
    BY <1>2, <1>6, <2>1 DEF OnTheirWay
  <2> QED
    BY <1>2, <1>5, <1>6, <2>1, <2>2 DEF Fresh
<1>8. CASE LookAtDir
  <2>1. /\ pc' = IF wptr # rptr /\ InputReady(down) THEN "write" ELSE "dor"
        /\ UNCHANGED <<up, down, queue, rptr, wptr>>
    BY <1>8 DEF LookAtDir, cardVars
  <2>2. OnTheirWay' = OnTheirWay
    BY <1>2, <1>6, <2>1 DEF OnTheirWay
  <2>3. down = << >> /\ InRing # << >> => pc' = "write"
    <3>1. InRing = RingOf(queue, rptr, wptr) /\ queue \in [Slot -> Nat]
          /\ rptr \in Slot /\ wptr \in Slot
      BY DEF PiOK, InRing, RingOf
    <3>2. InRing # << >> => wptr # rptr
      BY <3>1, RingBytes
    <3>3. down = << >> => InputReady(down)
      BY Numbers DEF InputReady
    <3> QED
      BY <2>1, <3>2, <3>3
  <2>4. pc' \notin {"sample", "pulse"}
    BY <2>1
  <2> QED
    BY <1>2, <1>5, <1>6, <2>1, <2>2, <2>3, <2>4 DEF Fresh
<1>9. CASE SamplePins
  <2>1. /\ pc = "sample" /\ pc' = "pulse"
        /\ pin' = IF up = << >> THEN NotAByte ELSE Head(up)
        /\ UNCHANGED <<up, down, queue, rptr, wptr>>
    BY <1>9, SampleGoes DEF cardVars
  <2>2. OnTheirWay' = OnTheirWay
    BY <1>2, <1>6, <2>1 DEF OnTheirWay
  <2> QED
    BY <1>2, <1>5, <1>6, <2>1, <2>2 DEF Fresh
<1>10. CASE WriteFifoByte
  <2>1. /\ pc' = "dor" /\ down' = Append(down, queue[wptr]) /\ queue[wptr] \in Nat
    BY <1>10, TakeGoes DEF PiOK
  <2>2. down' # << >>
    <3> DEFINE b == queue[wptr]
    <3>1. b \in Nat /\ down' = Append(down, b)
      BY <2>1
    <3> HIDE DEF b
    <3> QED
      BY <1>3, <3>1, AppendProperties
  <2>3. OnTheirWay' = OnTheirWay
    <3>1. Behind' = Behind /\ up' = up
      BY <1>1, <1>10 DEF PulseAndStore, WriteFifoByte
    <3> QED
      BY <1>3, <1>4, <3>1
  <2> QED
    BY <1>2, <1>5, <2>1, <2>2, <2>3 DEF Fresh
<1>11. CASE PulseAndStore
  <2>1. /\ pc = "pulse" /\ pc' = "dir" /\ down' = down
        /\ queue' = [queue EXCEPT ![rptr] = pin] /\ rptr' = NextSlot(rptr) /\ wptr' = wptr
    BY <1>11, StoreGoes
  <2>2. up # << >> /\ pin = Head(up)
    BY <1>5, <2>1
  <2>3. Len(InRing) + 1 < QUEUE_SZ
    <3>1. /\ Len(rx) \in Nat /\ Len(down) \in Nat /\ Len(InRing) \in Nat /\ Len(up) \in Nat
          /\ QUEUE_SZ \in Nat /\ SZ \in Nat /\ SZ <= QUEUE_SZ /\ QUEUE_SZ > 1
      BY LengthTogether, Numbers DEF RingHoldsATest
    <3>2. Len(up) > 0
      BY <1>3, <2>2
    <3>3. CASE rx = << >> /\ down = << >>
      <4>1. InRing = << >>
        BY <1>5, <2>1, <3>3
      <4> QED
        BY <3>1, <4>1
    <3>4. CASE rx # << >> \/ down # << >>
      <4>1. Len(rx) > 0 \/ Len(down) > 0
        BY <1>3, <3>4
      <4>2. Len(rx) + Len(down) + Len(InRing) + Len(up) = IF test \in Tests THEN Sent ELSE 0
        BY LengthFresh
      <4>3. test \in Tests => Sent \in Nat /\ Sent <= SZ
        BY SentTypes
      <4> QED
        BY <3>1, <3>2, <4>1, <4>2, <4>3
    <3> QED
      BY <3>3, <3>4
  <2>4. up' = Tail(up) /\ Behind' = Append(Behind, Head(up))
    <3>1. /\ up' = IF up = << >> THEN << >> ELSE Tail(up)
          /\ Behind' = Append(Behind, pin) \/ Len(InRing) + 1 >= QUEUE_SZ
      BY <1>1, <2>1 DEF LookAtDor, LookAtDir, SamplePins, WriteFifoByte
    <3>2. ~(Len(InRing) + 1 >= QUEUE_SZ)
      BY <1>3, <2>3, Numbers
    <3> QED
      BY <2>2, <3>1, <3>2
  <2>5. OnTheirWay' = OnTheirWay
    BY <1>3, <1>4, <2>2, <2>4, FirstMoves
  <2>6. rx = << >> /\ down = << >> => Len(InRing') <= 1
    <3> SUFFICES ASSUME rx = << >>, down = << >> PROVE Len(InRing') <= 1
      OBVIOUS
    <3>1. InRing = << >>
      BY <1>5, <2>1
    <3>2. /\ InRing = RingOf(queue, rptr, wptr) /\ InRing' = RingOf(queue', rptr', wptr')
          /\ queue \in [Slot -> Nat] /\ rptr \in Slot /\ wptr \in Slot
      BY DEF PiOK, InRing, RingOf
    <3>3. InRing' = Append(InRing, pin)
      BY <1>3, <2>1, <2>3, <3>2, RingStores
    <3> QED
      BY <1>3, <3>1, <3>3
  <2> QED
    BY <1>2, <1>5, <2>1, <2>5, <2>6 DEF Fresh
<1> QED
  BY <1>7, <1>8, <1>9, <1>10, <1>11 DEF Pi

(* All is fresh at first, and stays so until a restart. *)
LEMMA FreshHolds ==
  ASSUME RingHoldsATest
  PROVE  /\ Init => Fresh
         /\ CallOK /\ PiOK /\ Fresh /\ [Next]_vars => Fresh'
<1>1. Init => Fresh
  <2> SUFFICES ASSUME Init PROVE Fresh
    OBVIOUS
  <2>1. OnTheirWay = << >> /\ InRing = << >> /\ pc = "dor"
    BY InitMoves
  <2>2. test \notin Tests
    BY Numbers DEF Init
  <2> QED
    BY <2>1, <2>2 DEF Fresh
<1>2. ASSUME CallOK, PiOK, Fresh, [Next]_vars PROVE Fresh'
  <2>1. restarts \in Nat
    BY <1>2 DEF CallOK
  <2>2. CASE Restart
    BY <2>1, <2>2, RestartGoes, <1>2 DEF Fresh
  <2>3. CASE restarts # 0 /\ ~Restart
    <3>1. restarts' = restarts
      BY <1>2, <2>3, CpcMoves, PiMoves DEF Next, vars, cpcVars
    <3> QED
      BY <2>3, <3>1 DEF Fresh
  <2>4. CASE restarts = 0 /\ Cpc
    BY <1>2, <2>4, CpcKeepsFresh
  <2>5. CASE restarts = 0 /\ Pi
    BY <1>2, <2>5, PiKeepsFresh
  <2>6. CASE UNCHANGED vars
    <3>1. /\ rx' = rx /\ down' = down /\ up' = up /\ InRing' = InRing /\ test' = test
          /\ pc' = pc /\ pin' = pin /\ restarts' = restarts /\ Sent' = Sent
          /\ FirstByte' = FirstByte
      BY <2>6 DEF vars, cardVars, cpcVars, piVars, InRing, Sent, FirstByte
    <3>2. OnTheirWay' = OnTheirWay
      BY <3>1 DEF OnTheirWay
    <3> QED
      BY <1>2, <3>1, <3>2 DEF Fresh
  <2> QED
    BY <1>2, <2>2, <2>3, <2>4, <2>5, <2>6 DEF Next
<1> QED
  BY <1>1, <1>2

(* Until the program is restarted the bytes received and those on their way *)
(* are all that were sent, in order and each once: the ring needs no look   *)
(* whether it is full.                                                      *)
THEOREM NothingIsLostAtFirst ==
  ASSUME RingHoldsATest
  PROVE  Spec => []NothingIsLost
<1>1. Fresh => NothingIsLost
  BY DEF Fresh, NothingIsLost, Numbered
<1>2. Spec => [](CallOK /\ PiOK)
  BY InitTypes, StepTypes, PTL DEF Spec
<1>3. Init => Fresh
  BY FreshHolds
<1>4. CallOK /\ PiOK /\ Fresh /\ [Next]_vars => Fresh'
  BY FreshHolds
<1> QED
  BY <1>1, <1>2, <1>3, <1>4, PTL DEF Spec

=============================================================================
