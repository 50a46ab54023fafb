-------------------------- MODULE McpInput_proofs --------------------------
(***************************************************************************)
(* Proofs about the server as it reads commands, for every size of the     *)
(* ring, every longest name and line, and every client that sends items    *)
(* as ItemAssumption describes them: the types, that each command is taken *)
(* up once and in order, whenever the server looks, and that it reads what *)
(* has come.                                                               *)
(***************************************************************************)
EXTENDS McpInput, Packets_proofs

-----------------------------------------------------------------------------
(* What is kept. *)

(* What bytes may mean. *)
MEANING == {"ping", "help", "shellexec", "unknown", "bad", "salloc", "ialloc"}

(* The unread bytes of q are those of S behind the first x, up to the a-th. *)
Shows(q, S, x, a) ==
  /\ q \in Queues
  /\ x \in Nat /\ a \in Nat /\ a <= Len(S)
  /\ x + NumberToRead(q) = a
  /\ \A i \in x + 1 .. a : ReadAhead(q, i - x - 1) = S[i]

(* A place among the bytes S: that of the k-th packet, or the end.          *)
Upto(place, S, k) == IF k <= Len(place) THEN place[k] ELSE Len(S)

(* The first of a packet. *)
Starts(b) == Len(b) >= 6 /\ \A p \in 1 .. 3 : b[p] = Plus

(* The k-th of the packets lies among the bytes S, with noise at most up to *)
(* the next, and what it means among the commands E.                        *)
Lies(S, E, packet, place, mark, k) ==
  LET b == packet[k].bytes
      m == packet[k].means
  IN  /\ Starts(b)
      /\ place[k] + Len(b) <= Upto(place, S, k + 1)
      /\ Upto(place, S, k + 1) <= Len(S)
      /\ \A i \in 1 .. Len(b) : S[place[k] + i] = b[i]
      /\ Harmless(S, place[k] + Len(b), Upto(place, S, k + 1))
      /\ mark[k] + Len(m) = Upto(mark, E, k + 1)
      /\ Upto(mark, E, k + 1) <= Len(E)
      /\ \A i \in 1 .. Len(m) : E[mark[k] + i] = m[i]

Laid(S, E, packet, place, mark) ==
  /\ S \in Seq(BYTE) /\ E \in Seq(MEANING)
  /\ packet \in Seq(ITEM) /\ place \in Seq(Nat) /\ mark \in Seq(Nat)
  /\ Len(place) = Len(packet) /\ Len(mark) = Len(packet)
  /\ \A k \in 1 .. Len(packet) : Lies(S, E, packet, place, mark, k)

(* The server has read x of the bytes and served what came before the k-th  *)
(* packet; what lies between is noise.                                      *)
Reads(q, to_come, done, S, E, place, mark, x, k) ==
  /\ k \in 1 .. Len(place) + 1
  /\ x <= Upto(place, S, k) /\ Upto(place, S, k) <= Len(S)
  /\ Harmless(S, x, Upto(place, S, k))
  /\ Shows(q, S, x, Len(S) - Len(to_come))
  /\ \A i \in 1 .. Len(to_come) : to_come[i] = S[Len(S) - Len(to_come) + i]
  /\ Len(done) = Upto(mark, E, k) /\ Len(done) <= Len(E)
  /\ \A i \in 1 .. Len(done) : done[i] = E[i]

(* All the bytes that were sent, with the packets among them.               *)
KeepsPlace(q, to_come, done, E) ==
  \E S \in Seq(BYTE), packet \in Seq(ITEM), place, mark \in Seq(Nat), x, k \in Nat :
    /\ Laid(S, E, packet, place, mark)
    /\ Reads(q, to_come, done, S, E, place, mark, x, k)

(* Where the queue would be if the read index were taken round the ring.    *)
Shown(q) == IF q.read = -1 THEN [q EXCEPT !.read = QUEUE_SIZE - 1] ELSE q

(* In the ring, or one before it with a whole terminator to read.           *)
InPlace(q) ==
  \/ q \in Queues
  \/ OneBefore(q) /\ q.data[QUEUE_SIZE - 1] = Minus

IInv ==
  /\ TypeOK /\ InPlace(in_queue)
  /\ expected \in Seq(MEANING) /\ served \in Seq(MEANING)
  /\ strayed \/ KeepsPlace(Shown(in_queue), coming, served, expected)

-----------------------------------------------------------------------------
(* One before the ring. *)

(* A queue in the ring shows itself. *)
LEMMA ShownInRing ==
  ASSUME NEW q \in Queues
  PROVE  /\ Shown(q) = q /\ Onward(q) = q /\ InPlace(q)
         /\ PastTerminator(q) = {SkipTerminator(q)}
         /\ NumberToRead(q) \in Nat
<1>1. q.read \in Index /\ q.read # -1
  BY Fields DEF Index
<1> QED
  BY <1>1, ToRead DEF Shown, Onward, InPlace, PastTerminator

(* What a queue one before the ring shows.                                  *)
LEMMA ShownCount ==
  ASSUME NEW q \in [data : [Index -> BYTE], store : Index, read : {-1}]
  PROVE  /\ Shown(q) \in Queues /\ Shown(q).read = QUEUE_SIZE - 1
         /\ Shown(q).data = q.data /\ Shown(q).store = q.store
         /\ Shown(q) = [q EXCEPT !.read = QUEUE_SIZE - 1]
         /\ q.read = -1 /\ QUEUE_SIZE \in Nat /\ QUEUE_SIZE >= 2
         /\ q.store \in 0 .. QUEUE_SIZE - 1
         /\ NumberToRead(Shown(q)) = NumberToRead(q)
<1> DEFINE s == Shown(q)
<1>1. q \in [data : [Index -> BYTE], store : Index, read : {-1}]
  OBVIOUS
<1>2. q.read = -1 /\ q.store \in 0 .. QUEUE_SIZE - 1 /\ QUEUE_SIZE \in Nat /\ QUEUE_SIZE >= 2
  BY <1>1, QueueSizeAssumption DEF Index
<1>3. /\ s = [q EXCEPT !.read = QUEUE_SIZE - 1]
      /\ QUEUE_SIZE - 1 \in Index
  BY <1>2 DEF Shown, Index
<1>4. /\ s \in Queues /\ s.read = QUEUE_SIZE - 1 /\ s.data = q.data /\ s.store = q.store
  BY <1>1, <1>3 DEF Queues
<1>5. NumberToRead(s) = NumberToRead(q)
  <2>1. /\ (QUEUE_SIZE + q.store) - (QUEUE_SIZE - 1) = q.store + 1
        /\ (QUEUE_SIZE + q.store) - (-1) = QUEUE_SIZE + q.store + 1
        /\ q.store + 1 \in 0 .. 2 * QUEUE_SIZE - 1
    BY <1>2
  <2>2. q.store + 1 < QUEUE_SIZE =>
          (q.store + 1) % QUEUE_SIZE = (QUEUE_SIZE + q.store + 1) % QUEUE_SIZE
    <3>1. ASSUME q.store + 1 < QUEUE_SIZE PROVE QUEUE_SIZE + q.store + 1 \in 0 .. 2 * QUEUE_SIZE - 1
      BY <1>2, <3>1
    <3>2. ASSUME q.store + 1 < QUEUE_SIZE
          PROVE  (QUEUE_SIZE + q.store + 1) - QUEUE_SIZE = q.store + 1
                   /\ ~(QUEUE_SIZE + q.store + 1 < QUEUE_SIZE)
      BY <1>2
    <3> QED
      BY <2>1, <3>1, <3>2, BelowTwoTurns
  <2>3. ~(q.store + 1 < QUEUE_SIZE) =>
          (q.store + 1) % QUEUE_SIZE = (QUEUE_SIZE + q.store + 1) % QUEUE_SIZE
    <3>1. ASSUME ~(q.store + 1 < QUEUE_SIZE)
          PROVE  q.store + 1 = QUEUE_SIZE /\ QUEUE_SIZE + q.store + 1 = 2 * QUEUE_SIZE
      BY <1>2, <3>1
    <3>2. QUEUE_SIZE % QUEUE_SIZE = 0 /\ (2 * QUEUE_SIZE) % QUEUE_SIZE = 0
      BY <1>2
    <3> QED
      BY <3>1, <3>2
  <2> QED
    BY <1>2, <1>4, <2>1, <2>2, <2>3 DEF NumberToRead
<1> QED
  BY <1>2, <1>3, <1>4, <1>5

(* ... and what it goes on to. *)
LEMMA ShownBefore ==
  ASSUME NEW q, OneBefore(q)
  PROVE  /\ Shown(q) \in Queues /\ Shown(q).read = QUEUE_SIZE - 1
         /\ Shown(q).data = q.data /\ Shown(q).store = q.store
         /\ q.read = -1 /\ q.read \notin Index
         /\ NumberToRead(Shown(q)) = NumberToRead(q)
         /\ NumberToRead(q) \in Nat /\ NumberToRead(q) >= 3 /\ QUEUE_SIZE >= 4
         /\ \A n \in 1 .. 3 : IncrementRead(q, n) = IncrementRead(Shown(q), n)
<1> DEFINE s == Shown(q)
<1>1. /\ q \in [data : [Index -> BYTE], store : Index, read : {-1}]
      /\ NumberToRead(q) >= 3
  BY DEF OneBefore
<1>2. /\ q.read = -1 /\ q.store \in 0 .. QUEUE_SIZE - 1 /\ QUEUE_SIZE \in Nat /\ QUEUE_SIZE >= 2
      /\ s = [q EXCEPT !.read = QUEUE_SIZE - 1]
      /\ s \in Queues /\ s.read = QUEUE_SIZE - 1 /\ s.data = q.data /\ s.store = q.store
      /\ NumberToRead(s) = NumberToRead(q)
  BY <1>1, ShownCount
<1>3. s = [q EXCEPT !.read = QUEUE_SIZE - 1]
  BY <1>2
<1>4. s \in Queues /\ s.read = QUEUE_SIZE - 1 /\ s.data = q.data /\ s.store = q.store
  BY <1>2
<1>5. NumberToRead(s) = NumberToRead(q)
  BY <1>2
<1>6. NumberToRead(q) \in 0 .. QUEUE_SIZE - 1
  BY <1>4, <1>5, ToRead
<1>7. QUEUE_SIZE >= 4
  BY <1>1, <1>2, <1>6
<1>8. ASSUME NEW n \in 1 .. 3 PROVE IncrementRead(q, n) = IncrementRead(s, n)
  <2>1. /\ -1 + n \in 0 .. QUEUE_SIZE - 1 /\ -1 + n >= 0
        /\ (QUEUE_SIZE - 1) + n >= 0 /\ (QUEUE_SIZE - 1) + n \in 0 .. 2 * QUEUE_SIZE - 1
        /\ ~((QUEUE_SIZE - 1) + n < QUEUE_SIZE)
        /\ (QUEUE_SIZE - 1) + n - QUEUE_SIZE = -1 + n
        /\ -1 + n \in 0 .. 2 * QUEUE_SIZE - 1 /\ -1 + n < QUEUE_SIZE
    BY <1>2, <1>7
  <2>2. Advance(-1, n) = -1 + n
    BY <2>1, BelowTwoTurns DEF Advance, Remainder
  <2>3. Advance(QUEUE_SIZE - 1, n) = -1 + n
    <3> DEFINE at == (QUEUE_SIZE - 1) + n
    <3>1. at % QUEUE_SIZE = -1 + n
      <4>1. at \in 0 .. 2 * QUEUE_SIZE - 1 /\ ~(at < QUEUE_SIZE) /\ at - QUEUE_SIZE = -1 + n
        BY <1>2, <1>7
      <4> HIDE DEF at
      <4> QED
        BY <4>1, BelowTwoTurns
    <3> QED
      BY <2>1, <3>1 DEF Advance, Remainder
  <2>4. /\ IncrementRead(q, n) = [q EXCEPT !.read = -1 + n]
        /\ IncrementRead(s, n) = [s EXCEPT !.read = -1 + n]
    BY <1>2, <1>4, <2>2, <2>3 DEF IncrementRead
  <2> QED
    BY <1>1, <1>3, <2>4
<1> QED
  BY <1>1, <1>2, <1>4, <1>5, <1>6, <1>7, <1>8 DEF Index

(* Either way the ring shows as many bytes.                                 *)
LEMMA ShownToRead ==
  ASSUME NEW q, InPlace(q)
  PROVE  /\ Shown(q) \in Queues /\ NumberToRead(q) \in Nat
         /\ NumberToRead(Shown(q)) = NumberToRead(q)
         /\ q \in Queues \/ OneBefore(q)
BY ShownInRing, ShownBefore DEF InPlace

(* The way back from a byte that has been read shows the ring before it.    *)
LEMMA OneBack ==
  ASSUME NEW q \in Queues, NEW n \in Nat, n + 1 <= NumberToRead(q),
         NEW r, r = IncrementRead(IncrementRead(q, n + 1), -1)
  PROVE  /\ Shown(r) = IncrementRead(q, n)
         /\ \/ r \in Queues
            \/ /\ r \in [data : [Index -> BYTE], store : Index, read : {-1}]
               /\ NumberToRead(q) = n + NumberToRead(r) /\ r.data = q.data
<1> DEFINE u == IncrementRead(q, n)
           v == IncrementRead(q, n + 1)
<1>1. /\ NumberToRead(q) \in 0 .. QUEUE_SIZE - 1
      /\ n \in 0 .. NumberToRead(q) /\ n + 1 \in 0 .. NumberToRead(q)
      /\ n \in 0 .. QUEUE_SIZE - 1 /\ n + 1 \in 0 .. QUEUE_SIZE - 1
      /\ q.read \in Index /\ q.read \in 0 .. QUEUE_SIZE - 1
      /\ QUEUE_SIZE \in Nat /\ QUEUE_SIZE >= 2
  BY ToRead, Fields DEF Index
<1>2. /\ u \in Queues /\ v \in Queues /\ NumberToRead(u) = NumberToRead(q) - n
      /\ u = [q EXCEPT !.read = u.read] /\ v = [q EXCEPT !.read = v.read]
      /\ u.data = q.data
  BY <1>1, ReadForward DEF IncrementRead, Queues
<1>3. /\ u.read = (IF q.read + n < QUEUE_SIZE THEN q.read + n ELSE q.read + n - QUEUE_SIZE)
      /\ v.read = (IF q.read + (n + 1) < QUEUE_SIZE THEN q.read + (n + 1)
                                                    ELSE q.read + (n + 1) - QUEUE_SIZE)
  <2>1. u.read = Advance(q.read, n) /\ v.read = Advance(q.read, n + 1)
    BY DEF IncrementRead, Queues
  <2> QED
    BY <1>1, <2>1, OneTurn
<1>4. u.read = IF v.read = 0 THEN QUEUE_SIZE - 1 ELSE v.read - 1
  BY <1>1, <1>3
<1>5. u.read \in 0 .. QUEUE_SIZE - 1 /\ v.read \in 0 .. QUEUE_SIZE - 1
  BY <1>2, Fields
<1>6. r = [q EXCEPT !.read = Advance(v.read, -1)]
  <2>1. r = [v EXCEPT !.read = Advance(v.read, -1)]
    BY DEF IncrementRead
  <2> QED
    BY <1>2, <2>1 DEF Queues
<1> HIDE DEF u, v
<1>7. CASE v.read # 0
  <2>1. v.read + -1 = v.read - 1 /\ v.read - 1 >= 0 /\ v.read - 1 \in 0 .. 2 * QUEUE_SIZE - 1
        /\ v.read - 1 < QUEUE_SIZE
    BY <1>1, <1>5, <1>7
  <2>2. Advance(v.read, -1) = u.read
    BY <1>4, <1>7, <2>1, BelowTwoTurns DEF Advance, Remainder
  <2>3. r = u
    BY <1>2, <1>6, <2>2
  <2> QED
    BY <1>2, <2>3, ShownInRing DEF u
<1>8. CASE v.read = 0
  <2>1. Advance(v.read, -1) = -1
    <3>1. 0 + -1 = -1 /\ ~(-1 >= 0) /\ 0 - (-1) = 1
      OBVIOUS
    <3>2. 1 % QUEUE_SIZE = 1
      <4>1. 1 \in 0 .. 2 * QUEUE_SIZE - 1 /\ 1 < QUEUE_SIZE
        BY <1>1
      <4> QED
        BY <4>1, BelowTwoTurns
    <3> QED
      BY <1>8, <3>1, <3>2 DEF Advance, Remainder
  <2>2. /\ r = [q EXCEPT !.read = -1] /\ r.read = -1 /\ r.data = q.data /\ r.store = q.store
        /\ r \in [data : [Index -> BYTE], store : Index, read : {-1}]
    BY <1>6, <2>1 DEF Queues
  <2>3. Shown(r) = u
    <3>1. Shown(r) = [r EXCEPT !.read = QUEUE_SIZE - 1]
      BY <2>2 DEF Shown
    <3>2. u = [q EXCEPT !.read = QUEUE_SIZE - 1]
      BY <1>2, <1>4, <1>8
    <3> QED
      BY <2>2, <3>1, <3>2 DEF Queues
  <2>4. NumberToRead(r) = NumberToRead(u)
    <3> DEFINE st == q.store
               at == (QUEUE_SIZE + r.store) - r.read
    <3>1. /\ u.store = st /\ u.read = QUEUE_SIZE - 1 /\ st \in 0 .. QUEUE_SIZE - 1
          /\ NumberToRead(u) # 0
      BY <1>1, <1>2, <1>4, <1>8, Fields DEF Queues
    <3>2. NumberToRead(u) = st + 1 /\ st + 1 < QUEUE_SIZE
      BY <1>1, <1>2, <3>1, ToRead
    <3>3. /\ at = QUEUE_SIZE + (st + 1)
          /\ at \in 0 .. 2 * QUEUE_SIZE - 1 /\ ~(at < QUEUE_SIZE) /\ at - QUEUE_SIZE = st + 1
      BY <1>1, <2>2, <3>1, <3>2
    <3>4. NumberToRead(r) = at % QUEUE_SIZE
      BY DEF NumberToRead
    <3> HIDE DEF st, at
    <3> QED
      BY <3>2, <3>3, <3>4, BelowTwoTurns
  <2>5. NumberToRead(q) = n + NumberToRead(r)
    BY <1>1, <1>2, <2>4
  <2> QED
    BY <2>2, <2>3, <2>5 DEF u
<1> QED
  BY <1>7, <1>8

-----------------------------------------------------------------------------
(* Where noise ends. *)

(* The rest of what is harmless is. *)
LEMMA HarmlessRest ==
  ASSUME NEW S, NEW x \in Nat, NEW y \in Nat, NEW e \in Nat, x <= y,
         Harmless(S, x, e)
  PROVE  Harmless(S, y, e)
<1>1. \A p \in y + 1 .. e : p \in x + 1 .. e
  OBVIOUS
<1> QED
  BY <1>1 DEF Harmless

(* What is harmless in two parts is harmless. *)
LEMMA HarmlessBoth ==
  ASSUME NEW S, NEW x \in Nat, NEW y \in Nat, NEW e \in Nat, x <= y, y <= e,
         Harmless(S, x, y), Harmless(S, y, e)
  PROVE  Harmless(S, x, e)
<1> SUFFICES ASSUME NEW p \in x + 1 .. e, S[p] = Plus
             PROVE  \E j \in {p + 1, p + 2} : j <= e /\ S[j] # Plus
  BY DEF Harmless
<1>1. CASE p <= y
  <2>1. p \in x + 1 .. y
    BY <1>1
  <2>2. PICK j \in {p + 1, p + 2} : j <= y /\ S[j] # Plus
    BY <2>1 DEF Harmless
  <2>3. j <= e
    BY <2>2
  <2> QED
    BY <2>2, <2>3
<1>2. CASE ~(p <= y)
  <2>1. p \in y + 1 .. e
    BY <1>2
  <2> QED
    BY <2>1 DEF Harmless
<1> QED
  BY <1>1, <1>2

(* Harmless bytes b are harmless where they lie among others.               *)
LEMMA HarmlessThere ==
  ASSUME NEW S, NEW b, NEW at \in Nat, NEW c \in Nat, NEW n \in Nat,
         \A i \in 1 .. n : S[at + i] = b[i],
         Harmless(b, c, n)
  PROVE  Harmless(S, at + c, at + n)
<1> SUFFICES ASSUME NEW p \in at + c + 1 .. at + n, S[p] = Plus
             PROVE  \E j \in {p + 1, p + 2} : j <= at + n /\ S[j] # Plus
  BY DEF Harmless
<1>1. p - at \in c + 1 .. n /\ p - at \in 1 .. n /\ p = at + (p - at)
  OBVIOUS
<1>2. b[p - at] = Plus
  BY <1>1
<1>3. PICK i \in {p - at + 1, p - at + 2} : i <= n /\ b[i] # Plus
  BY <1>1, <1>2 DEF Harmless
<1>4. i \in 1 .. n /\ at + i \in {p + 1, p + 2} /\ at + i <= at + n
  BY <1>1, <1>3
<1>5. S[at + i] # Plus
  BY <1>3, <1>4
<1> QED
  BY <1>4, <1>5

(* A "+++" behind harmless bytes begins at their end. *)
LEMMA NoneInside ==
  ASSUME NEW S, NEW x \in Nat, NEW e \in Nat, NEW y \in x .. e,
         Harmless(S, x, e),
         S[y + 1] = Plus, S[y + 2] = Plus, S[y + 3] = Plus
  PROVE  y = e
<1> SUFFICES ASSUME y # e PROVE FALSE
  OBVIOUS
<1> DEFINE p == y + 1
<1>1. p \in x + 1 .. e
  OBVIOUS
<1>2. \E j \in {p + 1, p + 2} : S[j] # Plus
  BY <1>1 DEF Harmless
<1>3. p + 1 = y + 2 /\ p + 2 = y + 3
  OBVIOUS
<1> QED
  BY <1>2, <1>3

-----------------------------------------------------------------------------
(* A ring that shows a part of S. *)

(* The bytes ahead, from where the ring is. *)
LEMMA ShownAhead ==
  ASSUME NEW q, NEW S, NEW x, NEW a, Shows(q, S, x, a)
  PROVE  /\ NumberToRead(q) \in 0 .. QUEUE_SIZE - 1 /\ NumberToRead(q) = a - x
         /\ x \in Nat /\ a \in Nat /\ x <= a /\ a <= Len(S) /\ q \in Queues
         /\ \A i \in 0 .. a - x - 1 : ReadAhead(q, i) = S[x + i + 1]
<1>1. /\ NumberToRead(q) \in 0 .. QUEUE_SIZE - 1 /\ q \in Queues
      /\ x \in Nat /\ a \in Nat /\ a <= Len(S) /\ x + NumberToRead(q) = a
  BY ToRead DEF Shows
<1>2. NumberToRead(q) = a - x /\ x <= a
  BY <1>1, Fields
<1>3. ASSUME NEW i \in 0 .. a - x - 1 PROVE ReadAhead(q, i) = S[x + i + 1]
  <2>1. x + i + 1 \in x + 1 .. a /\ (x + i + 1) - x - 1 = i
    BY <1>1
  <2> QED
    BY <2>1 DEF Shows
<1> QED
  BY <1>1, <1>2, <1>3

(* Reading on. *)
LEMMA ShownOn ==
  ASSUME NEW q, NEW S, NEW x, NEW a, Shows(q, S, x, a), NEW n \in 0 .. a - x
  PROVE  Shows(IncrementRead(q, n), S, x + n, a)
<1> DEFINE r == IncrementRead(q, n)
<1>1. /\ NumberToRead(q) = a - x /\ x \in Nat /\ a \in Nat /\ x <= a /\ a <= Len(S)
      /\ q \in Queues /\ n \in 0 .. NumberToRead(q)
      /\ \A i \in 0 .. a - x - 1 : ReadAhead(q, i) = S[x + i + 1]
  BY ShownAhead
<1>2. r \in Queues /\ NumberToRead(r) = a - x - n
  BY <1>1, ReadForward
<1>3. ASSUME NEW i \in x + n + 1 .. a
      PROVE  ReadAhead(r, i - (x + n) - 1) = S[i]
  <2> DEFINE o == i - (x + n) - 1
  <2>1. /\ o \in 0 .. NumberToRead(q) - n /\ n + o \in 0 .. a - x - 1
        /\ x + (n + o) + 1 = i
    BY <1>1
  <2> HIDE DEF o
  <2>2. ReadAhead(r, o) = ReadAhead(q, n + o)
    BY <1>1, <2>1, AheadAfter
  <2>3. ReadAhead(q, n + o) = S[i]
    BY <1>1, <2>1
  <2> QED
    BY <2>2, <2>3 DEF o
<1> HIDE DEF r
<1>4. x + n \in Nat /\ (x + n) + NumberToRead(r) = a
  BY <1>1, <1>2
<1> QED
  BY <1>1, <1>2, <1>3, <1>4 DEF Shows, r

(* Three bytes at hand, in a queue and among the bytes. *)
LEMMA ThreeAhead ==
  ASSUME NEW q, NEW S, NEW x, NEW a, Shows(q, S, x, a), NEW b, NumberToRead(q) >= 3,
         Peek(q, 3) = <<b, b, b>>
  PROVE  x + 3 <= a /\ S[x + 1] = b /\ S[x + 2] = b /\ S[x + 3] = b
<1>1. /\ NumberToRead(q) = a - x /\ x \in Nat /\ a \in Nat /\ x <= a
      /\ \A i \in 0 .. a - x - 1 : ReadAhead(q, i) = S[x + i + 1]
  BY ShownAhead
<1>2. 0 \in 0 .. a - x - 1 /\ 1 \in 0 .. a - x - 1 /\ 2 \in 0 .. a - x - 1
  BY <1>1
<1>3. ReadAhead(q, 0) = S[x + 1] /\ ReadAhead(q, 1) = S[x + 2] /\ ReadAhead(q, 2) = S[x + 3]
  BY <1>1, <1>2
<1>4. \A i \in 1 .. 3 : Peek(q, 3)[i] = ReadAhead(q, i - 1)
  BY DEF Peek
<1>5. \A i \in 1 .. 3 : <<b, b, b>>[i] = b
  OBVIOUS
<1>6. ReadAhead(q, 0) = b /\ ReadAhead(q, 1) = b /\ ReadAhead(q, 2) = b
  <2>1. \A i \in 1 .. 3 : ReadAhead(q, i - 1) = b
    BY <1>4, <1>5
  <2>2. /\ 1 \in 1 .. 3 /\ 2 \in 1 .. 3 /\ 3 \in 1 .. 3
        /\ 1 - 1 = 0 /\ 2 - 1 = 1 /\ 3 - 1 = 2
    OBVIOUS
  <2> QED
    BY <2>1, <2>2
<1> QED
  BY <1>1, <1>3, <1>6

(* queue_skip_to_next_packet goes no further than noise does, where it ends *)
(* with the "+++" of a packet or with all that is sent.                     *)
LEMMA SkipStops ==
  ASSUME NEW q, NEW S, NEW x, NEW a, Shows(q, S, x, a), NEW e \in Nat,
         x <= e, e <= Len(S), Len(S) \in Nat,
         \/ e = Len(S)
         \/ S[e + 1] = Plus /\ S[e + 2] = Plus /\ S[e + 3] = Plus
  PROVE  \E y \in x .. e : y <= a /\ Shows(SkipToNextPacket(q), S, y, a)
<1> DEFINE n == NumberToRead(q)
           starts == PacketStarts(q)
<1>1. /\ n = a - x /\ x \in Nat /\ a \in Nat /\ x <= a /\ a <= Len(S) /\ n \in Nat
      /\ \A i \in 0 .. a - x - 1 : ReadAhead(q, i) = S[x + i + 1]
  BY ShownAhead
<1>2. ASSUME e + 3 <= a PROVE e - x \in starts
  <2>1. e - x \in 0 .. n - 3 /\ e + 1 <= Len(S)
    BY <1>1, <1>2
  <2>2. S[e + 1] = Plus /\ S[e + 2] = Plus /\ S[e + 3] = Plus
    BY <1>1, <1>2
  <2>3. ASSUME NEW k \in 0 .. 2 PROVE ReadAhead(q, e - x + k) = Plus
    <3>1. e - x + k \in 0 .. a - x - 1 /\ x + (e - x + k) + 1 = e + 1 + k
      BY <1>1, <1>2
    <3>2. ReadAhead(q, e - x + k) = S[e + 1 + k]
      BY <1>1, <3>1
    <3>3. e + 1 + k \in {e + 1, e + 2, e + 3}
      OBVIOUS
    <3> QED
      BY <2>2, <3>2, <3>3
  <2> QED
    BY <2>1, <2>3 DEF PacketStarts
<1>3. starts \subseteq 0 .. n - 3 /\ starts \subseteq Nat
  BY <1>1 DEF PacketStarts
<1>4. SkipToNextPacket(q) =
        IF starts # {} THEN IncrementRead(q, Least(starts))
        ELSE IF n >= 3 THEN IncrementRead(q, n - 2)
        ELSE q
  BY DEF SkipToNextPacket
<1> HIDE DEF n, starts
<1>5. CASE starts # {}
  <2> DEFINE l == Least(starts)
  <2>1. l \in starts /\ \A j \in starts : l <= j
    BY <1>3, <1>5, LeastIs
  <2>2. l \in 0 .. n - 3
    BY <1>3, <2>1
  <2> HIDE DEF l
  <2>3. x + l <= e
    <3>1. CASE e + 3 <= a
      BY <1>1, <1>2, <2>1, <2>2, <3>1
    <3>2. CASE ~(e + 3 <= a)
      BY <1>1, <2>2, <3>2
    <3> QED
      BY <3>1, <3>2
  <2>4. l \in 0 .. a - x /\ x + l \in x .. e /\ x + l <= a
    BY <1>1, <2>2, <2>3
  <2>5. Shows(IncrementRead(q, l), S, x + l, a)
    BY <2>4, ShownOn
  <2> QED
    BY <1>4, <1>5, <2>4, <2>5 DEF l
<1>6. CASE starts = {} /\ n >= 3
  <2>1. ~(e + 3 <= a)
    BY <1>2, <1>6
  <2>2. n - 2 \in 0 .. a - x /\ x + (n - 2) \in x .. e /\ x + (n - 2) <= a
    BY <1>1, <1>6, <2>1
  <2>3. Shows(IncrementRead(q, n - 2), S, x + (n - 2), a)
    BY <2>2, ShownOn
  <2> QED
    BY <1>4, <1>6, <2>2, <2>3
<1>7. CASE starts = {} /\ ~(n >= 3)
  <2>1. x \in x .. e
    BY <1>1
  <2> QED
    BY <1>1, <1>4, <1>7, <2>1
<1> QED
  BY <1>5, <1>6, <1>7

(* Neither does queue_skip_terminator_of_packet. *)
LEMMA TerminatorStops ==
  ASSUME NEW q, NEW S, NEW x, NEW a, Shows(q, S, x, a), NEW e \in Nat,
         x <= e, e <= Len(S), Len(S) \in Nat,
         \/ e = Len(S)
         \/ S[e + 1] = Plus
  PROVE  \E y \in x .. e : y <= a /\ Shows(SkipTerminator(q), S, y, a)
<1>1. /\ NumberToRead(q) = a - x /\ x \in Nat /\ a \in Nat /\ x <= a /\ a <= Len(S)
  BY ShownAhead
<1>2. CASE NumberToRead(q) >= 3 /\ Peek(q, 3) = <<Minus, Minus, Minus>>
  <2>1. x + 3 <= a /\ S[x + 1] = Minus /\ S[x + 2] = Minus /\ S[x + 3] = Minus
    BY <1>2, ThreeAhead
  <2>2. x + 3 <= e
    <3>1. e # x /\ e # x + 1 /\ e # x + 2
      <4>1. /\ x # Len(S) /\ x + 1 # Len(S) /\ x + 2 # Len(S)
            /\ x + 1 + 1 = x + 2 /\ x + 2 + 1 = x + 3
        BY <1>1, <2>1
      <4>2. Minus # Plus
        BY DEF Minus, Plus
      <4> QED
        BY <2>1, <4>1, <4>2
    <3> QED
      BY <1>1, <3>1
  <2>3. 3 \in 0 .. a - x /\ x + 3 \in x .. e
    BY <1>1, <2>1, <2>2
  <2>4. Shows(IncrementRead(q, 3), S, x + 3, a)
    BY <2>3, ShownOn
  <2> QED
    BY <1>2, <2>1, <2>3, <2>4 DEF SkipTerminator
<1>3. CASE ~(NumberToRead(q) >= 3 /\ Peek(q, 3) = <<Minus, Minus, Minus>>)
  <2>1. x \in x .. e /\ SkipTerminator(q) = q
    BY <1>1, <1>3 DEF SkipTerminator
  <2> QED
    BY <1>1, <2>1
<1> QED
  BY <1>2, <1>3

-----------------------------------------------------------------------------
(* A packet at the front of the ring: its first n bytes have come.          *)

AtFront(q, S, x, a, b, n, c) ==
  /\ Shows(q, S, x + c, a)
  /\ x \in Nat /\ c \in 0 .. n /\ n \in Nat /\ x + n <= a
  /\ \A i \in 1 .. n : S[x + i] = b[i]

(* The bytes ahead are bytes of the packet. *)
LEMMA FrontAhead ==
  ASSUME NEW q, NEW S, NEW x, NEW a, NEW b, NEW n, NEW c, AtFront(q, S, x, a, b, n, c)
  PROVE  /\ \A i \in 0 .. n - c - 1 : ReadAhead(q, i) = b[c + i + 1]
         /\ a \in Nat /\ NumberToRead(q) = a - (x + c) /\ q \in Queues
         /\ x \in Nat /\ c \in 0 .. n /\ n \in Nat /\ x + n <= a
         /\ Shows(q, S, x + c, a) /\ a <= Len(S)
<1>1. /\ NumberToRead(q) = a - (x + c) /\ x + c \in Nat /\ a \in Nat /\ q \in Queues
      /\ \A i \in 0 .. a - (x + c) - 1 : ReadAhead(q, i) = S[x + c + i + 1]
  BY ShownAhead, SMTT(30) DEF AtFront
<1>2. /\ x \in Nat /\ c \in 0 .. n /\ n \in Nat /\ x + n <= a
      /\ \A i \in 1 .. n : S[x + i] = b[i]
  BY DEF AtFront
<1>3. ASSUME NEW i \in 0 .. n - c - 1 PROVE ReadAhead(q, i) = b[c + i + 1]
  <2>1. /\ i \in 0 .. a - (x + c) - 1 /\ c + i + 1 \in 1 .. n
        /\ x + c + i + 1 = x + (c + i + 1)
    BY <1>1, <1>2
  <2> QED
    BY <1>1, <1>2, <2>1
<1> QED
  BY <1>1, <1>2, <1>3 DEF AtFront, Shows

(* One of them. *)
LEMMA FrontByte ==
  ASSUME NEW q, NEW S, NEW x, NEW a, NEW b, NEW n, NEW c, AtFront(q, S, x, a, b, n, c),
         NEW i \in Nat, NEW k, k = c + i + 1, k <= n
  PROVE  ReadAhead(q, i) = b[k]
<1>1. c \in 0 .. n /\ n \in Nat /\ \A o \in 0 .. n - c - 1 : ReadAhead(q, o) = b[c + o + 1]
  BY FrontAhead
<1>2. i \in 0 .. n - c - 1
  BY <1>1
<1> QED
  BY <1>1, <1>2

(* Reading on within the packet. *)
LEMMA FrontOn ==
  ASSUME NEW q, NEW S, NEW x, NEW a, NEW b, NEW n, NEW c, AtFront(q, S, x, a, b, n, c),
         NEW d \in 0 .. n - c
  PROVE  AtFront(IncrementRead(q, d), S, x, a, b, n, c + d)
<1>1. /\ x \in Nat /\ c \in 0 .. n /\ n \in Nat /\ x + n <= a /\ a \in Nat
      /\ Shows(q, S, x + c, a)
  BY FrontAhead
<1>2. d \in 0 .. a - (x + c) /\ c + d \in 0 .. n /\ (x + c) + d = x + (c + d)
  BY <1>1
<1>3. Shows(IncrementRead(q, d), S, x + (c + d), a)
  BY <1>1, <1>2, ShownOn
<1> QED
  BY <1>1, <1>2, <1>3 DEF AtFront

(* The byte before is one of the packet. *)
LEMMA FrontBefore ==
  ASSUME NEW q, NEW S, NEW x, NEW a, NEW b, NEW n, NEW c, AtFront(q, S, x, a, b, n, c),
         NEW d \in 1 .. n - c
  PROVE  PreviousByte(IncrementRead(q, d)) = b[c + d]
<1>1. /\ x \in Nat /\ c \in 0 .. n /\ n \in Nat /\ x + n <= a /\ a \in Nat
      /\ NumberToRead(q) = a - (x + c) /\ q \in Queues
      /\ \A i \in 0 .. n - c - 1 : ReadAhead(q, i) = b[c + i + 1]
  BY FrontAhead
<1>2. /\ d \in 1 .. NumberToRead(q) /\ d - 1 \in 0 .. n - c - 1
      /\ c + (d - 1) + 1 = c + d
  BY <1>1
<1> QED
  BY <1>1, <1>2, PreviousIs

(* The current byte is the first of those ahead. *)
LEMMA CurrentIs ==
  ASSUME NEW q \in Queues
  PROVE  CurrentByte(q) = ReadAhead(q, 0)
<1>1. 0 \in 0 .. QUEUE_SIZE - 1
  BY Fields
<1>2. q.read + 0 = q.read /\ q.read < QUEUE_SIZE
  BY Fields
<1> QED
  BY <1>1, <1>2, AheadIs DEF CurrentByte

(* Its size, when it has come by it. *)
LEMMA SizeIs ==
  ASSUME NEW q, NEW S, NEW x, NEW a, NEW b \in Seq(BYTE), Shows(q, S, x, a), Arrived(q),
         Len(b) >= 6, \A i \in 1 .. Len(b) : S[x + i] = b[i],
         NEW n, n = SizeIn(b) + 6, n <= Len(b)
  PROVE  /\ n \in Nat /\ n >= 6 /\ PacketSize(q) = n - 6 /\ PacketType(q) = b[6]
         /\ AtFront(q, S, x, a, b, n, 0)
<1>1. /\ NumberToRead(q) = a - x /\ x \in Nat /\ a \in Nat
      /\ NumberToRead(q) >= 6 /\ NumberToRead(q) >= PacketSize(q) + 6
      /\ \A i \in 0 .. a - x - 1 : ReadAhead(q, i) = S[x + i + 1]
  BY ShownAhead DEF Arrived
<1>2. /\ 3 \in 0 .. a - x - 1 /\ 4 \in 0 .. a - x - 1 /\ 5 \in 0 .. a - x - 1
      /\ 4 \in 1 .. Len(b) /\ 5 \in 1 .. Len(b) /\ 6 \in 1 .. Len(b)
      /\ x + 3 + 1 = x + 4 /\ x + 4 + 1 = x + 5 /\ x + 5 + 1 = x + 6
  BY <1>1
<1>3. ReadAhead(q, 3) = b[4] /\ ReadAhead(q, 4) = b[5] /\ ReadAhead(q, 5) = b[6]
  BY <1>1, <1>2
<1>4. PacketSize(q) = SizeIn(b) /\ PacketType(q) = b[6]
  BY <1>3 DEF PacketSize, SizeIn, PacketType
<1>5. SizeIn(b) \in Nat
  <2>1. b[4] \in BYTE /\ b[5] \in BYTE
    BY <1>2
  <2> QED
    <3>1. b[4] \in Nat /\ b[5] \in Nat
      BY <2>1, NumbersAssumption
    <3>2. \A i, j \in Nat : i + 256 * j \in Nat
      OBVIOUS
    <3> QED
      BY <3>1, <3>2 DEF SizeIn
<1>6. /\ n \in Nat /\ n >= 6 /\ PacketSize(q) = n - 6 /\ x + n <= a
      /\ 0 \in 0 .. n /\ x + 0 = x /\ \A i \in 1 .. n : i \in 1 .. Len(b)
  <2> DEFINE m == SizeIn(b)
             l == Len(b)
             t == NumberToRead(q)
  <2>1. m \in Nat /\ l \in Nat /\ n = m + 6 /\ n <= l /\ t = a - x /\ t >= m + 6
    BY <1>1, <1>4, <1>5
  <2> HIDE DEF m, l, t
  <2>2. x \in Nat /\ a \in Nat
    BY <1>1
  <2>3. n \in Nat /\ n >= 6 /\ m = n - 6 /\ x + n <= a
    BY <2>1, <2>2
  <2>4. 0 \in 0 .. n /\ x + 0 = x
    BY <2>2, <2>3
  <2>5. \A i \in 1 .. n : i \in 1 .. l
    BY <2>1, <2>3
  <2> QED
    BY <1>4, <2>3, <2>4, <2>5 DEF m, l
<1> QED
  BY <1>1, <1>4, <1>6 DEF AtFront

(* Whether it is well formed. *)
LEMMA WellFormedIs ==
  ASSUME NEW q, NEW S, NEW x, NEW a, NEW b, NEW n, AtFront(q, S, x, a, b, n, 0),
         n >= 6, PacketSize(q) = n - 6, PacketType(q) = b[6]
  PROVE  WellFormed(q) <=> b[6] \in PacketTypes /\ \A p \in n - 2 .. n : b[p] = Minus
<1>1. /\ n \in Nat
      /\ \A i \in 0 .. n - 0 - 1 : ReadAhead(q, i) = b[0 + i + 1]
  BY FrontAhead, SMTT(30)
<1>2. ASSUME NEW k \in 0 .. 2
      PROVE  ReadAhead(q, 3 + PacketSize(q) + k) = b[n - 2 + k]
  <2>1. /\ 3 + (n - 6) + k \in 0 .. n - 0 - 1
        /\ 0 + (3 + (n - 6) + k) + 1 = n - 2 + k
    BY <1>1
  <2> QED
    BY <1>1, <2>1
<1>3. ASSUME NEW p \in n - 2 .. n
      PROVE  p - (n - 2) \in 0 .. 2 /\ n - 2 + (p - (n - 2)) = p
  BY <1>1
<1>4. \A k \in 0 .. 2 : n - 2 + k \in n - 2 .. n
  BY <1>1
<1>5. (\A k \in 0 .. 2 : ReadAhead(q, 3 + PacketSize(q) + k) = Minus)
        <=> (\A p \in n - 2 .. n : b[p] = Minus)
  <2>1. (\A k \in 0 .. 2 : ReadAhead(q, 3 + PacketSize(q) + k) = Minus)
          <=> (\A k \in 0 .. 2 : b[n - 2 + k] = Minus)
    BY <1>2
  <2>2. (\A k \in 0 .. 2 : b[n - 2 + k] = Minus) <=> (\A p \in n - 2 .. n : b[p] = Minus)
    <3>1. ASSUME \A k \in 0 .. 2 : b[n - 2 + k] = Minus, NEW p \in n - 2 .. n
          PROVE  b[p] = Minus
      BY <1>3, <3>1
    <3>2. ASSUME \A p \in n - 2 .. n : b[p] = Minus, NEW k \in 0 .. 2
          PROVE  b[n - 2 + k] = Minus
      BY <1>4, <3>2
    <3> QED
      BY <3>1, <3>2
  <2> QED
    BY <2>1, <2>2
<1> QED
  BY <1>5 DEF WellFormed

-----------------------------------------------------------------------------
(* Text commands. *)

(* The command found in the packet is the one its bytes have, and the       *)
(* server is behind the c-th of them, or would be if it were in the ring;   *)
(* if it is not, the terminator is next.                                    *)
Found(command, S, x, a, b, n, c) ==
  /\ InPlace(command.queue)
  /\ command.queue \notin Queues => c = n - 3
  /\ AtFront(Shown(command.queue), S, x, a, b, n, c)
  /\ command.complete <=> HasName(b)
  /\ HasName(b) =>
       /\ command.queue \in Queues
       /\ command.name = SubSeq(b, 7, NameEnd(b) - 1)
       /\ c = NameEnd(b) /\ c \in 8 .. n - 3
       /\ b[c] \in {Space, Newline}
       /\ PreviousByte(command.queue) = b[c]

(* One step back from behind the first byte of the terminator is before it. *)
LEMMA FrontBack ==
  ASSUME NEW p, NEW S, NEW x, NEW a, NEW b \in Seq(BYTE), NEW n, n = Len(b), n >= 9,
         AtFront(p, S, x, a, b, n, 6), Terminated(b),
         NEW r, r = IncrementRead(IncrementRead(p, n - 8), -1)
  PROVE  /\ InPlace(r) /\ AtFront(Shown(r), S, x, a, b, n, n - 3)
<1>1. n \in Nat
  OBVIOUS
<1>2. /\ p \in Queues /\ NumberToRead(p) = a - (x + 6) /\ x \in Nat /\ a \in Nat /\ x + n <= a
  BY FrontAhead
<1>3. n - 9 \in Nat /\ (n - 9) + 1 = n - 8 /\ (n - 9) + 1 <= NumberToRead(p)
  BY <1>1, <1>2
<1>4. /\ Shown(r) = IncrementRead(p, n - 9)
      /\ \/ r \in Queues
         \/ /\ r \in [data : [Index -> BYTE], store : Index, read : {-1}]
            /\ NumberToRead(p) = (n - 9) + NumberToRead(r)
  <2> DEFINE m == n - 9
  <2>1. m \in Nat /\ m + 1 <= NumberToRead(p) /\ r = IncrementRead(IncrementRead(p, m + 1), -1)
    BY <1>3
  <2> HIDE DEF m
  <2>2. /\ Shown(r) = IncrementRead(p, m)
        /\ \/ r \in Queues
           \/ /\ r \in [data : [Index -> BYTE], store : Index, read : {-1}]
              /\ NumberToRead(p) = m + NumberToRead(r)
    BY <1>2, <2>1, OneBack
  <2> QED
    BY <2>2 DEF m
<1>5. AtFront(Shown(r), S, x, a, b, n, n - 3)
  <2>1. n - 9 \in 0 .. n - 6 /\ 6 + (n - 9) = n - 3
    BY <1>1
  <2> QED
    BY <1>4, <2>1, FrontOn
<1>6. CASE r \in [data : [Index -> BYTE], store : Index, read : {-1}]
             /\ NumberToRead(p) = (n - 9) + NumberToRead(r)
  <2> DEFINE s == Shown(r)
  <2>1. s \in Queues /\ NumberToRead(s) = a - (x + (n - 3))
    BY <1>5, FrontAhead
  <2>2. s.data = r.data /\ s.read = QUEUE_SIZE - 1
    BY <1>6 DEF Shown
  <2>3. /\ NumberToRead(s) >= 3 /\ NumberToRead(s) \in 0 .. QUEUE_SIZE - 1
        /\ QUEUE_SIZE \in Nat
    BY <1>1, <1>2, <2>1, ToRead, Fields
  <2>4. NumberToRead(p) \in 0 .. QUEUE_SIZE - 1 /\ NumberToRead(p) = (n - 9) + NumberToRead(s)
    BY <1>1, <1>2, <2>1, ToRead
  <2> HIDE DEF s
  <2>5. ReadAhead(s, 0) = Minus /\ ReadAhead(s, 1) = Minus /\ ReadAhead(s, 2) = Minus
    <3>1. b[n - 2] = Minus /\ b[n - 1] = Minus /\ b[n] = Minus
      <4>1. n - 2 \in n - 2 .. n /\ n - 1 \in n - 2 .. n /\ n \in n - 2 .. n
        BY <1>1
      <4> QED
        BY <4>1 DEF Terminated
    <3>2. /\ n - 2 = (n - 3) + 0 + 1 /\ n - 1 = (n - 3) + 1 + 1 /\ n = (n - 3) + 2 + 1
          /\ n - 2 <= n /\ n - 1 <= n /\ n <= n
      BY <1>1
    <3> DEFINE c == n - 3
    <3>3. AtFront(s, S, x, a, b, n, c)
      BY <1>5 DEF s
    <3> HIDE DEF c
    <3>4. ReadAhead(s, 0) = b[n - 2] /\ ReadAhead(s, 1) = b[n - 1] /\ ReadAhead(s, 2) = b[n]
      <4>1. n - 2 = c + 0 + 1 /\ n - 1 = c + 1 + 1 /\ n = c + 2 + 1
        BY <3>2 DEF c
      <4>2. 0 \in Nat /\ 1 \in Nat /\ 2 \in Nat
        OBVIOUS
      <4>3. ReadAhead(s, 0) = b[n - 2]
        BY <3>2, <3>3, <4>1, <4>2, FrontByte
      <4>4. ReadAhead(s, 1) = b[n - 1]
        BY <3>2, <3>3, <4>1, <4>2, FrontByte
      <4>5. ReadAhead(s, 2) = b[n]
        BY <3>2, <3>3, <4>1, <4>2, FrontByte
      <4> QED
        BY <4>3, <4>4, <4>5
    <3> QED
      BY <3>1, <3>4
  <2>6. r.data[QUEUE_SIZE - 1] = Minus /\ r.data[0] = Minus /\ r.data[1] = Minus
    <3>1. /\ 0 \in 0 .. QUEUE_SIZE - 1 /\ 1 \in 0 .. QUEUE_SIZE - 1 /\ 2 \in 0 .. QUEUE_SIZE - 1
          /\ s.read + 0 < QUEUE_SIZE /\ s.read + 0 = QUEUE_SIZE - 1
          /\ ~(s.read + 1 < QUEUE_SIZE) /\ s.read + 1 - QUEUE_SIZE = 0
          /\ ~(s.read + 2 < QUEUE_SIZE) /\ s.read + 2 - QUEUE_SIZE = 1
      BY <2>2, <2>3
    <3>2. /\ ReadAhead(s, 0) = s.data[QUEUE_SIZE - 1]
          /\ ReadAhead(s, 1) = s.data[0] /\ ReadAhead(s, 2) = s.data[1]
      BY <2>1, <3>1, AheadIs
    <3> QED
      BY <2>2, <2>5, <3>2
  <2>7. NumberToRead(r) = NumberToRead(s)
    <3>1. NumberToRead(r) \in Int
      <4>1. r.store \in Int /\ r.read = -1
        BY <1>6, <2>3 DEF Index
      <4>2. ((QUEUE_SIZE + r.store) - r.read) \in Int
        BY <2>3, <4>1
      <4> QED
        BY <2>3, <4>2 DEF NumberToRead
    <3> QED
      BY <1>1, <1>6, <2>3, <2>4, <3>1
  <2> QED
    BY <1>5, <1>6, <2>3, <2>6, <2>7 DEF InPlace, OneBefore
<1> QED
  BY <1>4, <1>5, <1>6, ShownInRing

(* get_command_text finds the name the bytes have, and stops behind what    *)
(* ends it; without a name it stops within the packet.                      *)
LEMMA CommandIsFound ==
  ASSUME NEW q, NEW S, NEW x, NEW a, NEW b \in Seq(BYTE), NEW n, n = Len(b), n >= 9,
         AtFront(q, S, x, a, b, n, 0), PacketSize(q) = n - 6, Terminated(b)
  PROVE  \E c \in 6 .. n : Found(CommandText(q), S, x, a, b, n, c)
<1> DEFINE body == PacketSize(q) - 3
           p == IncrementRead(q, 6)
           ends == {i \in 1 .. body : /\ i < MAX_COMMAND_NAME_LENGTH
                                      /\ ReadAhead(p, i) \in {Space, Newline}}
           e == Least(ends)
           tried == IF body + 1 < MAX_COMMAND_NAME_LENGTH THEN body + 1
                                                          ELSE MAX_COMMAND_NAME_LENGTH
           none(after) == [queue |-> after, complete |-> FALSE, name |-> << >>]
<1>1. CommandText(q) =
        IF CurrentByte(p) = Newline \/ body = 1 THEN none(IncrementRead(p, 1))
        ELSE IF body = 0 THEN none(p)
        ELSE IF ends # {} THEN [queue |-> IncrementRead(p, e + 1), complete |-> TRUE,
                                name |-> Peek(p, e)]
        ELSE IF tried = MAX_COMMAND_NAME_LENGTH
          THEN none(IncrementRead(IncrementRead(p, tried), body - tried))
        ELSE none(IncrementRead(p, tried))
  BY DEF CommandText
<1>2. \A after : none(after).queue = after /\ none(after).complete = FALSE
  OBVIOUS
<1>3. /\ n \in Nat /\ body = n - 9 /\ body \in Nat
      /\ MAX_COMMAND_NAME_LENGTH \in Nat
  <2>1. n \in Nat
    OBVIOUS
  <2> QED
    BY <2>1, NameLengthAssumption
<1>4. AtFront(p, S, x, a, b, n, 6)
  <2>1. 6 \in 0 .. n - 0 /\ 0 + 6 = 6
    BY <1>3
  <2> QED
    BY <2>1, FrontOn
<1> HIDE DEF p
<1>5. \A i \in 0 .. body + 2 : ReadAhead(p, i) = b[i + 7]
  <2> SUFFICES ASSUME NEW i \in 0 .. body + 2 PROVE ReadAhead(p, i) = b[i + 7]
    OBVIOUS
  <2> DEFINE k == i + 7
  <2>1. i \in Nat /\ k = 6 + i + 1 /\ k <= n
    BY <1>3
  <2> HIDE DEF k
  <2>2. ReadAhead(p, i) = b[k]
    BY <1>4, <2>1, FrontByte, SMTT(30)
  <2> QED
    BY <2>2 DEF k
<1>6. CurrentByte(p) = b[7]
  <2>1. p \in Queues
    BY <1>4, FrontAhead
  <2>2. 0 \in 0 .. body + 2 /\ 0 + 7 = 7
    BY <1>3
  <2> QED
    BY <1>5, <2>1, <2>2, CurrentIs
<1>7. ASSUME NEW i \in 1 .. body
      PROVE  i \in ends <=> i + 7 \in NameEnds(b)
  <2>1. ReadAhead(p, i) = b[i + 7]
    BY <1>3, <1>5
  <2>2. CASE i = body
    <3>1. i + 7 = n - 2 /\ n - 2 \in Len(b) - 2 .. Len(b)
      BY <1>3, <2>2
    <3>2. b[i + 7] = Minus
      BY <3>1 DEF Terminated
    <3>3. Minus \notin {Space, Newline}
      BY DEF Minus, Space, Newline
    <3> QED
      BY <2>1, <3>2, <3>3 DEF NameEnds
  <2>3. CASE i # body
    <3>1. i + 7 \in 8 .. Len(b) - 3
      BY <1>3, <2>3
    <3>2. i + 7 <= MAX_COMMAND_NAME_LENGTH + 6 <=> i < MAX_COMMAND_NAME_LENGTH
      BY <1>3
    <3> QED
      BY <2>1, <3>1, <3>2 DEF NameEnds
  <2> QED
    BY <2>2, <2>3
<1>8. \A j \in NameEnds(b) : j - 7 \in 1 .. body /\ j = (j - 7) + 7
  BY <1>3 DEF NameEnds
<1>9. ends \subseteq 1 .. body
  OBVIOUS
<1>10. ends # {} <=> NameEnds(b) # {}
  <2>1. ASSUME NEW i \in ends PROVE i + 7 \in NameEnds(b)
    BY <1>7, <1>9
  <2>2. ASSUME NEW j \in NameEnds(b) PROVE j - 7 \in ends
    BY <1>7, <1>8
  <2> QED
    BY <2>1, <2>2
<1> HIDE DEF none, ends, body, tried
<1>11. CASE HasName(b)
  <2>1. ends # {} /\ b[7] # Newline /\ NameEnds(b) # {}
    BY <1>10, <1>11 DEF HasName
  <2>2. e \in ends /\ \A j \in ends : e <= j
    <3>1. ends \subseteq Nat
      BY <1>3, <1>9
    <3> QED
      BY <2>1, <3>1, LeastIs
  <2>3. NameEnd(b) \in NameEnds(b) /\ \A j \in NameEnds(b) : NameEnd(b) <= j
    <3>1. NameEnds(b) \subseteq Nat
      BY DEF NameEnds
    <3> QED
      BY <2>1, <3>1, LeastIs DEF NameEnd
  <2>4. e \in 1 .. body
    BY <1>9, <2>2
  <2> HIDE DEF e
  <2>5. NameEnd(b) = e + 7
    <3>1. e + 7 \in NameEnds(b) /\ NameEnd(b) - 7 \in ends /\ NameEnd(b) \in Int
      <4>1. NameEnd(b) - 7 \in 1 .. body /\ NameEnd(b) = (NameEnd(b) - 7) + 7
        BY <1>8, <2>3
      <4>2. NameEnd(b) - 7 \in ends
        BY <1>7, <2>3, <4>1
      <4> QED
        BY <1>7, <2>2, <2>3, <2>4, <4>2 DEF NameEnds
    <3>2. NameEnd(b) <= e + 7 /\ e <= NameEnd(b) - 7
      BY <2>2, <2>3, <3>1
    <3> QED
      BY <1>3, <2>4, <3>1, <3>2
  <2>6. body # 0 /\ body # 1
    <3>1. NameEnd(b) \in 8 .. n - 3
      BY <2>3 DEF NameEnds
    <3>2. \A c \in 8 .. n - 3 : n - 9 # 0 /\ n - 9 # 1
      BY <1>3, SMTT(30)
    <3> QED
      BY <1>3, <3>1, <3>2
  <2>7. CommandText(q) = [queue |-> IncrementRead(p, e + 1), complete |-> TRUE,
                          name |-> Peek(p, e)]
    BY <1>1, <1>6, <2>1, <2>6 DEF e
  <2> DEFINE c == NameEnd(b)
  <2>8. /\ c \in 8 .. n - 3 /\ c \in 6 .. n /\ c = 6 + (e + 1)
        /\ e + 1 \in 1 .. n - 6 /\ e + 1 \in 0 .. n - 6
    BY <1>3, <2>3, <2>4, <2>5, SMTT(30) DEF NameEnds
  <2>9. b[c] \in {Space, Newline}
    BY <2>3 DEF NameEnds
  <2>10. /\ AtFront(IncrementRead(p, e + 1), S, x, a, b, n, c)
         /\ PreviousByte(IncrementRead(p, e + 1)) = b[c]
    BY <1>4, <2>8, FrontOn, FrontBefore
  <2>11. Peek(p, e) = SubSeq(b, 7, c - 1)
    <3> DEFINE s == SubSeq(b, 7, c - 1)
    <3>1. \A i \in 1 .. e : i - 1 \in 0 .. body + 2 /\ (i - 1) + 7 = i + 6 /\ i + 6 \in 1 .. Len(b)
      BY <1>3, <2>4
    <3>2. Peek(p, e) = [i \in 1 .. e |-> b[i + 6]]
      BY <1>5, <3>1 DEF Peek
    <3>3. e \in Nat /\ \A i \in 1 .. e : b[i + 6] \in BYTE
      BY <1>3, <2>4, <3>1
    <3>4. Peek(p, e) \in Seq(BYTE) /\ Len(Peek(p, e)) = e
      BY <3>2, <3>3
    <3>5. 7 \in 1 .. Len(b) + 1 /\ c - 1 \in 7 - 1 .. Len(b)
      BY <1>3, <2>8
    <3>6. s \in Seq(BYTE) /\ Len(s) = (IF 7 <= c - 1 THEN (c - 1) - 7 + 1 ELSE 0)
          /\ \A i \in 1 .. (c - 1) - 7 + 1 : s[i] = b[7 + i - 1]
      BY <3>5, SubSeqProperties
    <3>7. Len(s) = e /\ \A i \in 1 .. e : s[i] = b[i + 6]
      <4>1. 7 <= c - 1 /\ (c - 1) - 7 + 1 = e /\ \A i \in 1 .. e : 7 + i - 1 = i + 6
        BY <1>3, <2>4, <2>5
      <4> QED
        BY <3>6, <4>1
    <3> HIDE DEF s
    <3>8. \A i \in 1 .. Len(s) : Peek(p, e)[i] = s[i]
      BY <3>2, <3>7
    <3> QED
      BY <3>4, <3>6, <3>7, <3>8, SeqEqual DEF s
  <2>12. /\ CommandText(q).queue = IncrementRead(p, e + 1)
         /\ CommandText(q).complete = TRUE /\ CommandText(q).name = Peek(p, e)
    BY <2>7
  <2> HIDE DEF c
  <2>13. /\ AtFront(Shown(CommandText(q).queue), S, x, a, b, n, c)
         /\ PreviousByte(CommandText(q).queue) = b[c]
         /\ InPlace(CommandText(q).queue) /\ CommandText(q).queue \in Queues
    <3>1. IncrementRead(p, e + 1) \in Queues
      BY <2>10, FrontAhead
    <3> QED
      BY <2>10, <2>12, <3>1, ShownInRing
  <2>14. CommandText(q).name = SubSeq(b, 7, NameEnd(b) - 1) /\ c = NameEnd(b)
    BY <2>11, <2>12 DEF c
  <2> QED
    BY <1>11, <2>8, <2>9, <2>12, <2>13, <2>14 DEF Found
<1>12. CASE ~HasName(b)
  <2>1. b[7] = Newline \/ ends = {}
    BY <1>10, <1>12 DEF HasName
  <2>2. CASE CommandText(q) = none(IncrementRead(p, 1)) \/ CommandText(q) = none(p)
    <3>1. 1 \in 0 .. n - 6
      BY <1>3
    <3>2. AtFront(IncrementRead(p, 1), S, x, a, b, n, 6 + 1)
      BY <1>4, <3>1, FrontOn
    <3>3. /\ 6 \in 6 .. n /\ 6 + 1 \in 6 .. n
      BY <1>3
    <3>4. p \in Queues /\ IncrementRead(p, 1) \in Queues
      BY <1>4, <3>2, FrontAhead
    <3>5. PICK c \in 6 .. n : AtFront(CommandText(q).queue, S, x, a, b, n, c)
      BY <1>2, <1>4, <2>2, <3>2, <3>3
    <3>6. CommandText(q).queue \in Queues /\ CommandText(q).complete = FALSE
      BY <1>2, <2>2, <3>4
    <3> QED
      BY <1>12, <3>5, <3>6, ShownInRing DEF Found
  <2>3. CASE CommandText(q) = none(IncrementRead(p, tried)) /\ tried # MAX_COMMAND_NAME_LENGTH
    <3>1. tried \in 0 .. n - 6 /\ 6 + tried \in 6 .. n
      BY <1>3, <2>3 DEF tried
    <3>2. AtFront(IncrementRead(p, tried), S, x, a, b, n, 6 + tried)
      BY <1>4, <3>1, FrontOn
    <3>3. /\ CommandText(q).queue = IncrementRead(p, tried)
          /\ CommandText(q).complete = FALSE /\ IncrementRead(p, tried) \in Queues
      BY <1>2, <2>3, <3>2, FrontAhead
    <3> QED
      BY <1>12, <3>1, <3>2, <3>3, ShownInRing DEF Found
  <2>4. CASE /\ tried = MAX_COMMAND_NAME_LENGTH
             /\ CommandText(q) = none(IncrementRead(IncrementRead(p, tried), body - tried))
    <3> DEFINE r == IncrementRead(IncrementRead(p, tried), body - tried)
    <3>1. CommandText(q).queue = r /\ CommandText(q).complete = FALSE
      BY <1>2, <2>4
    <3>2. tried \in 0 .. n - 6 /\ tried \in Nat
      BY <1>3, <2>4 DEF tried
    <3>3. InPlace(r) /\ AtFront(Shown(r), S, x, a, b, n, n - 3)
      <4>1. CASE tried <= body
        <5>1. body - tried \in 0 .. n - (6 + tried) /\ (6 + tried) + (body - tried) = n - 3
          BY <1>3, <3>2, <4>1
        <5>2. AtFront(IncrementRead(p, tried), S, x, a, b, n, 6 + tried)
          BY <1>4, <3>2, FrontOn
        <5> DEFINE u == IncrementRead(p, tried)
                   c == 6 + tried
                   d == body - tried
        <5>3. AtFront(u, S, x, a, b, n, c) /\ d \in 0 .. n - c
          BY <5>1, <5>2
        <5> HIDE DEF u, c, d
        <5>4. AtFront(IncrementRead(u, d), S, x, a, b, n, c + d)
          BY <5>3, FrontOn
        <5>5. AtFront(r, S, x, a, b, n, n - 3)
          BY <5>1, <5>4 DEF u, c, d
        <5>6. r \in Queues
          BY <5>5, FrontAhead
        <5> HIDE DEF r
        <5> QED
          BY <5>5, <5>6, ShownInRing
      <4>2. CASE ~(tried <= body)
        <5>1. tried = n - 8 /\ body - tried = -1
          <6>1. tried = body + 1
            BY <1>3, <3>2, <4>2, <2>4 DEF tried
          <6> QED
            BY <1>3, <6>1
        <5>2. r = IncrementRead(IncrementRead(p, n - 8), -1)
          BY <5>1
        <5> HIDE DEF r
        <5> QED
          BY <1>4, <5>2, FrontBack
      <4> QED
        BY <4>1, <4>2
    <3>4. n - 3 \in 6 .. n
      BY <1>3
    <3> HIDE DEF r
    <3> QED
      BY <1>12, <3>1, <3>3, <3>4 DEF Found
  <2>5. \/ CommandText(q) = none(IncrementRead(p, 1)) \/ CommandText(q) = none(p)
        \/ CommandText(q) = none(IncrementRead(p, tried)) /\ tried # MAX_COMMAND_NAME_LENGTH
        \/ /\ tried = MAX_COMMAND_NAME_LENGTH
           /\ CommandText(q) = none(IncrementRead(IncrementRead(p, tried), body - tried))
    BY <1>1, <1>6, <2>1
  <2> QED
    BY <2>2, <2>3, <2>4, <2>5
<1> QED
  BY <1>11, <1>12

(* A newline in the packet, seen from the ring. *)
LEMMA NewlineAhead ==
  ASSUME NEW q, NEW S, NEW x, NEW a, NEW b, NEW n, NEW c, AtFront(q, S, x, a, b, n, c),
         NEW p \in c + 1 .. n, b[p] = Newline
  PROVE  \E o \in Nat : c \in Nat /\ n \in Nat /\ o < n - c /\ ReadAhead(q, o) = Newline
<1>1. c \in 0 .. n /\ n \in Nat
  BY FrontAhead
<1> DEFINE o == p - c - 1
<1>2. o \in Nat /\ p = c + o + 1 /\ p <= n /\ o < n - c
  BY <1>1
<1> HIDE DEF o
<1>3. ReadAhead(q, o) = b[p]
  BY <1>2, FrontByte
<1> QED
  BY <1>1, <1>2, <1>3

(* get_command_next_param_text stops within a packet with a newline to come.*)
LEMMA ParamStops ==
  ASSUME NEW q, NEW S, NEW x, NEW a, NEW b, NEW n, NEW c, AtFront(q, S, x, a, b, n, c),
         NEW p \in c + 1 .. n, b[p] = Newline
  PROVE  \E d \in c .. n : AtFront(ParamText(q).queue, S, x, a, b, n, d)
<1>1. PICK o \in Nat : c \in Nat /\ n \in Nat /\ o < n - c /\ ReadAhead(q, o) = Newline
  BY NewlineAhead
<1> DEFINE ends == {i \in 0 .. MAX_COMMAND_NAME_LENGTH :
                      ReadAhead(q, i) \in {Space, Newline}}
           m == IF ends = {} THEN MAX_COMMAND_NAME_LENGTH ELSE Least(ends)
<1>2. MAX_COMMAND_NAME_LENGTH \in Nat
  BY NameLengthAssumption
<1>3. m \in Nat /\ m <= o
  <2>1. CASE ends = {}
    <3>1. ~(o <= MAX_COMMAND_NAME_LENGTH)
      <4>1. o \notin ends
        BY <2>1
      <4> QED
        BY <1>1, <1>2, <4>1
    <3> QED
      BY <1>1, <1>2, <2>1, <3>1
  <2>2. CASE ends # {}
    <3>1. ends \subseteq 0 .. MAX_COMMAND_NAME_LENGTH /\ ends \subseteq Nat
      OBVIOUS
    <3>2. Least(ends) \in ends /\ \A j \in ends : Least(ends) <= j
      BY <2>2, <3>1, LeastIs
    <3>3. o <= MAX_COMMAND_NAME_LENGTH => o \in ends
      BY <1>1, <1>2
    <3>4. m = Least(ends)
      BY <2>2
    <3> HIDE DEF ends, m
    <3>5. m \in 0 .. MAX_COMMAND_NAME_LENGTH /\ \A j \in ends : m <= j
      BY <3>1, <3>2, <3>4
    <3> QED
      BY <1>1, <1>2, <3>3, <3>5
  <2> QED
    BY <2>1, <2>2
<1>4. ParamText(q).queue = IncrementRead(q, m + 1) \/ ParamText(q).queue = IncrementRead(q, m)
  BY DEF ParamText
<1> HIDE DEF m
<1>5. m \in 0 .. n - c /\ m + 1 \in 0 .. n - c /\ c + m \in c .. n /\ c + (m + 1) \in c .. n
  BY <1>1, <1>3
<1>6. /\ AtFront(IncrementRead(q, m), S, x, a, b, n, c + m)
      /\ AtFront(IncrementRead(q, m + 1), S, x, a, b, n, c + (m + 1))
  BY <1>5, FrontOn
<1> QED
  BY <1>4, <1>5, <1>6

(* So does get_all_command_params_text. *)
LEMMA AllParamsStop ==
  ASSUME NEW q, NEW S, NEW x, NEW a, NEW b, NEW n, NEW c, AtFront(q, S, x, a, b, n, c),
         NEW p \in c + 1 .. n, b[p] = Newline
  PROVE  \E d \in c .. n : AtFront(AfterAllParams(q), S, x, a, b, n, d)
<1>1. PICK o \in Nat : c \in Nat /\ n \in Nat /\ o < n - c /\ ReadAhead(q, o) = Newline
  BY NewlineAhead
<1> DEFINE ends == {i \in 0 .. MAX_SHELL_LINE_LENGTH : ReadAhead(q, i) = Newline}
           m == IF ends = {} THEN MAX_SHELL_LINE_LENGTH ELSE Least(ends) + 1
<1>2. MAX_SHELL_LINE_LENGTH \in Nat
  BY LengthAssumption
<1>3. m \in 0 .. o + 1
  <2>1. CASE ends = {}
    <3>1. ~(o <= MAX_SHELL_LINE_LENGTH)
      <4>1. o \notin ends
        BY <2>1
      <4> QED
        BY <1>1, <1>2, <4>1
    <3> QED
      BY <1>1, <1>2, <2>1, <3>1
  <2>2. CASE ends # {}
    <3>1. ends \subseteq 0 .. MAX_SHELL_LINE_LENGTH /\ ends \subseteq Nat
      OBVIOUS
    <3>2. Least(ends) \in ends /\ \A j \in ends : Least(ends) <= j
      BY <2>2, <3>1, LeastIs
    <3>3. o <= MAX_SHELL_LINE_LENGTH => o \in ends
      BY <1>1, <1>2
    <3>4. m = Least(ends) + 1
      BY <2>2
    <3> DEFINE l == Least(ends)
    <3> HIDE DEF ends, m, l
    <3>5. l \in 0 .. MAX_SHELL_LINE_LENGTH /\ m = l + 1 /\ \A j \in ends : l <= j
      BY <3>1, <3>2, <3>4 DEF l
    <3>6. l <= o
      BY <1>1, <1>2, <3>3, <3>5
    <3> QED
      BY <1>1, <1>2, <3>5, <3>6
  <2> QED
    BY <2>1, <2>2
<1>4. AfterAllParams(q) = IncrementRead(q, m)
  BY DEF AfterAllParams
<1> HIDE DEF m
<1>5. m \in 0 .. n - c /\ c + m \in c .. n
  BY <1>1, <1>3
<1>6. AtFront(IncrementRead(q, m), S, x, a, b, n, c + m)
  BY <1>5, FrontOn
<1> QED
  BY <1>4, <1>5, <1>6

(* command_help, without a topic or with one. *)
LEMMA HelpStops ==
  ASSUME NEW q, NEW S, NEW x, NEW a, NEW b, NEW n, NEW c, AtFront(q, S, x, a, b, n, c),
         \/ PreviousByte(q) = Newline
         \/ \E p \in c + 1 .. n : b[p] = Newline
  PROVE  \E d \in c .. n : AtFront(CommandHelp(q).queue, S, x, a, b, n, d)
<1>1. CASE PreviousByte(q) = Newline
  <2>1. CommandHelp(q).queue = q
    BY <1>1 DEF CommandHelp
  <2>2. c \in c .. n
    <3>1. c \in 0 .. n /\ n \in Nat
      BY FrontAhead
    <3> QED
      BY <3>1
  <2> QED
    BY <2>1, <2>2
<1>2. CASE PreviousByte(q) # Newline
  <2>1. CommandHelp(q).queue = ParamText(q).queue
    BY <1>2 DEF CommandHelp
  <2>2. PICK p \in c + 1 .. n : b[p] = Newline
    BY <1>2
  <2>3. \E d \in c .. n : AtFront(ParamText(q).queue, S, x, a, b, n, d)
    BY <2>2, ParamStops
  <2> QED
    BY <2>1, <2>3
<1> QED
  BY <1>1, <1>2

-----------------------------------------------------------------------------
(* What kind of packet it is. *)

(* A command of n bytes, and data behind it. *)
HasData(b, id, n) ==
  /\ n < Len(b) /\ n = SizeIn(b) + 6
  /\ b[6] = BinaryCommand /\ b[7] = id
  /\ \A p \in 1 .. 3 : b[p] = Plus
  /\ \A p \in n - 2 .. n : b[p] = Minus
  /\ Harmless(b, n + 1, Len(b))

(* The bytes of a command with data that is refused. *)
LEMMA RefusedIs ==
  ASSUME NEW b \in Seq(BYTE), NEW id, NEW n \in {13, 19}, IsRefused(b, id, n)
  PROVE  HasData(b, id, n)
<1> DEFINE s == SubSeq(b, 1, n)
<1>1. n < Len(b) /\ b[7] = id /\ Harmless(b, n + 1, Len(b)) /\ IsPacket(s, BinaryCommand)
  BY DEF IsRefused
<1>2. Len(s) = n /\ \A i \in 1 .. n : s[i] = b[i]
  <2>1. 1 \in 1 .. Len(b) + 1 /\ n \in 1 - 1 .. Len(b)
    BY <1>1
  <2>2. /\ Len(s) = (IF 1 <= n THEN n - 1 + 1 ELSE 0)
        /\ \A i \in 1 .. n - 1 + 1 : s[i] = b[1 + i - 1]
    BY <2>1, SubSeqProperties
  <2>3. 1 <= n /\ n - 1 + 1 = n /\ \A i \in 1 .. n : 1 + i - 1 = i
    OBVIOUS
  <2> HIDE DEF s
  <2> QED
    BY <2>2, <2>3
<1> HIDE DEF s
<1>3. /\ \A p \in 1 .. 3 : s[p] = Plus
      /\ n = SizeIn(s) + 6 /\ s[6] = BinaryCommand
      /\ \A p \in n - 2 .. n : s[p] = Minus
  BY <1>1, <1>2 DEF IsPacket, Delimited, Terminated
<1>4. /\ 4 \in 1 .. n /\ 5 \in 1 .. n /\ 6 \in 1 .. n
      /\ \A p \in 1 .. 3 : p \in 1 .. n
      /\ \A p \in n - 2 .. n : p \in 1 .. n
  OBVIOUS
<1>5. SizeIn(s) = SizeIn(b) /\ s[6] = b[6]
  BY <1>2, <1>4 DEF SizeIn
<1> QED
  BY <1>1, <1>2, <1>3, <1>4, <1>5 DEF HasData

(* Noise is not the start of a packet, and everything else is. *)
LEMMA NoiseOrPacket ==
  ASSUME NEW b \in Seq(BYTE), NEW m, Means(b, m)
  PROVE  /\ m \in Seq(MEANING)
         /\ \/ Harmless(b, 0, Len(b)) /\ m = << >>
            \/ Starts(b)
         /\ Starts(b) => ~Harmless(b, 0, Len(b))
<1>1. ASSUME Starts(b), Harmless(b, 0, Len(b)) PROVE FALSE
  <2>1. 1 \in 0 + 1 .. Len(b) /\ b[1] = Plus /\ b[2] = Plus /\ b[3] = Plus
    BY <1>1 DEF Starts
  <2>2. \E j \in {1 + 1, 1 + 2} : b[j] # Plus
    BY <1>1, <2>1 DEF Harmless
  <2> QED
    BY <2>1, <2>2
<1>2. ASSUME Delimited(b) PROVE Starts(b)
  BY <1>2 DEF Delimited, Starts
<1>3. ASSUME NEW id, NEW n \in {13, 19}, IsRefused(b, id, n) PROVE Starts(b)
  <2>1. n < Len(b) /\ \A p \in 1 .. 3 : b[p] = Plus
    BY <1>3, RefusedIs DEF HasData
  <2> QED
    BY <2>1 DEF Starts
<1>4. TextMeaning(b) \in MEANING
  <2>1. ASSUME NEW name PROVE MeaningOf(name) \in MEANING
    BY DEF MeaningOf, MEANING
  <2>2. MeaningOf(SubSeq(b, 7, NameEnd(b) - 1)) \in MEANING /\ "bad" \in MEANING
    BY <2>1 DEF MEANING
  <2> QED
    BY <2>2 DEF TextMeaning
<1>5. << >> \in Seq(MEANING) /\ \A w \in MEANING : <<w>> \in Seq(MEANING)
  <2>1. ASSUME NEW w \in MEANING PROVE <<w>> \in Seq(MEANING)
    OBVIOUS
  <2> QED
    BY <2>1
<1>6. "ping" \in MEANING /\ "salloc" \in MEANING /\ "ialloc" \in MEANING
  BY DEF MEANING
<1> HIDE DEF Starts, Harmless, Malformed, IsPacket, IsTextCommand, IsBinaryPing
<1>7. CASE Harmless(b, 0, Len(b)) /\ m = << >>
  BY <1>1, <1>5, <1>7
<1>8. CASE Malformed(b) /\ m = << >>
  <2>1. Starts(b)
    BY <1>2, <1>8 DEF Malformed
  <2> QED
    BY <1>1, <1>5, <1>8, <2>1
<1>9. CASE (IsPacket(b, BinaryData) \/ IsPacket(b, GraphicDirectives)) /\ m = << >>
  <2>1. Starts(b)
    BY <1>2, <1>9 DEF IsPacket
  <2> QED
    BY <1>1, <1>5, <1>9, <2>1
<1>10. CASE IsTextCommand(b) /\ m = <<TextMeaning(b)>>
  <2>1. Starts(b)
    BY <1>2, <1>10 DEF IsPacket, IsTextCommand
  <2> QED
    BY <1>1, <1>4, <1>5, <1>10, <2>1
<1>11. CASE IsBinaryPing(b) /\ m = <<"ping">>
  <2>1. Starts(b)
    BY <1>2, <1>11 DEF IsPacket, IsBinaryPing
  <2> QED
    BY <1>1, <1>5, <1>6, <1>11, <2>1
<1>12. CASE IsRefused(b, StoreAllocID, 13) /\ m = <<"salloc">>
  <2>1. Starts(b)
    BY <1>3, <1>12
  <2> QED
    BY <1>1, <1>5, <1>6, <1>12, <2>1
<1>13. CASE IsRefused(b, InsertAllocID, 19) /\ m = <<"ialloc">>
  <2>1. Starts(b)
    BY <1>3, <1>13
  <2> QED
    BY <1>1, <1>5, <1>6, <1>13, <2>1
<1> QED
  BY <1>7, <1>8, <1>9, <1>10, <1>11, <1>12, <1>13 DEF Means

(* Where a packet of n bytes has its terminator. *)
EndsAt(b, n) == \A p \in n - 2 .. n : b[p] = Minus

(* What a packet means, from its type and the place of its terminator. *)
LEMMA KindOf ==
  ASSUME NEW b \in Seq(BYTE), NEW m, Means(b, m), Starts(b),
         NEW n, n = SizeIn(b) + 6
  PROVE  /\ n <= Len(b)
         /\ ~(b[6] \in PacketTypes /\ EndsAt(b, n)) => m = << >> /\ n = Len(b)
         /\ b[6] = Text /\ EndsAt(b, n) => IsTextCommand(b) /\ m = <<TextMeaning(b)>> /\ n = Len(b)
         /\ b[6] = BinaryCommand /\ EndsAt(b, n) =>
              \/ IsBinaryPing(b) /\ m = <<"ping">> /\ n = Len(b)
              \/ IsRefused(b, StoreAllocID, 13) /\ m = <<"salloc">> /\ n = 13
              \/ IsRefused(b, InsertAllocID, 19) /\ m = <<"ialloc">> /\ n = 19
<1>1. ~Harmless(b, 0, Len(b))
  BY NoiseOrPacket
<1>2. ASSUME Delimited(b) PROVE n = Len(b) /\ n <= Len(b) /\ (EndsAt(b, n) <=> Terminated(b))
  <2>1. n = Len(b)
    BY <1>2 DEF Delimited
  <2>2. n <= Len(b)
    BY <2>1
  <2> QED
    BY <2>1, <2>2 DEF Terminated, EndsAt
<1>3. /\ Text # BinaryCommand /\ BinaryData \notin {Text, BinaryCommand}
      /\ GraphicDirectives \notin {Text, BinaryCommand}
      /\ \A t \in {Text, BinaryCommand, BinaryData, GraphicDirectives} : t \in PacketTypes
  BY DEF Text, BinaryCommand, BinaryData, GraphicDirectives, PacketTypes
<1>4. ASSUME NEW type, IsPacket(b, type) PROVE Delimited(b) /\ Terminated(b) /\ b[6] = type
  BY <1>4 DEF IsPacket
<1> HIDE DEF Harmless, PacketTypes, Text, BinaryCommand, BinaryData, GraphicDirectives
<1>5. CASE Malformed(b) /\ m = << >>
  <2>1. Delimited(b) /\ (b[6] \notin PacketTypes \/ ~Terminated(b))
    BY <1>5 DEF Malformed
  <2>2. ~(b[6] \in PacketTypes /\ EndsAt(b, n)) /\ n = Len(b) /\ n <= Len(b)
    BY <1>2, <2>1
  <2> QED
    BY <1>3, <1>5, <2>2
<1>6. CASE (IsPacket(b, BinaryData) \/ IsPacket(b, GraphicDirectives)) /\ m = << >>
  <2>1. PICK t \in {BinaryData, GraphicDirectives} : Delimited(b) /\ Terminated(b) /\ b[6] = t
    BY <1>4, <1>6
  <2>2. n = Len(b) /\ n <= Len(b)
    BY <1>2, <2>1
  <2> QED
    BY <1>3, <1>6, <2>1, <2>2
<1>7. CASE IsTextCommand(b) /\ m = <<TextMeaning(b)>>
  <2>1. Delimited(b) /\ Terminated(b) /\ b[6] = Text
    BY <1>4, <1>7 DEF IsTextCommand
  <2>2. n = Len(b) /\ n <= Len(b) /\ EndsAt(b, n)
    BY <1>2, <2>1
  <2> QED
    BY <1>3, <1>7, <2>1, <2>2
<1>8. CASE IsBinaryPing(b) /\ m = <<"ping">>
  <2>1. Delimited(b) /\ Terminated(b) /\ b[6] = BinaryCommand
    BY <1>4, <1>8 DEF IsBinaryPing
  <2>2. n = Len(b) /\ n <= Len(b) /\ EndsAt(b, n)
    BY <1>2, <2>1
  <2> QED
    BY <1>3, <1>8, <2>1, <2>2
<1>9. ASSUME NEW id, NEW k \in {13, 19}, IsRefused(b, id, k)
      PROVE  n = k /\ n <= Len(b) /\ b[6] = BinaryCommand /\ EndsAt(b, n)
  <2>1. k < Len(b) /\ k = n /\ b[6] = BinaryCommand /\ \A p \in k - 2 .. k : b[p] = Minus
    BY <1>9, RefusedIs DEF HasData
  <2> QED
    BY <2>1 DEF EndsAt
<1>10. CASE IsRefused(b, StoreAllocID, 13) /\ m = <<"salloc">>
  <2>1. n = 13 /\ n <= Len(b) /\ b[6] = BinaryCommand /\ EndsAt(b, n)
    BY <1>9, <1>10
  <2> QED
    BY <1>3, <1>10, <2>1
<1>11. CASE IsRefused(b, InsertAllocID, 19) /\ m = <<"ialloc">>
  <2>1. n = 19 /\ n <= Len(b) /\ b[6] = BinaryCommand /\ EndsAt(b, n)
    BY <1>9, <1>11
  <2> QED
    BY <1>3, <1>11, <2>1
<1> QED
  BY <1>1, <1>5, <1>6, <1>7, <1>8, <1>10, <1>11 DEF Means

(* The server takes the first n bytes of b for what they are. *)
Kind(q, S, x, a, b, m, n) ==
  /\ n \in Nat /\ n >= 6 /\ n <= Len(b)
  /\ PacketSize(q) = n - 6 /\ AtFront(q, S, x, a, b, n, 0)
  /\ ~WellFormed(q) => m = << >> /\ n = Len(b)
  /\ Packet(q, Text) => IsTextCommand(b) /\ m = <<TextMeaning(b)>> /\ n = Len(b)
  /\ Packet(q, BinaryCommand) =>
       \/ IsBinaryPing(b) /\ m = <<"ping">> /\ n = Len(b)
       \/ IsRefused(b, StoreAllocID, 13) /\ m = <<"salloc">> /\ n = 13
       \/ IsRefused(b, InsertAllocID, 19) /\ m = <<"ialloc">> /\ n = 19

(* The server tells its packets by it. *)
LEMMA KindIs ==
  ASSUME NEW q, NEW S, NEW x, NEW a, Shows(q, S, x, a), Arrived(q),
         NEW b \in Seq(BYTE), NEW m, Means(b, m), Starts(b),
         \A i \in 1 .. Len(b) : S[x + i] = b[i],
         NEW n, n = SizeIn(b) + 6
  PROVE  Kind(q, S, x, a, b, m, n)
<1>1. /\ n <= Len(b)
      /\ ~(b[6] \in PacketTypes /\ EndsAt(b, n)) => m = << >> /\ n = Len(b)
      /\ b[6] = Text /\ EndsAt(b, n) => IsTextCommand(b) /\ m = <<TextMeaning(b)>> /\ n = Len(b)
      /\ b[6] = BinaryCommand /\ EndsAt(b, n) =>
           \/ IsBinaryPing(b) /\ m = <<"ping">> /\ n = Len(b)
           \/ IsRefused(b, StoreAllocID, 13) /\ m = <<"salloc">> /\ n = 13
           \/ IsRefused(b, InsertAllocID, 19) /\ m = <<"ialloc">> /\ n = 19
  BY KindOf
<1>2. Len(b) >= 6
  BY DEF Starts
<1>3. /\ n \in Nat /\ n >= 6 /\ PacketSize(q) = n - 6 /\ PacketType(q) = b[6]
      /\ AtFront(q, S, x, a, b, n, 0)
  BY <1>1, <1>2, SizeIs
<1>4. WellFormed(q) <=> b[6] \in PacketTypes /\ EndsAt(b, n)
  BY <1>3, WellFormedIs DEF EndsAt
<1>5. \A t : Packet(q, t) => WellFormed(q) /\ b[6] = t
  BY <1>3 DEF Packet
<1> QED
  BY <1>1, <1>3, <1>4, <1>5 DEF Kind

-----------------------------------------------------------------------------
(* What is kept holds the packet that comes next. *)

(* A place is a number of bytes. *)
LEMMA UptoIs ==
  ASSUME NEW S, Len(S) \in Nat, NEW place \in Seq(Nat), NEW k \in 1 .. Len(place) + 1
  PROVE  /\ Upto(place, S, k) \in Nat
         /\ k \in 1 .. Len(place) => Upto(place, S, k) = place[k]
         /\ k = Len(place) + 1 => Upto(place, S, k) = Len(S)
<1>1. Len(place) \in Nat
  OBVIOUS
<1>2. CASE k <= Len(place)
  <2>1. k \in 1 .. Len(place) /\ place[k] \in Nat /\ k # Len(place) + 1
    BY <1>1, <1>2
  <2> QED
    BY <1>2, <2>1 DEF Upto
<1>3. CASE ~(k <= Len(place))
  <2>1. k \notin 1 .. Len(place)
    BY <1>1, <1>3
  <2> QED
    BY <1>3, <2>1 DEF Upto
<1> QED
  BY <1>2, <1>3

(* The k-th packet is b, means m, and lies at its place.                   *)
Holds(S, E, place, mark, k, b, m) ==
  /\ b \in Seq(BYTE) /\ Means(b, m) /\ m \in Seq(MEANING) /\ Starts(b)
  /\ k \in 1 .. Len(place) /\ k + 1 \in 1 .. Len(place) + 1
  /\ Upto(place, S, k) = place[k] /\ place[k] \in Nat
  /\ Upto(mark, E, k) = mark[k] /\ mark[k] \in Nat
  /\ Upto(place, S, k + 1) \in Nat /\ Upto(place, S, k + 1) <= Len(S)
  /\ place[k] + Len(b) <= Upto(place, S, k + 1)
  /\ \A i \in 1 .. Len(b) : S[place[k] + i] = b[i]
  /\ Harmless(S, place[k] + Len(b), Upto(place, S, k + 1))
  /\ mark[k] + Len(m) = Upto(mark, E, k + 1)
  /\ Upto(mark, E, k + 1) <= Len(E)
  /\ \A i \in 1 .. Len(m) : E[mark[k] + i] = m[i]

(* The k-th packet and what lies behind it. *)
LEMMA PacketLies ==
  ASSUME NEW S, NEW E, NEW packet, NEW place, NEW mark, Laid(S, E, packet, place, mark),
         NEW k \in 1 .. Len(packet),
         NEW b, b = packet[k].bytes, NEW m, m = packet[k].means
  PROVE  Holds(S, E, place, mark, k, b, m)
<1>1. /\ packet[k] \in ITEM /\ Lies(S, E, packet, place, mark, k)
      /\ Len(packet) \in Nat /\ Len(place) = Len(packet) /\ Len(mark) = Len(packet)
      /\ place \in Seq(Nat) /\ mark \in Seq(Nat) /\ Len(S) \in Nat /\ Len(E) \in Nat
  BY DEF Laid
<1>2. b \in Seq(BYTE) /\ Means(b, m)
  BY <1>1, ItemAssumption
<1>3. m \in Seq(MEANING)
  BY <1>2, NoiseOrPacket
<1>4. k \in 1 .. Len(place) /\ k \in 1 .. Len(place) + 1 /\ k + 1 \in 1 .. Len(place) + 1
  BY <1>1
<1>5. /\ Upto(place, S, k) = place[k] /\ Upto(place, S, k) \in Nat
      /\ Upto(mark, E, k) = mark[k] /\ Upto(mark, E, k) \in Nat
      /\ Upto(place, S, k + 1) \in Nat
  BY <1>1, <1>4, UptoIs, SMTT(30)
<1> QED
  BY <1>1, <1>2, <1>3, <1>4, <1>5 DEF Lies, Holds

(* The next place has a "+++", or is the end.  *)
LEMMA PlusThere ==
  ASSUME NEW S, NEW E, NEW packet, NEW place, NEW mark, Laid(S, E, packet, place, mark),
         NEW k \in 1 .. Len(packet) + 1, NEW e, e = Upto(place, S, k)
  PROVE  /\ Len(S) \in Nat /\ e \in Nat
         /\ \/ e = Len(S)
            \/ S[e + 1] = Plus /\ S[e + 2] = Plus /\ S[e + 3] = Plus
<1>1. /\ Len(S) \in Nat /\ Len(place) = Len(packet) /\ Len(packet) \in Nat
      /\ place \in Seq(Nat)
  BY DEF Laid
<1>2. e \in Nat
  BY <1>1, UptoIs
<1>3. CASE k = Len(packet) + 1
  BY <1>1, <1>2, <1>3, UptoIs
<1>4. CASE k # Len(packet) + 1
  <2> DEFINE b == packet[k].bytes
             m == packet[k].means
  <2>1. k \in 1 .. Len(packet)
    BY <1>1, <1>4
  <2>0. Holds(S, E, place, mark, k, b, m)
    BY <2>1, PacketLies
  <2> HIDE DEF b, m
  <2>2. Starts(b) /\ e = place[k] /\ \A i \in 1 .. Len(b) : S[place[k] + i] = b[i]
    BY <2>0 DEF Holds
  <2>3. Len(b) >= 6 /\ \A p \in 1 .. 3 : b[p] = Plus
    BY <2>2 DEF Starts
  <2>4. b \in Seq(BYTE)
    BY <2>0 DEF Holds
  <2>5. 1 \in 1 .. Len(b) /\ 2 \in 1 .. Len(b) /\ 3 \in 1 .. Len(b)
    BY <2>3, <2>4
  <2>6. S[e + 1] = b[1] /\ S[e + 2] = b[2] /\ S[e + 3] = b[3]
    BY <2>2, <2>5
  <2>7. b[1] = Plus /\ b[2] = Plus /\ b[3] = Plus
    BY <2>3
  <2> QED
    BY <1>1, <1>2, <2>6, <2>7
<1> QED
  BY <1>3, <1>4

(* The server has read x bytes, a have come, and the next packet is at e.   *)
Stands(q, t, S, packet, place, x, k, a, e) ==
  /\ a = Len(S) - Len(t) /\ e = Upto(place, S, k)
  /\ k \in 1 .. Len(packet) + 1 /\ k \in Nat
  /\ x <= e /\ e <= Len(S) /\ Len(S) \in Nat
  /\ Harmless(S, x, e) /\ Shows(q, S, x, a)
  /\ x <= a /\ a <= Len(S) /\ NumberToRead(q) = a - x

(* What the server has read and what it shows. *)
LEMMA ReadsIs ==
  ASSUME NEW q, NEW t \in Seq(BYTE), NEW d, NEW S, NEW E, NEW packet, NEW place, NEW mark,
         NEW x \in Nat, NEW k, Laid(S, E, packet, place, mark),
         Reads(q, t, d, S, E, place, mark, x, k)
  PROVE  \E a, e \in Nat : Stands(q, t, S, packet, place, x, k, a, e)
<1> DEFINE a == Len(S) - Len(t)
           e == Upto(place, S, k)
<1>1. Len(place) = Len(packet) /\ Len(packet) \in Nat /\ Len(S) \in Nat /\ place \in Seq(Nat)
  BY DEF Laid
<1>2. /\ k \in 1 .. Len(packet) + 1 /\ x <= e /\ e <= Len(S) /\ Harmless(S, x, e)
      /\ Shows(q, S, x, a)
  BY <1>1 DEF Reads
<1>3. /\ a \in Nat /\ x <= a /\ a <= Len(S) /\ NumberToRead(q) = a - x
  BY <1>2, ShownAhead
<1>4. e \in Nat
  BY <1>1, <1>2, UptoIs
<1> QED
  BY <1>1, <1>2, <1>3, <1>4, SMTT(30) DEF Stands

(* A packet that has come begins where the next packet was put.             *)
LEMMA ArrivedIs ==
  ASSUME NEW q, NEW t \in Seq(BYTE), NEW d, NEW S, NEW E, NEW packet, NEW place, NEW mark,
         NEW x \in Nat, NEW k, Laid(S, E, packet, place, mark),
         Reads(q, t, d, S, E, place, mark, x, k), Arrived(q)
  PROVE  k \in 1 .. Len(packet) /\ x = place[k]
<1>1. PICK a, e \in Nat : Stands(q, t, S, packet, place, x, k, a, e)
  BY ReadsIs
<1>0. /\ a = Len(S) - Len(t) /\ e = Upto(place, S, k)
      /\ k \in 1 .. Len(packet) + 1 /\ k \in Nat
      /\ x <= e /\ e <= Len(S) /\ Len(S) \in Nat
      /\ Harmless(S, x, e) /\ Shows(q, S, x, a)
      /\ x <= a /\ a <= Len(S) /\ NumberToRead(q) = a - x
  BY <1>1 DEF Stands
<1>2. NumberToRead(q) >= 3 /\ Peek(q, 3) = <<Plus, Plus, Plus>>
  <2>1. NumberToRead(q) \in Nat
    BY <1>0, ShownAhead
  <2> QED
    BY <2>1 DEF Arrived
<1>3. x + 3 <= a /\ S[x + 1] = Plus /\ S[x + 2] = Plus /\ S[x + 3] = Plus
  BY <1>0, <1>2, ThreeAhead
<1>4. x = e
  <2>1. x \in x .. e
    BY <1>0
  <2> QED
    BY <1>0, <1>3, <2>1, NoneInside
<1>5. place \in Seq(Nat) /\ Len(place) = Len(packet) /\ Len(packet) \in Nat
  BY DEF Laid
<1>6. k # Len(packet) + 1
  <2>1. k = Len(place) + 1 => e = Len(S)
    BY <1>0, <1>5, UptoIs
  <2> QED
    BY <1>0, <1>3, <1>4, <1>5, <2>1
<1>7. k \in 1 .. Len(packet)
  BY <1>0, <1>5, <1>6
<1>8. e = place[k]
  BY <1>0, <1>5, <1>7, UptoIs
<1> QED
  BY <1>4, <1>7, <1>8

(* What is harmless at the end of a packet is harmless up to the next.      *)
LEMMA HarmlessAfter ==
  ASSUME NEW S, NEW E, NEW packet, NEW place, NEW mark, Laid(S, E, packet, place, mark),
         NEW k \in 1 .. Len(packet), NEW b, b = packet[k].bytes,
         NEW c \in 0 .. Len(b), Harmless(b, c, Len(b)),
         NEW y \in Nat, place[k] + c <= y
  PROVE  Harmless(S, y, Upto(place, S, k + 1))
<1> DEFINE m == packet[k].means
           e == Upto(place, S, k + 1)
           u == place[k]
           l == Len(b)
<1>1. Holds(S, E, place, mark, k, b, m)
  BY PacketLies
<1> HIDE DEF m
<1>2. /\ b \in Seq(BYTE) /\ u \in Nat /\ e \in Nat /\ u + l <= e
      /\ \A i \in 1 .. l : S[u + i] = b[i]
      /\ Harmless(S, u + l, e)
  BY <1>1 DEF Holds
<1>3. l \in Nat
  BY <1>2
<1>4. c \in Nat /\ c <= l /\ Harmless(b, c, l)
  BY <1>3
<1> HIDE DEF u, l, e
<1>5. Harmless(S, u + c, u + l)
  BY <1>2, <1>3, <1>4, HarmlessThere
<1>6. Harmless(S, u + c, e)
  <2>1. u + c \in Nat /\ u + l \in Nat /\ u + c <= u + l
    BY <1>2, <1>3, <1>4
  <2> QED
    BY <1>2, <1>5, <2>1, HarmlessBoth
<1>7. Harmless(S, y, e)
  <2>1. u + c \in Nat /\ u + c <= y
    BY <1>2, <1>4 DEF u
  <2> QED
    BY <1>2, <1>6, <2>1, HarmlessRest
<1> QED
  BY <1>7 DEF e

(* The server past the k-th packet. *)
LEMMA Passes ==
  ASSUME NEW q, NEW t \in Seq(BYTE), NEW d \in Seq(MEANING),
         NEW S, NEW E, NEW packet, NEW place, NEW mark,
         NEW x \in Nat, NEW k \in 1 .. Len(packet), Laid(S, E, packet, place, mark),
         Reads(q, t, d, S, E, place, mark, x, k),
         NEW r, NEW y \in Nat, y <= Upto(place, S, k + 1),
         Harmless(S, y, Upto(place, S, k + 1)),
         Shows(r, S, y, Len(S) - Len(t)),
         NEW m, m = packet[k].means
  PROVE  /\ KeepsPlace(r, t, d \o m, E)
         /\ d \o m \in Seq(MEANING)
<1> DEFINE f == d \o m
           b == packet[k].bytes
<1>1. /\ S \in Seq(BYTE) /\ packet \in Seq(ITEM) /\ place \in Seq(Nat) /\ mark \in Seq(Nat)
      /\ Len(S) \in Nat /\ Len(E) \in Nat
  BY SMTT(30) DEF Laid
<1>2. Holds(S, E, place, mark, k, b, m)
  BY PacketLies
<1> HIDE DEF b
<1>3. /\ m \in Seq(MEANING) /\ k + 1 \in 1 .. Len(place) + 1
      /\ Upto(place, S, k + 1) <= Len(S)
      /\ Upto(mark, E, k) = mark[k] /\ mark[k] \in Nat
      /\ mark[k] + Len(m) = Upto(mark, E, k + 1)
      /\ Upto(mark, E, k + 1) <= Len(E)
      /\ \A i \in 1 .. Len(m) : E[mark[k] + i] = m[i]
  BY <1>2 DEF Holds
<1>4. /\ \A i \in 1 .. Len(t) : t[i] = S[Len(S) - Len(t) + i]
      /\ Len(d) = mark[k] /\ \A i \in 1 .. Len(d) : d[i] = E[i]
  BY <1>3 DEF Reads
<1>5. /\ f \in Seq(MEANING) /\ Len(f) = Len(d) + Len(m)
      /\ \A i \in 1 .. Len(f) : f[i] = IF i <= Len(d) THEN d[i] ELSE m[i - Len(d)]
  BY <1>3, ConcatProperties
<1> HIDE DEF f
<1>6. Len(d) \in Nat /\ Len(m) \in Nat
  <2>1. m \in Seq(MEANING)
    BY <1>3
  <2> QED
    BY <2>1
<1>7. Len(f) = Upto(mark, E, k + 1) /\ Len(f) <= Len(E)
  BY <1>3, <1>4, <1>5
<1>8. ASSUME NEW i \in 1 .. Len(f) PROVE f[i] = E[i]
  <2>1. CASE i <= Len(d)
    <3>1. i \in 1 .. Len(d)
      BY <1>5, <1>6, <2>1
    <3> QED
      BY <1>4, <1>5, <2>1, <3>1
  <2>2. CASE ~(i <= Len(d))
    <3>1. i - Len(d) \in 1 .. Len(m) /\ mark[k] + (i - Len(d)) = i
      <4> DEFINE u == Len(d)
                 v == Len(m)
                 w == Len(f)
      <4>1. u \in Nat /\ v \in Nat /\ w = u + v /\ i \in 1 .. w /\ ~(i <= u) /\ mark[k] = u
        BY <1>4, <1>5, <1>6, <2>2
      <4> HIDE DEF u, v, w
      <4>2. i - u \in 1 .. v /\ u + (i - u) = i
        BY <4>1
      <4> QED
        BY <4>1, <4>2 DEF u, v
    <3>2. f[i] = m[i - Len(d)] /\ E[mark[k] + (i - Len(d))] = m[i - Len(d)]
      BY <1>3, <1>5, <2>2, <3>1
    <3> QED
      BY <3>1, <3>2
  <2> QED
    BY <2>1, <2>2
<1>9. Reads(r, t, f, S, E, place, mark, y, k + 1)
  BY <1>3, <1>4, <1>7, <1>8 DEF Reads
<1>10. k + 1 \in Nat
  OBVIOUS
<1>11. KeepsPlace(r, t, f, E)
  BY <1>1, <1>9, <1>10 DEF KeepsPlace
<1> QED
  BY <1>5, <1>11 DEF f

-----------------------------------------------------------------------------
(* What each handler keeps. *)

(* The server goes on from q to r, and the commands taken up grow from d    *)
(* to f; t is still to come.                                                *)
Follows(q, r, t, d, f, E) ==
  /\ r \in Queues /\ f \in Seq(MEANING) /\ KeepsPlace(r, t, f, E)
  /\ NumberToRead(r) <= NumberToRead(q)
  /\ f # d => NumberToRead(r) < NumberToRead(q)

(* queue_skip_to_next_packet passes noise. *)
LEMMA SkipKeeps ==
  ASSUME NEW q \in Queues, NEW t \in Seq(BYTE), NEW d, NEW E, KeepsPlace(q, t, d, E)
  PROVE  KeepsPlace(SkipToNextPacket(q), t, d, E)
<1>1. PICK S \in Seq(BYTE), packet \in Seq(ITEM), place, mark \in Seq(Nat), x, k \in Nat :
        Laid(S, E, packet, place, mark) /\ Reads(q, t, d, S, E, place, mark, x, k)
  BY DEF KeepsPlace
<1>2. PICK a, e \in Nat : Stands(q, t, S, packet, place, x, k, a, e)
  BY <1>1, ReadsIs
<1>0. /\ a = Len(S) - Len(t) /\ e = Upto(place, S, k)
      /\ k \in 1 .. Len(packet) + 1 /\ k \in Nat
      /\ x <= e /\ e <= Len(S) /\ Len(S) \in Nat
      /\ Harmless(S, x, e) /\ Shows(q, S, x, a)
      /\ x <= a /\ a <= Len(S) /\ NumberToRead(q) = a - x
  BY <1>2 DEF Stands
<1>3. \/ e = Len(S)
      \/ S[e + 1] = Plus /\ S[e + 2] = Plus /\ S[e + 3] = Plus
  BY <1>1, <1>0, PlusThere
<1>4. PICK y \in x .. e : y <= a /\ Shows(SkipToNextPacket(q), S, y, a)
  BY <1>0, <1>3, SkipStops
<1>5. y \in Nat /\ x <= y /\ y <= e
  BY <1>1, <1>0
<1>6. Harmless(S, y, e)
  BY <1>0, <1>5, HarmlessRest
<1>7. Reads(SkipToNextPacket(q), t, d, S, E, place, mark, y, k)
  BY <1>1, <1>0, <1>4, <1>5, <1>6 DEF Reads
<1> QED
  BY <1>1, <1>5, <1>7 DEF KeepsPlace

(* A byte that begins no packet is passed, too. *)
LEMMA ByteBeforeKeeps ==
  ASSUME NEW q \in Queues, NEW t \in Seq(BYTE), NEW d, NEW E, KeepsPlace(q, t, d, E),
         NumberToRead(q) >= 1, ReadAhead(q, 0) = Minus
  PROVE  KeepsPlace(IncrementRead(q, 1), t, d, E)
<1>1. PICK S \in Seq(BYTE), packet \in Seq(ITEM), place, mark \in Seq(Nat), x, k \in Nat :
        Laid(S, E, packet, place, mark) /\ Reads(q, t, d, S, E, place, mark, x, k)
  BY DEF KeepsPlace
<1>2. PICK a, e \in Nat : Stands(q, t, S, packet, place, x, k, a, e)
  BY <1>1, ReadsIs
<1>0. /\ a = Len(S) - Len(t) /\ e = Upto(place, S, k)
      /\ k \in 1 .. Len(packet) + 1 /\ k \in Nat
      /\ x <= e /\ e <= Len(S) /\ Len(S) \in Nat
      /\ Harmless(S, x, e) /\ Shows(q, S, x, a)
      /\ x <= a /\ a <= Len(S) /\ NumberToRead(q) = a - x
  BY <1>2 DEF Stands
<1>3. \/ e = Len(S)
      \/ S[e + 1] = Plus /\ S[e + 2] = Plus /\ S[e + 3] = Plus
  BY <1>1, <1>0, PlusThere
<1>4. x + 1 <= a /\ x + 1 \in Nat
  BY <1>1, <1>0
<1>5. S[x + 1] = Minus
  <2>1. x + 1 \in x + 1 .. a /\ (x + 1) - x - 1 = 0
    BY <1>1, <1>4
  <2>2. Shows(q, S, x, a)
    BY <1>0
  <2>3. \A i \in x + 1 .. a : ReadAhead(q, i - x - 1) = S[i]
    BY <2>2 DEF Shows
  <2>4. ReadAhead(q, (x + 1) - x - 1) = S[x + 1]
    BY <2>1, <2>3
  <2> QED
    BY <2>1, <2>4
<1>6. x + 1 <= e
  <2>1. e # x
    <3>1. Minus # Plus
      BY DEF Minus, Plus
    <3>2. x # Len(S)
      BY <1>1, <1>0, <1>4
    <3> QED
      BY <1>3, <1>5, <3>1, <3>2
  <2> QED
    BY <1>1, <1>0, <2>1
<1>7. Shows(IncrementRead(q, 1), S, x + 1, a)
  <2>1. 1 \in 0 .. a - x
    BY <1>1, <1>4
  <2> QED
    BY <1>0, <2>1, ShownOn
<1>8. Harmless(S, x + 1, e)
  <2>1. x <= x + 1
    BY <1>1
  <2> QED
    BY <1>1, <1>0, <1>4, <2>1, HarmlessRest
<1>9. Reads(IncrementRead(q, 1), t, d, S, E, place, mark, x + 1, k)
  BY <1>1, <1>0, <1>4, <1>6, <1>7, <1>8 DEF Reads
<1> QED
  BY <1>1, <1>4, <1>9 DEF KeepsPlace

(* The server goes on from one before the ring as it does in it.            *)
LEMMA OnwardKeeps ==
  ASSUME NEW q, InPlace(q), NEW t \in Seq(BYTE), NEW d, NEW E, KeepsPlace(Shown(q), t, d, E)
  PROVE  /\ Onward(q) \in Queues /\ NumberToRead(Onward(q)) <= NumberToRead(q)
         /\ KeepsPlace(Onward(q), t, d, E)
<1>1. CASE q \in Queues
  BY <1>1, ShownInRing
<1>2. CASE OneBefore(q) /\ q.data[QUEUE_SIZE - 1] = Minus
  <2> DEFINE s == Shown(q)
  <2>1. /\ s \in Queues /\ s.read = QUEUE_SIZE - 1 /\ s.data = q.data
        /\ NumberToRead(s) = NumberToRead(q) /\ NumberToRead(q) \in Nat
        /\ NumberToRead(q) >= 3 /\ q.read \notin Index
        /\ IncrementRead(q, 1) = IncrementRead(s, 1)
    BY <1>2, ShownBefore
  <2> HIDE DEF s
  <2>2. ReadAhead(s, 0) = Minus
    <3>1. 0 \in 0 .. QUEUE_SIZE - 1 /\ s.read + 0 = QUEUE_SIZE - 1 /\ s.read + 0 < QUEUE_SIZE
      BY <2>1, Fields
    <3> QED
      BY <1>2, <2>1, <3>1, AheadIs
  <2>3. KeepsPlace(s, t, d, E) /\ NumberToRead(s) >= 1 /\ 1 \in 0 .. NumberToRead(s)
    BY <2>1 DEF s
  <2>4. KeepsPlace(IncrementRead(s, 1), t, d, E)
    BY <2>1, <2>2, <2>3, ByteBeforeKeeps
  <2>5. /\ IncrementRead(s, 1) \in Queues
        /\ NumberToRead(IncrementRead(s, 1)) = NumberToRead(s) - 1
    BY <2>1, <2>3, ReadForward
  <2>6. Onward(q) = IncrementRead(s, 1)
    BY <2>1 DEF Onward
  <2> QED
    BY <2>1, <2>4, <2>5, <2>6
<1> QED
  BY <1>1, <1>2 DEF InPlace

(* A handler that has read the packet to behind its c-th byte, and stops    *)
(* before the next, has served it, whether the terminator is skipped or not.*)
LEMMA ServeKeeps ==
  ASSUME NEW q \in Queues, NEW t \in Seq(BYTE), NEW d \in Seq(MEANING),
         NEW S, NEW E, NEW packet, NEW place, NEW mark,
         NEW x \in Nat, NEW k \in 1 .. Len(packet), Laid(S, E, packet, place, mark),
         Reads(q, t, d, S, E, place, mark, x, k), x = place[k],
         NEW b, b = packet[k].bytes, NEW w, packet[k].means = <<w>>,
         NEW c \in Nat, c >= 1, c <= Len(b), Harmless(b, c, Len(b)),
         NEW r, NEW z \in Nat, x + c <= z, z <= Upto(place, S, k + 1),
         Shows(r, S, z, Len(S) - Len(t)), NEW v \in {r, SkipTerminator(r)}
  PROVE  Follows(q, v, t, d, Append(d, w), E)
<1> DEFINE m == packet[k].means
<1>1. PICK a, e \in Nat : Stands(q, t, S, packet, place, x, k, a, e)
  BY ReadsIs
<1>0. /\ a = Len(S) - Len(t) /\ e = Upto(place, S, k)
      /\ k \in 1 .. Len(packet) + 1 /\ k \in Nat
      /\ x <= e /\ e <= Len(S) /\ Len(S) \in Nat
      /\ Harmless(S, x, e) /\ Shows(q, S, x, a)
      /\ x <= a /\ a <= Len(S) /\ NumberToRead(q) = a - x
  BY <1>1 DEF Stands
<1>2. Holds(S, E, place, mark, k, b, m)
  BY PacketLies
<1>3. k + 1 \in 1 .. Len(packet) + 1
  <2>1. packet \in Seq(ITEM)
    BY SMTT(30) DEF Laid
  <2>2. Len(packet) \in Nat
    BY <2>1
  <2> QED
    BY <2>2
<1> DEFINE u == Upto(place, S, k + 1)
<1>4. u \in Nat /\ u <= Len(S)
  BY <1>2 DEF Holds
<1>5. u = Len(S) \/ S[u + 1] = Plus
  BY <1>3, PlusThere
<1> HIDE DEF u
<1>6. Shows(r, S, z, a) /\ z <= u
  BY <1>0 DEF u
<1>7. PICK y \in z .. u : y <= a /\ Shows(v, S, y, a)
  <2>1. z <= a /\ z \in z .. u
    BY <1>0, <1>4, <1>6, ShownAhead
  <2> QED
    BY <1>0, <1>4, <1>5, <1>6, <2>1, TerminatorStops
<1>8. c \in 0 .. Len(b)
  <2>1. b \in Seq(BYTE)
    BY <1>2 DEF Holds
  <2>2. Len(b) \in Nat
    BY <2>1
  <2> QED
    BY <2>2
<1>9. y \in Nat /\ x + c <= y /\ y <= u /\ x < y
  BY <1>4, SMTT(30)
<1>10. Harmless(S, y, u)
  BY <1>8, <1>9, HarmlessAfter DEF u
<1>11. Shows(v, S, y, Len(S) - Len(t))
  BY <1>0, <1>7
<1> HIDE DEF m
<1>12. KeepsPlace(v, t, d \o m, E) /\ d \o m \in Seq(MEANING)
  BY <1>9, <1>10, <1>11, Passes DEF u, m
<1>13. d \o m = Append(d, w)
  BY DEF m
<1>14. /\ v \in Queues /\ NumberToRead(v) = a - y
  BY <1>7, ShownAhead
<1>15. NumberToRead(v) < NumberToRead(q) /\ NumberToRead(v) <= NumberToRead(q)
  <2>1. NumberToRead(q) = a - x
    BY <1>0
  <2> QED
    BY <1>9, <1>14, <2>1, SMTT(30)
<1> QED
  BY <1>12, <1>13, <1>14, <1>15 DEF Follows

(* A malformed packet is passed over. *)
LEMMA DiscardFollows ==
  ASSUME NEW q \in Queues, NEW t \in Seq(BYTE), NEW d \in Seq(MEANING), NEW E,
         KeepsPlace(q, t, d, E), Arrived(q), ~WellFormed(q)
  PROVE  Follows(q, IncrementRead(q, PacketSize(q) + 6), t, d, d, E)
<1>1. PICK S \in Seq(BYTE), packet \in Seq(ITEM), place, mark \in Seq(Nat), x, k \in Nat :
        Laid(S, E, packet, place, mark) /\ Reads(q, t, d, S, E, place, mark, x, k)
  BY DEF KeepsPlace
<1>2. PICK a, e \in Nat : Stands(q, t, S, packet, place, x, k, a, e)
  BY <1>1, ReadsIs
<1>0. /\ a = Len(S) - Len(t) /\ e = Upto(place, S, k)
      /\ k \in 1 .. Len(packet) + 1 /\ k \in Nat
      /\ x <= e /\ e <= Len(S) /\ Len(S) \in Nat
      /\ Harmless(S, x, e) /\ Shows(q, S, x, a)
      /\ x <= a /\ a <= Len(S) /\ NumberToRead(q) = a - x
  BY <1>2 DEF Stands
<1>3. k \in 1 .. Len(packet) /\ x = place[k]
  BY <1>1, ArrivedIs
<1> DEFINE b == packet[k].bytes
           m == packet[k].means
           n == SizeIn(b) + 6
           u == Upto(place, S, k + 1)
           r == IncrementRead(q, PacketSize(q) + 6)
<1>4. Holds(S, E, place, mark, k, b, m)
  BY <1>1, <1>3, PacketLies
<1>5. n = SizeIn(b) + 6 /\ m = packet[k].means
  OBVIOUS
<1> HIDE DEF n, b, m
<1>6. /\ b \in Seq(BYTE) /\ Means(b, m) /\ Starts(b)
      /\ \A i \in 1 .. Len(b) : S[x + i] = b[i]
      /\ u \in Nat /\ u <= Len(S) /\ x + Len(b) <= u /\ Harmless(S, x + Len(b), u)
  BY <1>3, <1>4 DEF Holds
<1>7. Kind(q, S, x, a, b, m, n)
  BY <1>0, <1>5, <1>6, KindIs
<1>8. /\ n \in Nat /\ n >= 6 /\ PacketSize(q) = n - 6 /\ m = << >> /\ n = Len(b)
      /\ x + n <= a
  BY <1>7 DEF Kind, AtFront
<1>14. PacketSize(q) + 6 = n /\ n \in 0 .. a - x /\ x + n \in Nat
  BY <1>8
<1>9. Shows(r, S, x + n, a)
  BY <1>0, <1>14, ShownOn
<1>15. Shows(r, S, x + n, Len(S) - Len(t)) /\ x + n <= u /\ Harmless(S, x + n, u)
  BY <1>0, <1>6, <1>8, <1>9
<1> HIDE DEF r
<1>10. KeepsPlace(r, t, d \o m, E)
  BY <1>1, <1>3, <1>5, <1>14, <1>15, Passes
<1>11. d \o m = d
  BY <1>8
<1>12. r \in Queues /\ NumberToRead(r) = a - (x + n)
  BY <1>9, ShownAhead
<1>13. NumberToRead(r) <= NumberToRead(q)
  <2>1. NumberToRead(q) = a - x
    BY <1>0
  <2> QED
    BY <1>8, <1>12, <2>1
<1> QED
  BY <1>10, <1>11, <1>12, <1>13 DEF Follows, r

(* Where the server stands with a packet that has come, which is b and      *)
(* means m.                                                                 *)
AtPacket(q, t, d, S, E, packet, place, mark, x, k, a, b, m, n) ==
  /\ k \in 1 .. Len(packet) /\ x = place[k] /\ b = packet[k].bytes /\ m = packet[k].means
  /\ Laid(S, E, packet, place, mark) /\ Reads(q, t, d, S, E, place, mark, x, k)
  /\ a = Len(S) - Len(t) /\ x \in Nat /\ a \in Nat /\ a <= Len(S)
  /\ b \in Seq(BYTE) /\ x + Len(b) <= Upto(place, S, k + 1)
  /\ Upto(place, S, k + 1) \in Nat /\ Upto(place, S, k + 1) <= Len(S) /\ Len(S) \in Nat
  /\ Kind(q, S, x, a, b, m, n)

(* There is such a packet. *)
LEMMA PacketIs ==
  ASSUME NEW q \in Queues, NEW t \in Seq(BYTE), NEW d, NEW E,
         KeepsPlace(q, t, d, E), Arrived(q)
  PROVE  \E S, packet, place, mark, x, k, a, b, m, n :
           AtPacket(q, t, d, S, E, packet, place, mark, x, k, a, b, m, n)
<1>1. PICK S \in Seq(BYTE), packet \in Seq(ITEM), place, mark \in Seq(Nat), x, k \in Nat :
        Laid(S, E, packet, place, mark) /\ Reads(q, t, d, S, E, place, mark, x, k)
  BY DEF KeepsPlace
<1>2. PICK a, e \in Nat : Stands(q, t, S, packet, place, x, k, a, e)
  BY <1>1, ReadsIs
<1>3. a = Len(S) - Len(t) /\ Shows(q, S, x, a) /\ a <= Len(S) /\ Len(S) \in Nat
  BY <1>2 DEF Stands
<1>4. k \in 1 .. Len(packet) /\ x = place[k]
  BY <1>1, ArrivedIs
<1> DEFINE b == packet[k].bytes
           m == packet[k].means
           n == SizeIn(b) + 6
<1>5. Holds(S, E, place, mark, k, b, m)
  BY <1>1, <1>4, PacketLies
<1>6. n = SizeIn(b) + 6
  OBVIOUS
<1> HIDE DEF n, b, m
<1>7. /\ b \in Seq(BYTE) /\ Means(b, m) /\ Starts(b)
      /\ \A i \in 1 .. Len(b) : S[x + i] = b[i]
      /\ x + Len(b) <= Upto(place, S, k + 1) /\ Upto(place, S, k + 1) <= Len(S)
      /\ Upto(place, S, k + 1) \in Nat
  BY <1>4, <1>5 DEF Holds
<1>8. Kind(q, S, x, a, b, m, n)
  BY <1>3, <1>6, <1>7, KindIs
<1>9. b = packet[k].bytes /\ m = packet[k].means
  BY DEF b, m
<1>10. AtPacket(q, t, d, S, E, packet, place, mark, x, k, a, b, m, n)
  BY <1>1, <1>3, <1>4, <1>7, <1>8, <1>9 DEF AtPacket
<1> QED
  BY <1>10

(* A handler that stops in its packet behind the type has served it.        *)
LEMMA StopsIn ==
  ASSUME NEW q \in Queues, NEW t \in Seq(BYTE), NEW d \in Seq(MEANING),
         NEW S, NEW E, NEW packet, NEW place, NEW mark, NEW x, NEW k, NEW a, NEW b, NEW m,
         NEW n, AtPacket(q, t, d, S, E, packet, place, mark, x, k, a, b, m, n),
         NEW w, m = <<w>>, n = Len(b), Harmless(b, 6, n),
         NEW c \in 6 .. n, NEW r, AtFront(r, S, x, a, b, n, c),
         NEW v \in {r, SkipTerminator(r)}
  PROVE  Follows(q, v, t, d, Append(d, w), E)
<1>1. /\ k \in 1 .. Len(packet) /\ x = place[k] /\ b = packet[k].bytes /\ packet[k].means = <<w>>
      /\ Laid(S, E, packet, place, mark) /\ Reads(q, t, d, S, E, place, mark, x, k)
      /\ x \in Nat /\ b \in Seq(BYTE)
  BY DEF AtPacket
<1>2. a = Len(S) - Len(t) /\ x + Len(b) <= Upto(place, S, k + 1) /\ Upto(place, S, k + 1) \in Nat
  BY DEF AtPacket
<1>3. Shows(r, S, x + c, a)
  BY DEF AtFront
<1>4. Shows(r, S, x + c, Len(S) - Len(t))
  BY <1>2, <1>3
<1>5. n \in Nat /\ c \in Nat /\ c >= 1 /\ c <= Len(b) /\ 6 \in Nat /\ 6 <= c
  BY <1>1
<1>6. Harmless(b, c, Len(b))
  BY <1>5, HarmlessRest
<1>7. x + c \in Nat /\ x + c <= Upto(place, S, k + 1) /\ x + c <= x + c
  <2> DEFINE u == Upto(place, S, k + 1)
             l == Len(b)
  <2>1. u \in Nat /\ l \in Nat /\ x + l <= u /\ c <= l
    BY <1>1, <1>2, <1>5
  <2> HIDE DEF u, l
  <2>2. x + c \in Nat /\ x + c <= u
    BY <1>1, <1>5, <2>1, SMTT(30)
  <2> QED
    BY <2>2 DEF u
<1> QED
  BY <1>1, <1>4, <1>5, <1>6, <1>7, ServeKeeps

(* The word for what get_command_text has found. *)
WordOf(command) == IF command.complete THEN MeaningOf(command.name) ELSE "bad"

(* Where get_command_text has left the server in its packet; wherever its   *)
(* handler stops there, it has served the command, whether the terminator   *)
(* is skipped or not.                                                       *)
InText(q, t, d, E, command, S, x, a, b, n, c) ==
  /\ n \in Nat /\ n >= 9 /\ c \in 6 .. n
  /\ InPlace(command.queue) /\ AtFront(Shown(command.queue), S, x, a, b, n, c)
  /\ command.queue \notin Queues => c = n - 3
  /\ command.complete => command.queue \in Queues
  /\ command.complete /\ command.name \in {HELP, SHELLEXEC} =>
       \/ PreviousByte(command.queue) = Newline
       \/ \E p \in c + 1 .. n : b[p] = Newline
  /\ \A r : \A e \in 6 .. n :
       AtFront(r, S, x, a, b, n, e) =>
         \A v \in {r, SkipTerminator(r)} :
           Follows(q, v, t, d, Append(d, WordOf(command)), E)

(* It does leave it there. *)
LEMMA TextIs ==
  ASSUME NEW q \in Queues, NEW t \in Seq(BYTE), NEW d \in Seq(MEANING), NEW E,
         KeepsPlace(q, t, d, E), Packet(q, Text)
  PROVE  \E S, x, a, b, n, c : InText(q, t, d, E, CommandText(q), S, x, a, b, n, c)
<1> DEFINE command == CommandText(q)
<1>1. PICK S, packet, place, mark, x, k, a, b, m, n :
        AtPacket(q, t, d, S, E, packet, place, mark, x, k, a, b, m, n)
  BY PacketIs DEF Packet
<1>2. b \in Seq(BYTE) /\ Kind(q, S, x, a, b, m, n)
  BY <1>1 DEF AtPacket
<1>3. /\ n \in Nat /\ PacketSize(q) = n - 6 /\ AtFront(q, S, x, a, b, n, 0)
      /\ IsTextCommand(b) /\ m = <<TextMeaning(b)>> /\ n = Len(b)
  BY <1>2 DEF Kind
<1>4. /\ n >= 9 /\ Terminated(b) /\ Harmless(b, 6, n)
      /\ HasName(b) /\ TextMeaning(b) \in {"help", "shellexec"} =>
           \E p \in NameEnd(b) .. Len(b) - 3 : b[p] = Newline
  BY <1>3 DEF IsTextCommand, IsPacket
<1>0. PICK c \in 6 .. n : Found(command, S, x, a, b, n, c)
  BY <1>2, <1>3, <1>4, CommandIsFound
<1> HIDE DEF command
<1>5. /\ InPlace(command.queue) /\ AtFront(Shown(command.queue), S, x, a, b, n, c)
      /\ command.queue \notin Queues => c = n - 3
      /\ command.complete <=> HasName(b)
      /\ HasName(b) =>
           /\ command.queue \in Queues
           /\ command.name = SubSeq(b, 7, NameEnd(b) - 1)
           /\ c = NameEnd(b) /\ PreviousByte(command.queue) = b[c]
  BY <1>0 DEF Found
<1>6. WordOf(command) = TextMeaning(b)
  BY <1>5 DEF WordOf, TextMeaning
<1>7. ASSUME command.complete, command.name \in {HELP, SHELLEXEC}
      PROVE  \/ PreviousByte(command.queue) = Newline
             \/ \E p \in c + 1 .. n : b[p] = Newline
  <2>1. HELP # PING /\ SHELLEXEC # PING /\ SHELLEXEC # HELP
    <3>1. HELP[1] = 72 /\ PING[1] = 80 /\ SHELLEXEC[1] = 83
      BY DEF HELP, PING, SHELLEXEC
    <3> QED
      BY <3>1
  <2>2. WordOf(command) \in {"help", "shellexec"}
    BY <1>7, <2>1 DEF WordOf, MeaningOf
  <2>3. HasName(b) /\ c = NameEnd(b) /\ PreviousByte(command.queue) = b[c]
    BY <1>5, <1>7
  <2>4. PICK p \in c .. Len(b) - 3 : b[p] = Newline
    BY <1>4, <1>6, <2>2, <2>3
  <2>5. p = c \/ p \in c + 1 .. n
    BY <1>3
  <2> QED
    BY <2>3, <2>4, <2>5
<1>8. ASSUME NEW r, NEW e \in 6 .. n, AtFront(r, S, x, a, b, n, e),
             NEW v \in {r, SkipTerminator(r)}
      PROVE  Follows(q, v, t, d, Append(d, WordOf(command)), E)
  <2>1. m = <<WordOf(command)>>
    BY <1>3, <1>6
  <2> QED
    BY <1>1, <1>3, <1>4, <1>8, <2>1, StopsIn
<1>9. InText(q, t, d, E, command, S, x, a, b, n, c)
  BY <1>3, <1>4, <1>5, <1>7, <1>8 DEF InText
<1> QED
  BY <1>9 DEF command

(* What follows in the ring shows itself. *)
LEMMA FollowsInRing ==
  ASSUME NEW q, NEW r, NEW t, NEW d, NEW f, NEW E, Follows(q, r, t, d, f, E)
  PROVE  InPlace(r) /\ Follows(q, Shown(r), t, d, f, E)
<1>1. r \in Queues
  BY DEF Follows
<1> QED
  BY <1>1, ShownInRing

(* A text command whose handler reads no parameters. *)
LEMMA PlainFollows ==
  ASSUME NEW q \in Queues, NEW t \in Seq(BYTE), NEW d \in Seq(MEANING), NEW E,
         KeepsPlace(q, t, d, E), Packet(q, Text), NEW command, command = CommandText(q)
  PROVE  /\ command.complete => command.queue \in Queues
         /\ \A v \in PastTerminator(command.queue) :
              InPlace(v) /\ Follows(q, Shown(v), t, d, Append(d, WordOf(command)), E)
<1> DEFINE at == command.queue
           f == Append(d, WordOf(command))
<1>1. PICK S, x, a, b, n, c : InText(q, t, d, E, command, S, x, a, b, n, c)
  BY TextIs
<1>2. /\ n \in Nat /\ n >= 9 /\ c \in 6 .. n
      /\ InPlace(at) /\ AtFront(Shown(at), S, x, a, b, n, c)
      /\ at \notin Queues => c = n - 3
      /\ command.complete => at \in Queues
      /\ \A r : \A e \in 6 .. n :
           AtFront(r, S, x, a, b, n, e) =>
             \A v \in {r, SkipTerminator(r)} : Follows(q, v, t, d, f, E)
  BY <1>1 DEF InText
<1> HIDE DEF at, f
<1>3. CASE at \in Queues
  <2>1. Shown(at) = at /\ PastTerminator(at) = {SkipTerminator(at)}
    BY <1>3, ShownInRing
  <2>2. Follows(q, SkipTerminator(at), t, d, f, E)
    BY <1>2, <2>1
  <2> QED
    BY <1>2, <2>1, <2>2, FollowsInRing DEF at, f
<1>4. CASE at \notin Queues
  <2>1. OneBefore(at)
    BY <1>2, <1>4 DEF InPlace
  <2>2. /\ PastTerminator(at) = {at, IncrementRead(at, 3)}
        /\ IncrementRead(at, 3) = IncrementRead(Shown(at), 3)
    <3>1. at.read \notin Index /\ \A m \in 1 .. 3 : IncrementRead(at, m) = IncrementRead(Shown(at), m)
      BY <2>1, ShownBefore
    <3> QED
      BY <3>1 DEF PastTerminator
  <2>3. Follows(q, Shown(at), t, d, f, E)
    BY <1>2
  <2>4. Follows(q, IncrementRead(at, 3), t, d, f, E)
    <3>1. 3 \in 0 .. n - c /\ c + 3 = n /\ n \in 6 .. n
      BY <1>2, <1>4
    <3>2. AtFront(IncrementRead(Shown(at), 3), S, x, a, b, n, n)
      BY <1>2, <3>1, FrontOn
    <3> QED
      BY <1>2, <2>2, <3>1, <3>2
  <2> QED
    BY <1>2, <2>2, <2>3, <2>4, FollowsInRing DEF at, f
<1> QED
  BY <1>3, <1>4

(* HELP, with a topic or without. *)
LEMMA HelpFollows ==
  ASSUME NEW q \in Queues, NEW t \in Seq(BYTE), NEW d \in Seq(MEANING), NEW E,
         KeepsPlace(q, t, d, E), Packet(q, Text), NEW command, command = CommandText(q),
         command.complete, command.name = HELP
  PROVE  Follows(q, SkipTerminator(CommandHelp(command.queue).queue), t, d,
                 Append(d, WordOf(command)), E)
<1>1. PICK S, x, a, b, n, c : InText(q, t, d, E, command, S, x, a, b, n, c)
  BY TextIs
<1>2. /\ n \in Nat /\ c \in 6 .. n /\ AtFront(command.queue, S, x, a, b, n, c)
      /\ PreviousByte(command.queue) = Newline \/ \E p \in c + 1 .. n : b[p] = Newline
      /\ \A r : \A e \in 6 .. n :
           AtFront(r, S, x, a, b, n, e) =>
             Follows(q, SkipTerminator(r), t, d, Append(d, WordOf(command)), E)
  BY <1>1, ShownInRing DEF InText
<1>3. PICK e \in c .. n : AtFront(CommandHelp(command.queue).queue, S, x, a, b, n, e)
  BY <1>2, HelpStops
<1>4. e \in 6 .. n
  BY <1>2
<1> QED
  BY <1>2, <1>3, <1>4

(* SHELLEXEC with a line.  *)
LEMMA ShellFollows ==
  ASSUME NEW q \in Queues, NEW t \in Seq(BYTE), NEW d \in Seq(MEANING), NEW E,
         KeepsPlace(q, t, d, E), Packet(q, Text), NEW command, command = CommandText(q),
         command.complete, command.name = SHELLEXEC, PreviousByte(command.queue) # Newline
  PROVE  Follows(q, SkipTerminator(AfterAllParams(command.queue)), t, d,
                 Append(d, WordOf(command)), E)
<1>1. PICK S, x, a, b, n, c : InText(q, t, d, E, command, S, x, a, b, n, c)
  BY TextIs
<1>2. /\ n \in Nat /\ c \in 6 .. n /\ AtFront(command.queue, S, x, a, b, n, c)
      /\ \E p \in c + 1 .. n : b[p] = Newline
      /\ \A r : \A e \in 6 .. n :
           AtFront(r, S, x, a, b, n, e) =>
             Follows(q, SkipTerminator(r), t, d, Append(d, WordOf(command)), E)
  BY <1>1, ShownInRing DEF InText
<1>3. PICK e \in c .. n : AtFront(AfterAllParams(command.queue), S, x, a, b, n, e)
  BY <1>2, AllParamsStop
<1>4. e \in 6 .. n
  BY <1>2
<1> QED
  BY <1>2, <1>3, <1>4

(* PING in a binary packet. *)
LEMMA PingFollows ==
  ASSUME NEW q \in Queues, NEW t \in Seq(BYTE), NEW d \in Seq(MEANING), NEW E,
         KeepsPlace(q, t, d, E), Packet(q, BinaryCommand), ReadAhead(q, 6) = PingID
  PROVE  Follows(q, SkipTerminator(IncrementRead(q, 7)), t, d, Append(d, "ping"), E)
<1>1. PICK S, packet, place, mark, x, k, a, b, m, n :
        AtPacket(q, t, d, S, E, packet, place, mark, x, k, a, b, m, n)
  BY PacketIs DEF Packet
<1>2. b \in Seq(BYTE) /\ Kind(q, S, x, a, b, m, n)
  BY <1>1 DEF AtPacket
<1>3. /\ n \in Nat /\ AtFront(q, S, x, a, b, n, 0)
      /\ \/ IsBinaryPing(b) /\ m = <<"ping">> /\ n = Len(b)
         \/ IsRefused(b, StoreAllocID, 13) /\ n = 13
         \/ IsRefused(b, InsertAllocID, 19) /\ n = 19
  BY <1>2 DEF Kind
<1>4. IsBinaryPing(b) => n > 9 /\ Harmless(b, 6, n) /\ n = Len(b) /\ m = <<"ping">>
  <2>1. ASSUME IsBinaryPing(b)
        PROVE  ~IsRefused(b, StoreAllocID, 13) /\ ~IsRefused(b, InsertAllocID, 19)
    BY <2>1 DEF IsBinaryPing, IsRefused, PingID, StoreAllocID, InsertAllocID
  <2>2. IsBinaryPing(b) => Len(b) > 9 /\ Harmless(b, 6, Len(b))
    BY DEF IsBinaryPing
  <2> QED
    BY <1>3, <2>1, <2>2
<1>5. n >= 7
  BY <1>3, <1>4
<1>6. b[7] = PingID
  <2>1. 6 \in Nat /\ 7 = 0 + 6 + 1 /\ 7 <= n
    BY <1>5
  <2>2. ReadAhead(q, 6) = b[7]
    BY <1>3, <2>1, FrontByte
  <2> QED
    BY <2>2
<1>7. IsBinaryPing(b)
  BY <1>3, <1>6 DEF IsRefused, PingID, StoreAllocID, InsertAllocID
<1>8. AtFront(IncrementRead(q, 7), S, x, a, b, n, 7)
  <2>1. 7 \in 0 .. n - 0 /\ 0 + 7 = 7
    BY <1>3, <1>5
  <2> QED
    BY <1>3, <2>1, FrontOn
<1>9. 7 \in 6 .. n /\ n = Len(b) /\ m = <<"ping">> /\ Harmless(b, 6, n)
  BY <1>3, <1>4, <1>5, <1>7
<1> QED
  BY <1>1, <1>8, <1>9, StopsIn

(* Behind the parameters of a command that is refused there is its          *)
(* terminator, and one byte of the data at least.                           *)
LEMMA RefusedFollows ==
  ASSUME NEW q \in Queues, NEW t \in Seq(BYTE), NEW d \in Seq(MEANING), NEW E,
         KeepsPlace(q, t, d, E), Packet(q, BinaryCommand),
         NEW id, NEW w, NEW l,
         \/ id = StoreAllocID /\ w = "salloc" /\ l = 13
         \/ id = InsertAllocID /\ w = "ialloc" /\ l = 19,
         ReadAhead(q, 6) = id,
         NEW data, data = SkipTerminator(IncrementRead(IncrementRead(q, 7), l - 10)),
         NumberToRead(data) # 0
  PROVE  Follows(q, SkipTerminator(SkipToNextPacket(IncrementRead(data, 1))), t, d,
                 Append(d, w), E)
<1>1. PICK S, packet, place, mark, x, k, a, b, m, n :
        AtPacket(q, t, d, S, E, packet, place, mark, x, k, a, b, m, n)
  BY PacketIs DEF Packet
<1>2. b \in Seq(BYTE) /\ Kind(q, S, x, a, b, m, n)
  BY <1>1 DEF AtPacket
<1>3. /\ n \in Nat /\ AtFront(q, S, x, a, b, n, 0)
      /\ \/ IsBinaryPing(b) /\ n = Len(b)
         \/ IsRefused(b, StoreAllocID, 13) /\ m = <<"salloc">> /\ n = 13
         \/ IsRefused(b, InsertAllocID, 19) /\ m = <<"ialloc">> /\ n = 19
  BY <1>2 DEF Kind
<1>4. n >= 7
  BY <1>3 DEF IsBinaryPing
<1>5. b[7] = id
  <2>1. 6 \in Nat /\ 7 = 0 + 6 + 1 /\ 7 <= n
    BY <1>4
  <2>2. ReadAhead(q, 6) = b[7]
    BY <1>3, <2>1, FrontByte, SMTT(30)
  <2> QED
    BY <2>2
<1>6. IsRefused(b, id, l) /\ m = <<w>> /\ n = l /\ n \in {13, 19}
  BY <1>3, <1>5 DEF IsBinaryPing, IsRefused, PingID, StoreAllocID, InsertAllocID
<1>7. n < Len(b) /\ (\A p \in n - 2 .. n : b[p] = Minus) /\ Harmless(b, n + 1, Len(b))
  <2>1. IsRefused(b, id, n) /\ n \in {13, 19} /\ b \in Seq(BYTE)
    BY <1>2, <1>6
  <2>2. HasData(b, id, n)
    BY <2>1, RefusedIs
  <2> QED
    BY <2>2 DEF HasData
<1> DEFINE params == IncrementRead(IncrementRead(q, 7), l - 10)
<1>8. AtFront(params, S, x, a, b, n, n - 3)
  <2>1. 7 \in 0 .. n - 0 /\ 0 + 7 = 7 /\ l - 10 \in 0 .. n - 7 /\ 7 + (l - 10) = n - 3
    BY <1>6
  <2>2. AtFront(IncrementRead(q, 7), S, x, a, b, n, 7)
    BY <1>3, <2>1, FrontOn
  <2> QED
    BY <2>1, <2>2, FrontOn
<1> HIDE DEF params
<1>9. data = IncrementRead(params, 3)
  <2>1. ASSUME NEW i \in 0 .. 2 PROVE ReadAhead(params, i) = Minus
    <3>1. i \in Nat /\ n - 2 + i = (n - 3) + i + 1 /\ n - 2 + i <= n /\ n - 2 + i \in n - 2 .. n
      BY <1>3
    <3>2. ReadAhead(params, i) = b[n - 2 + i]
      BY <1>8, <3>1, FrontByte
    <3> QED
      BY <1>7, <3>1, <3>2
  <2>2. Peek(params, 3) = <<Minus, Minus, Minus>>
    <3>1. ReadAhead(params, 0) = Minus /\ ReadAhead(params, 1) = Minus
          /\ ReadAhead(params, 2) = Minus
      BY <2>1
    <3> QED
      BY <3>1 DEF Peek
  <2>3. NumberToRead(params) >= 3
    <3>1. a \in Nat /\ NumberToRead(params) = a - (x + (n - 3)) /\ x \in Nat /\ x + n <= a
      BY <1>8, FrontAhead
    <3> QED
      BY <1>3, <3>1
  <2> QED
    BY <2>2, <2>3 DEF SkipTerminator, params
<1>10. Shows(data, S, x + n, a)
  <2>1. 3 \in 0 .. n - (n - 3) /\ (n - 3) + 3 = n
    BY <1>3
  <2>2. AtFront(data, S, x, a, b, n, n)
    BY <1>8, <1>9, <2>1, FrontOn
  <2> QED
    BY <2>2 DEF AtFront
<1>11. /\ k \in 1 .. Len(packet) /\ x = place[k] /\ b = packet[k].bytes
       /\ packet[k].means = <<w>>
       /\ Laid(S, E, packet, place, mark) /\ Reads(q, t, d, S, E, place, mark, x, k)
       /\ x \in Nat
  BY <1>1, <1>6 DEF AtPacket
<1> DEFINE u == Upto(place, S, k + 1)
<1>12. a = Len(S) - Len(t) /\ x + Len(b) <= u /\ u \in Nat /\ u <= Len(S) /\ Len(S) \in Nat
  BY <1>1 DEF AtPacket
<1>13. u = Len(S) \/ (S[u + 1] = Plus /\ S[u + 2] = Plus /\ S[u + 3] = Plus)
  <2>1. k + 1 \in 1 .. Len(packet) + 1
    BY <1>11 DEF Laid
  <2> QED
    BY <1>11, <2>1, PlusThere
<1>14. /\ 1 \in 0 .. a - (x + n) /\ x + n + 1 \in Nat /\ a \in Nat
  <2>1. NumberToRead(data) \in Nat /\ NumberToRead(data) = a - (x + n) /\ a \in Nat
    BY <1>10, ShownAhead
  <2>2. x \in Nat /\ n \in Nat
    BY <1>3, <1>11
  <2> DEFINE r == NumberToRead(data)
  <2>3. r # 0 /\ r \in Nat /\ r = a - (x + n)
    BY <2>1
  <2> HIDE DEF r
  <2> QED
    BY <2>1, <2>2, <2>3
<1>15. Shows(IncrementRead(data, 1), S, x + n + 1, a)
  BY <1>10, <1>14, ShownOn
<1>16. Len(b) \in Nat
  BY <1>2
<1> HIDE DEF u
<1>17. x + n + 1 <= u /\ n + 1 <= Len(b) /\ n + 1 \in Nat /\ n + 1 >= 1
  <2> DEFINE v == Len(b)
  <2>1. v \in Nat /\ n < v /\ x + v <= u
    BY <1>7, <1>12, <1>16
  <2>3. x \in Nat /\ n \in Nat /\ u \in Nat
    BY <1>3, <1>11, <1>12
  <2> HIDE DEF v
  <2>2. x + n + 1 <= u /\ n + 1 <= v /\ n + 1 \in Nat /\ n + 1 >= 1
    BY <2>1, <2>3
  <2> QED
    BY <2>2 DEF v
<1>18. PICK y \in x + n + 1 .. u :
         y <= a /\ Shows(SkipToNextPacket(IncrementRead(data, 1)), S, y, a)
  BY <1>12, <1>13, <1>14, <1>15, <1>17, SkipStops
<1>19. y \in Nat /\ x + (n + 1) <= y /\ y <= Upto(place, S, k + 1)
  <2>1. x \in Nat /\ n \in Nat /\ u \in Nat /\ y \in x + n + 1 .. u
    BY <1>3, <1>11, <1>12
  <2>2. y \in Nat /\ x + (n + 1) <= y /\ y <= u
    BY <2>1
  <2> QED
    BY <2>2 DEF u
<1>20. Shows(SkipToNextPacket(IncrementRead(data, 1)), S, y, Len(S) - Len(t))
  BY <1>12, <1>18
<1> QED
  BY <1>7, <1>11, <1>17, <1>19, <1>20, ServeKeeps

-----------------------------------------------------------------------------
(* The client sends, and the bytes come. *)

(* More bytes: S \o b begins with S and goes on with b. *)
Extends(S2, S, b) ==
  /\ Len(S) \in Nat /\ Len(b) \in Nat /\ Len(S2) = Len(S) + Len(b)
  /\ \A i \in 1 .. Len(S) : S2[i] = S[i]
  /\ \A i \in 1 .. Len(b) : S2[Len(S) + i] = b[i]

(* It does. *)
LEMMA ConcatExtends ==
  ASSUME NEW T, NEW S \in Seq(T), NEW b \in Seq(T)
  PROVE  S \o b \in Seq(T) /\ Extends(S \o b, S, b)
<1> DEFINE S2 == S \o b
<1>1. /\ S2 \in Seq(T) /\ Len(S2) = Len(S) + Len(b)
      /\ \A i \in 1 .. Len(S2) : S2[i] = IF i <= Len(S) THEN S[i] ELSE b[i - Len(S)]
  BY ConcatProperties
<1>2. Len(S) \in Nat /\ Len(b) \in Nat
  OBVIOUS
<1> DEFINE l == Len(S)
           n == Len(b)
<1> HIDE DEF S2, l, n
<1>3. /\ \A i \in 1 .. l : i \in 1 .. l + n /\ i <= l
      /\ \A i \in 1 .. n : l + i \in 1 .. l + n /\ ~(l + i <= l) /\ (l + i) - l = i
  BY <1>2 DEF l, n
<1>4. \A i \in 1 .. l : S2[i] = S[i]
  BY <1>1, <1>3 DEF l, n
<1>5. ASSUME NEW i \in 1 .. n PROVE S2[l + i] = b[i]
  <2> DEFINE j == l + i
  <2>1. j \in 1 .. l + n /\ ~(j <= l) /\ j - l = i
    BY <1>3
  <2> HIDE DEF j
  <2>2. S2[j] = b[j - l]
    BY <1>1, <2>1 DEF l, n
  <2> QED
    BY <2>1, <2>2 DEF j
<1> QED
  BY <1>1, <1>2, <1>4, <1>5 DEF Extends, l, n, S2

(* Appending is extending by one. *)
LEMMA AppendExtends ==
  ASSUME NEW T, NEW s \in Seq(T), NEW v \in T
  PROVE  /\ Append(s, v) \in Seq(T) /\ Len(Append(s, v)) = Len(s) + 1 /\ Len(s) \in Nat
         /\ \A i \in 1 .. Len(s) : Append(s, v)[i] = s[i]
         /\ Append(s, v)[Len(s) + 1] = v
BY AppendProperties

(* What is harmless stays so when more is sent. *)
LEMMA HarmlessStays ==
  ASSUME NEW S, NEW b, NEW S2, Extends(S2, S, b),
         NEW x \in Nat, NEW e \in Nat, e <= Len(S), Harmless(S, x, e)
  PROVE  Harmless(S2, x, e)
<1>1. 0 + x = x /\ 0 + e = e /\ 0 \in Nat
  OBVIOUS
<1>2. \A i \in 1 .. e : S2[0 + i] = S[i]
  <2> SUFFICES ASSUME NEW i \in 1 .. e PROVE S2[0 + i] = S[i]
    OBVIOUS
  <2> DEFINE l == Len(S)
  <2>1. l \in Nat /\ e <= l
    BY DEF Extends
  <2> HIDE DEF l
  <2>2. i \in 1 .. l /\ 0 + i = i
    BY <2>1
  <2> QED
    BY <2>2 DEF Extends, l
<1>3. Harmless(S2, 0 + x, 0 + e)
  BY <1>2, HarmlessThere
<1> QED
  BY <1>1, <1>3

(* A packet that has been sent lies where it does, and what is sent now is  *)
(* another or noise.                                                        *)
LEMMA StillLies ==
  ASSUME NEW S, NEW E, NEW packet, NEW place, NEW mark, Laid(S, E, packet, place, mark),
         NEW k \in 1 .. Len(packet),
         NEW b, NEW S2, Extends(S2, S, b), NEW m, NEW E2, Extends(E2, E, m),
         NEW packet2, packet2[k] = packet[k],
         NEW place2, place2[k] = place[k], NEW mark2, mark2[k] = mark[k],
         Upto(mark2, E2, k + 1) = Upto(mark, E, k + 1),
         NEW u2 \in Nat, u2 = Upto(place2, S2, k + 1),
         Upto(place, S, k + 1) <= u2, u2 <= Len(S2), Harmless(S2, Upto(place, S, k + 1), u2)
  PROVE  Lies(S2, E2, packet2, place2, mark2, k)
<1> DEFINE c == packet[k].bytes
           w == packet[k].means
           u == Upto(place, S, k + 1)
           p == place[k]
           l == Len(c)
<1>1. Holds(S, E, place, mark, k, c, w)
  BY PacketLies
<1> HIDE DEF c, w
<1>2. /\ c \in Seq(BYTE) /\ Starts(c) /\ w \in Seq(MEANING)
      /\ p \in Nat /\ u \in Nat /\ u <= Len(S)
      /\ p + l <= u
      /\ \A i \in 1 .. l : S[p + i] = c[i]
      /\ Harmless(S, p + l, u)
  BY <1>1 DEF Holds
<1>3. /\ mark[k] \in Nat /\ mark[k] + Len(w) = Upto(mark, E, k + 1)
      /\ Upto(mark, E, k + 1) <= Len(E)
      /\ \A i \in 1 .. Len(w) : E[mark[k] + i] = w[i]
  BY <1>1 DEF Holds
<1>4. l \in Nat /\ Len(w) \in Nat
  BY <1>2
<1> HIDE DEF u, p, l
<1>5. p + l \in Nat /\ p + l <= u2 /\ u <= u2
  BY <1>2, <1>4 DEF u
<1>6. Harmless(S2, p + l, u2)
  <2>1. Harmless(S2, p + l, u)
    BY <1>2, <1>5, HarmlessStays
  <2>2. Harmless(S2, u, u2)
    BY DEF u
  <2> QED
    BY <1>2, <1>5, <2>1, <2>2, HarmlessBoth
<1>7. ASSUME NEW i \in 1 .. l PROVE S2[p + i] = c[i]
  <2> DEFINE n == Len(S)
             j == p + i
  <2>1. n \in Nat /\ u <= n
    BY <1>2 DEF Extends
  <2> HIDE DEF n
  <2>2. j \in 1 .. n
    BY <1>2, <1>4, <2>1
  <2>3. S[j] = c[i]
    BY <1>2
  <2> HIDE DEF j
  <2>4. S2[j] = S[j]
    BY <2>2 DEF Extends, n
  <2> QED
    BY <2>3, <2>4 DEF j
<1>8. ASSUME NEW i \in 1 .. Len(w) PROVE E2[mark[k] + i] = w[i]
  <2> DEFINE n == Len(E)
             o == Len(w)
             j == mark[k] + i
  <2>1. n \in Nat /\ mark[k] + o <= n /\ mark[k] \in Nat /\ o \in Nat /\ i \in 1 .. o
    BY <1>3, <1>4 DEF Extends
  <2>3. E[j] = w[i]
    BY <1>3
  <2> HIDE DEF n, o
  <2>2. j \in 1 .. n
    BY <2>1, SMTT(30)
  <2> HIDE DEF j
  <2>4. E2[j] = E[j]
    BY <2>2 DEF Extends, n
  <2> QED
    BY <2>3, <2>4 DEF j
<1>9. Upto(mark2, E2, k + 1) <= Len(E2)
  <2> DEFINE f == Len(E)
             g == Len(m)
             h == Len(E2)
             v == Upto(mark, E, k + 1)
  <2>1. f \in Nat /\ g \in Nat /\ h = f + g /\ v <= f /\ v \in Nat
    BY <1>3, <1>4 DEF Extends
  <2>2. Upto(mark2, E2, k + 1) = v
    OBVIOUS
  <2> HIDE DEF f, g, h, v
  <2>3. v <= h
    BY <2>1
  <2> QED
    BY <2>2, <2>3 DEF h
<1>10. packet2[k].bytes = c /\ packet2[k].means = w /\ place2[k] = p /\ mark2[k] = mark[k]
  BY DEF c, w, p
<1> QED
  BY <1>2, <1>3, <1>5, <1>6, <1>7, <1>8, <1>9, <1>10 DEF Lies, l

(* Neither what the server has read nor what it has served changes.         *)
LEMMA StillReads ==
  ASSUME NEW q, NEW d \in Seq(MEANING), NEW S, NEW E, NEW place, NEW mark,
         NEW x \in Nat, NEW k, Reads(q, << >>, d, S, E, place, mark, x, k),
         NEW b, NEW S2, Extends(S2, S, b), NEW m, NEW E2, Extends(E2, E, m),
         NEW place2, k \in 1 .. Len(place2) + 1,
         NEW mark2, Upto(mark2, E2, k) = Upto(mark, E, k),
         NEW u \in Nat, u = Upto(place, S, k),
         NEW u2 \in Nat, u2 = Upto(place2, S2, k),
         u <= u2, u2 <= Len(S2), Harmless(S2, u, u2)
  PROVE  Reads(q, b, d, S2, E2, place2, mark2, x, k)
<1> DEFINE l == Len(S)
           n == Len(b)
           l2 == Len(S2)
<1>1. /\ l \in Nat /\ n \in Nat /\ l2 = l + n /\ l2 - n = l
      /\ \A i \in 1 .. l : S2[i] = S[i]
      /\ \A i \in 1 .. n : S2[l + i] = b[i]
  BY SMTT(30) DEF Extends
<1>2. /\ x <= u /\ u <= Len(S) /\ Harmless(S, x, u)
      /\ Shows(q, S, x, Len(S) - Len(<< >>))
  BY DEF Reads
<1>3. Len(S) - Len(<< >>) = l
  BY <1>1
<1>4. Harmless(S2, x, u)
  BY <1>2, HarmlessStays
<1>5. Harmless(S2, x, u2) /\ x <= u2
  BY <1>2, <1>4, HarmlessBoth
<1> HIDE DEF l, n, l2
<1>6. Shows(q, S, x, l)
  BY <1>2, <1>3
<1>7. Shows(q, S2, x, l)
  <2>1. /\ q \in Queues /\ x + NumberToRead(q) = l
        /\ \A i \in x + 1 .. l : ReadAhead(q, i - x - 1) = S[i]
    BY <1>6 DEF Shows
  <2>2. \A i \in x + 1 .. l : i \in 1 .. l
    BY <1>1
  <2>3. \A i \in x + 1 .. l : ReadAhead(q, i - x - 1) = S2[i]
    BY <1>1, <2>1, <2>2
  <2>4. l <= Len(S2)
    BY <1>1 DEF l2
  <2> QED
    BY <1>1, <2>1, <2>3, <2>4 DEF Shows
<1>8. Shows(q, S2, x, Len(S2) - Len(b))
  BY <1>1, <1>7 DEF l2, n
<1>9. \A i \in 1 .. Len(b) : b[i] = S2[Len(S2) - Len(b) + i]
  BY <1>1 DEF l2, n
<1>10. /\ Len(d) = Upto(mark, E, k) /\ Len(d) <= Len(E)
       /\ \A i \in 1 .. Len(d) : d[i] = E[i]
  BY DEF Reads
<1>11. Len(d) <= Len(E2) /\ \A i \in 1 .. Len(d) : d[i] = E2[i]
  <2> DEFINE f == Len(E)
             g == Len(m)
             f2 == Len(E2)
             o == Len(d)
  <2>1. f \in Nat /\ g \in Nat /\ f2 = f + g /\ o <= f /\ \A i \in 1 .. f : E2[i] = E[i]
    BY <1>10 DEF Extends
  <2>2. \A i \in 1 .. o : d[i] = E[i]
    BY <1>10
  <2> HIDE DEF f, g, f2, o
  <2>3. ASSUME o \in Int PROVE o <= f2 /\ \A i \in 1 .. o : i \in 1 .. f
    BY <2>1, <2>3
  <2>4. o \in Int
    BY DEF o
  <2> QED
    BY <2>1, <2>2, <2>3, <2>4 DEF f2, o
<1> QED
  BY <1>5, <1>8, <1>9, <1>10, <1>11 DEF Reads

(* Among n and one more, what is not the last is among the n. *)
LEMMA NotLast ==
  ASSUME NEW n \in Nat, NEW j \in 1 .. n + 1, j # n + 1
  PROVE  j \in 1 .. n /\ j <= n
OBVIOUS

(* The client sends noise. *)
LEMMA NoiseKeeps ==
  ASSUME NEW q, NEW d \in Seq(MEANING), NEW E, KeepsPlace(q, << >>, d, E),
         NEW b \in Seq(BYTE), Harmless(b, 0, Len(b)), NEW E2, Extends(E2, E, << >>),
         E2 \in Seq(MEANING)
  PROVE  KeepsPlace(q, b, d, E2)
<1>1. PICK S \in Seq(BYTE), packet \in Seq(ITEM), place, mark \in Seq(Nat), x, k \in Nat :
        Laid(S, E, packet, place, mark) /\ Reads(q, << >>, d, S, E, place, mark, x, k)
  BY DEF KeepsPlace
<1> DEFINE S2 == S \o b
<1>2. S2 \in Seq(BYTE) /\ Extends(S2, S, b)
  BY ConcatExtends
<1> HIDE DEF S2
<1>3. /\ Len(S) \in Nat /\ Len(b) \in Nat /\ Len(S2) = Len(S) + Len(b)
      /\ Len(S2) \in Nat /\ Len(S) <= Len(S2)
      /\ \A i \in 1 .. Len(b) : S2[Len(S) + i] = b[i]
  BY <1>2 DEF Extends
<1>4. Len(E2) = Len(E)
  BY DEF Extends
<1>5. Harmless(S2, Len(S), Len(S2))
  <2>1. Harmless(S2, Len(S) + 0, Len(S) + Len(b))
    BY <1>3, HarmlessThere
  <2>2. Len(S) + 0 = Len(S)
    BY <1>3
  <2> QED
    BY <1>3, <2>1, <2>2
<1>6. \A j : Upto(mark, E2, j) = Upto(mark, E, j)
  BY <1>4 DEF Upto
<1>7. Len(place) = Len(packet) /\ Len(packet) \in Nat /\ place \in Seq(Nat)
  BY <1>1 DEF Laid
<1>8. ASSUME NEW j \in 1 .. Len(place) + 1
      PROVE  \E u, u2 \in Nat :
               /\ u = Upto(place, S, j) /\ u2 = Upto(place, S2, j)
               /\ u <= u2 /\ (u2 = u \/ u2 = Len(S2)) /\ (u = Len(S) \/ u = u2)
               /\ Harmless(S2, u, u2)
  <2> DEFINE u == Upto(place, S, j)
             u2 == Upto(place, S2, j)
  <2>1. u \in Nat /\ u2 \in Nat
    BY <1>3, <1>7, UptoIs
  <2>2. CASE j = Len(place) + 1
    <3>1. u = Len(S) /\ u2 = Len(S2)
      BY <1>3, <1>7, <2>2, UptoIs
    <3> QED
      BY <1>3, <1>5, <2>1, <3>1
  <2>3. CASE j # Len(place) + 1
    <3>1. j <= Len(place)
      BY <1>7, <2>3, NotLast
    <3>2. u = u2
      BY <3>1 DEF Upto
    <3> HIDE DEF u, u2
    <3>3. Harmless(S2, u, u2)
      BY <2>1, <3>2 DEF Harmless
    <3> QED
      BY <2>1, <3>2, <3>3 DEF u, u2
  <2> QED
    BY <2>2, <2>3
<1>9. ASSUME NEW j \in 1 .. Len(packet) PROVE Lies(S2, E2, packet, place, mark, j)
  <2> DEFINE c == packet[j].bytes
             w == packet[j].means
             i == j + 1
  <2>1. Holds(S, E, place, mark, j, c, w)
    BY <1>1, PacketLies
  <2>2. Upto(place, S, i) <= Len(S) /\ i \in 1 .. Len(place) + 1
    BY <2>1 DEF Holds
  <2> HIDE DEF i
  <2>3. PICK u, u2 \in Nat :
          /\ u = Upto(place, S, i) /\ u2 = Upto(place, S2, i)
          /\ u <= u2 /\ (u2 = u \/ u2 = Len(S2)) /\ (u = Len(S) \/ u = u2)
          /\ Harmless(S2, u, u2)
    BY <1>8, <2>2
  <2>4. u2 <= Len(S2)
    BY <1>3, <2>2, <2>3
  <2>5. Upto(mark, E2, i) = Upto(mark, E, i)
    BY <1>6
  <2> QED
    BY <1>1, <1>2, <2>3, <2>4, <2>5, StillLies DEF i
<1>10. Laid(S2, E2, packet, place, mark)
  BY <1>1, <1>2, <1>9 DEF Laid
<1>11. k \in 1 .. Len(place) + 1 /\ Upto(place, S, k) <= Len(S)
  BY <1>1 DEF Reads
<1>12. PICK u, u2 \in Nat :
         /\ u = Upto(place, S, k) /\ u2 = Upto(place, S2, k)
         /\ u <= u2 /\ (u2 = u \/ u2 = Len(S2)) /\ (u = Len(S) \/ u = u2)
         /\ Harmless(S2, u, u2)
  BY <1>8, <1>11
<1>13. u2 <= Len(S2)
  BY <1>3, <1>11, <1>12
<1>14. Reads(q, b, d, S2, E2, place, mark, x, k)
  BY <1>1, <1>2, <1>6, <1>11, <1>12, <1>13, StillReads
<1> QED
  BY <1>1, <1>2, <1>10, <1>14 DEF KeepsPlace

(* The client sends a packet. *)
LEMMA PacketKeeps ==
  ASSUME NEW q, NEW d \in Seq(MEANING), NEW E, KeepsPlace(q, << >>, d, E),
         NEW item \in ITEM, NEW b, b = item.bytes, b \in Seq(BYTE), Starts(b),
         NEW m, m = item.means, m \in Seq(MEANING), NEW E2, Extends(E2, E, m),
         E2 \in Seq(MEANING)
  PROVE  KeepsPlace(q, b, d, E2)
<1>1. PICK S \in Seq(BYTE), packet \in Seq(ITEM), place, mark \in Seq(Nat), x, k \in Nat :
        Laid(S, E, packet, place, mark) /\ Reads(q, << >>, d, S, E, place, mark, x, k)
  BY DEF KeepsPlace
<1> DEFINE S2 == S \o b
           packet2 == Append(packet, item)
           place2 == Append(place, Len(S))
           mark2 == Append(mark, Len(E))
           n == Len(packet)
<1>2. S2 \in Seq(BYTE) /\ Extends(S2, S, b)
  BY ConcatExtends
<1> HIDE DEF S2
<1>3. /\ Len(S) \in Nat /\ Len(b) \in Nat /\ Len(S2) = Len(S) + Len(b)
      /\ Len(S2) \in Nat /\ Len(S) <= Len(S2)
      /\ \A i \in 1 .. Len(b) : S2[Len(S) + i] = b[i]
  BY <1>2 DEF Extends
<1>4. /\ Len(E) \in Nat /\ Len(m) \in Nat /\ Len(E2) = Len(E) + Len(m)
      /\ Len(E2) \in Nat /\ \A i \in 1 .. Len(m) : E2[Len(E) + i] = m[i]
  BY DEF Extends
<1>5. Len(place) = n /\ Len(mark) = n /\ n \in Nat
  BY <1>1 DEF Laid
<1>6. /\ packet2 \in Seq(ITEM) /\ Len(packet2) = n + 1
      /\ \A i \in 1 .. n : packet2[i] = packet[i]
      /\ packet2[n + 1] = item
  BY AppendExtends
<1>7. /\ place2 \in Seq(Nat) /\ Len(place2) = n + 1
      /\ \A i \in 1 .. n : place2[i] = place[i]
      /\ place2[n + 1] = Len(S)
  BY <1>3, <1>5, AppendExtends
<1>8. /\ mark2 \in Seq(Nat) /\ Len(mark2) = n + 1
      /\ \A i \in 1 .. n : mark2[i] = mark[i]
      /\ mark2[n + 1] = Len(E)
  BY <1>4, <1>5, AppendExtends
<1> HIDE DEF packet2, place2, mark2, n
<1>9. ASSUME NEW j \in 1 .. n + 1
      PROVE  /\ Upto(place2, S2, j) = Upto(place, S, j) /\ Upto(place, S, j) \in Nat
             /\ Upto(mark2, E2, j) = Upto(mark, E, j)
  <2>1. CASE j = n + 1
    <3>1. j <= n + 1 /\ ~(j <= n)
      BY <1>5, <2>1
    <3> QED
      BY <1>3, <1>5, <1>7, <1>8, <2>1, <3>1 DEF Upto
  <2>2. CASE j # n + 1
    <3>1. j \in 1 .. n /\ j <= n + 1 /\ j <= n
      BY <1>5, <2>2
    <3>2. place[j] \in Nat
      BY <1>1, <1>5, <3>1
    <3> QED
      BY <1>5, <1>7, <1>8, <3>1, <3>2 DEF Upto
  <2> QED
    BY <2>1, <2>2
<1>10. \A u : u \in Nat => Harmless(S2, u, u)
  BY DEF Harmless
<1>11. ASSUME NEW j \in 1 .. n PROVE Lies(S2, E2, packet2, place2, mark2, j)
  <2> DEFINE c == packet[j].bytes
             w == packet[j].means
             i == j + 1
             u == Upto(place, S, i)
  <2>1. Holds(S, E, place, mark, j, c, w)
    BY <1>1, PacketLies DEF n
  <2>2. Upto(place, S, i) <= Len(S)
    BY <2>1 DEF Holds
  <2>3. i \in 1 .. n + 1
    BY <1>5
  <2> HIDE DEF i
  <2>4. Upto(place2, S2, i) = u /\ u \in Nat /\ Upto(mark2, E2, i) = Upto(mark, E, i)
    BY <1>9, <2>3
  <2>5. u <= u /\ u <= Len(S2) /\ Harmless(S2, u, u)
    BY <1>3, <1>10, <2>2, <2>4
  <2>6. packet2[j] = packet[j] /\ place2[j] = place[j] /\ mark2[j] = mark[j]
    BY <1>6, <1>7, <1>8
  <2> QED
    BY <1>1, <1>2, <2>4, <2>5, <2>6, StillLies DEF i, n
<1>12. Lies(S2, E2, packet2, place2, mark2, n + 1)
  <2> DEFINE i == n + 1
             o == i + 1
  <2>1. packet2[i].bytes = b /\ packet2[i].means = m
    BY <1>6
  <2>2. place2[i] = Len(S) /\ mark2[i] = Len(E)
    BY <1>7, <1>8
  <2>3. Upto(place2, S2, o) = Len(S2) /\ Upto(mark2, E2, o) = Len(E2)
    <3>1. ~(o <= n + 1)
      BY <1>5
    <3> HIDE DEF o
    <3> QED
      BY <1>7, <1>8, <3>1 DEF Upto
  <2>4. Harmless(S2, Len(S) + Len(b), Len(S2))
    BY <1>3, <1>10
  <2>5. Len(S) + Len(b) <= Len(S2) /\ Len(S2) <= Len(S2) /\ Len(E2) <= Len(E2)
    BY <1>3, <1>4
  <2> HIDE DEF i
  <2>6. Lies(S2, E2, packet2, place2, mark2, i)
    BY <1>3, <1>4, <2>1, <2>2, <2>3, <2>4, <2>5 DEF Lies
  <2> QED
    BY <2>6 DEF i
<1>13. Laid(S2, E2, packet2, place2, mark2)
  <2>1. ASSUME NEW j \in 1 .. n + 1 PROVE Lies(S2, E2, packet2, place2, mark2, j)
    <3>1. j \in 1 .. n \/ j = n + 1
      BY <1>5
    <3> QED
      BY <1>11, <1>12, <3>1
  <2> QED
    BY <1>2, <1>6, <1>7, <1>8, <2>1 DEF Laid
<1>14. k \in 1 .. n + 1 /\ Upto(place, S, k) <= Len(S) /\ k \in 1 .. Len(place2) + 1
  <2>1. k \in 1 .. Len(place) + 1 /\ Upto(place, S, k) <= Len(S)
    BY <1>1 DEF Reads
  <2> QED
    BY <1>5, <1>7, <2>1
<1> DEFINE u == Upto(place, S, k)
<1>15. Upto(place2, S2, k) = u /\ u \in Nat /\ Upto(mark2, E2, k) = Upto(mark, E, k)
  BY <1>9, <1>14
<1>16. u <= u /\ u <= Len(S2) /\ Harmless(S2, u, u)
  BY <1>3, <1>10, <1>14, <1>15
<1>17. Reads(q, b, d, S2, E2, place2, mark2, x, k)
  BY <1>1, <1>2, <1>14, <1>15, <1>16, StillReads
<1> QED
  BY <1>1, <1>2, <1>6, <1>7, <1>8, <1>13, <1>17 DEF KeepsPlace

(* The client sends its next item. *)
LEMMA SendKeeps ==
  ASSUME NEW q, NEW d \in Seq(MEANING), NEW E \in Seq(MEANING), KeepsPlace(q, << >>, d, E),
         NEW item \in ITEM
  PROVE  /\ item.bytes \in Seq(BYTE) /\ E \o item.means \in Seq(MEANING)
         /\ KeepsPlace(q, item.bytes, d, E \o item.means)
<1> DEFINE b == item.bytes
           m == item.means
           E2 == E \o m
<1>1. b \in Seq(BYTE) /\ Means(b, m)
  BY ItemAssumption
<1>2. b = item.bytes /\ m = item.means
  OBVIOUS
<1> HIDE DEF b, m
<1>3. /\ m \in Seq(MEANING)
      /\ (Harmless(b, 0, Len(b)) /\ m = << >>) \/ Starts(b)
  BY <1>1, NoiseOrPacket
<1>4. E2 \in Seq(MEANING) /\ Extends(E2, E, m)
  BY <1>3, ConcatExtends
<1> HIDE DEF E2
<1>5. CASE Harmless(b, 0, Len(b)) /\ m = << >>
  <2>1. Extends(E2, E, << >>)
    BY <1>4, <1>5
  <2>2. KeepsPlace(q, b, d, E2)
    BY <1>1, <1>4, <1>5, <2>1, NoiseKeeps
  <2> QED
    BY <1>1, <1>4, <2>2 DEF E2, b, m
<1>6. CASE Starts(b)
  <2>1. KeepsPlace(q, b, d, E2)
    BY <1>1, <1>2, <1>3, <1>4, <1>6, PacketKeeps
  <2> QED
    BY <1>1, <1>4, <2>1 DEF E2, b, m
<1> QED
  BY <1>3, <1>5, <1>6

(* The main loop stores a byte. *)
LEMMA ByteKeeps ==
  ASSUME NEW q \in Queues, NEW t \in Seq(BYTE), t # << >>, NEW d, NEW E,
         KeepsPlace(q, t, d, E), NumberToRead(q) + 1 # QUEUE_SIZE
  PROVE  /\ StoreBytes(q, <<Head(t)>>) \in Queues /\ Tail(t) \in Seq(BYTE)
         /\ KeepsPlace(StoreBytes(q, <<Head(t)>>), Tail(t), d, E)
<1> DEFINE h == Head(t)
           r == StoreBytes(q, <<h>>)
           z == Tail(t)
<1>1. PICK S \in Seq(BYTE), packet \in Seq(ITEM), place, mark \in Seq(Nat), x, k \in Nat :
        Laid(S, E, packet, place, mark) /\ Reads(q, t, d, S, E, place, mark, x, k)
  BY DEF KeepsPlace
<1>2. /\ h \in BYTE /\ h = t[1] /\ z \in Seq(BYTE) /\ Len(z) = Len(t) - 1
      /\ Len(t) \in Nat /\ Len(t) >= 1
      /\ \A i \in 1 .. Len(z) : z[i] = t[i + 1]
  BY HeadTailProperties
<1> HIDE DEF h, z
<1>3. /\ r \in Queues /\ NumberToRead(r) = NumberToRead(q) + 1
      /\ \A i \in 0 .. NumberToRead(q) - 1 : ReadAhead(r, i) = ReadAhead(q, i)
      /\ ReadAhead(r, NumberToRead(q)) = h
  BY <1>2, OneStored
<1> HIDE DEF r
<1> DEFINE l == Len(S)
           n == Len(t)
           o == Len(z)
<1>4. l \in Nat /\ n \in Nat /\ n >= 1 /\ o = n - 1
  BY <1>1, <1>2 DEF Laid
<1>5. PICK a, e \in Nat : Stands(q, t, S, packet, place, x, k, a, e)
  BY <1>1, ReadsIs
<1>6. /\ NumberToRead(q) = a - x /\ x <= a
      /\ \A i \in x + 1 .. a : ReadAhead(q, i - x - 1) = S[i]
  BY <1>5 DEF Stands, Shows
<1>16. a = l - n
  BY <1>5 DEF Stands
<1>17. \A i \in 1 .. n : t[i] = S[a + i]
  BY <1>1, <1>16 DEF Reads
<1> HIDE DEF l, n, o
<1>7. l - o = a + 1 /\ a + 1 \in Nat /\ a + 1 <= l
  BY <1>4, <1>6, <1>16
<1>8. S[a + 1] = h
  <2>1. 1 \in 1 .. n
    BY <1>4
  <2> QED
    BY <1>2, <1>17, <2>1
<1> DEFINE g == NumberToRead(q)
<1>9. g = a - x /\ g \in Nat
  BY <1>6
<1> HIDE DEF g
<1>10. ASSUME NEW i \in x + 1 .. a + 1 PROVE ReadAhead(r, i - x - 1) = S[i]
  <2> DEFINE j == i - x - 1
  <2>1. j \in 0 .. g /\ x + j + 1 = i /\ i \in Int
    BY <1>6, <1>9
  <2> HIDE DEF j
  <2>2. CASE j = g
    <3>1. i = a + 1
      BY <1>6, <1>9, <2>1, <2>2
    <3>2. ReadAhead(r, j) = h
      BY <1>3, <2>2 DEF g
    <3> QED
      BY <1>8, <3>1, <3>2 DEF j
  <2>3. CASE j # g
    <3>1. j \in 0 .. g - 1 /\ i \in x + 1 .. a
      BY <1>6, <1>9, <2>1, <2>3
    <3>2. ReadAhead(r, j) = ReadAhead(q, j)
      BY <1>3, <3>1 DEF g
    <3>3. ReadAhead(q, j) = S[i]
      BY <1>6, <3>1 DEF j
    <3> QED
      BY <3>2, <3>3 DEF j
  <2> QED
    BY <2>2, <2>3
<1>11. Shows(r, S, x, a + 1)
  <2>1. x + NumberToRead(r) = a + 1
    <3>1. NumberToRead(r) = g + 1
      BY <1>3 DEF g
    <3> QED
      BY <1>6, <1>9, <3>1
  <2>2. a + 1 <= Len(S)
    BY <1>7 DEF l
  <2> QED
    BY <1>3, <1>7, <1>10, <2>1, <2>2 DEF Shows
<1>12. Shows(r, S, x, Len(S) - Len(z))
  BY <1>7, <1>11 DEF l, o
<1>13. ASSUME NEW i \in 1 .. o PROVE z[i] = S[l - o + i]
  <2> DEFINE j == i + 1
  <2>1. j \in 1 .. n /\ a + j = l - o + i
    BY <1>4, <1>7
  <2>2. z[i] = t[j]
    BY <1>2 DEF o
  <2> HIDE DEF j
  <2>3. t[j] = S[a + j]
    BY <1>17, <2>1
  <2> QED
    BY <2>1, <2>2, <2>3
<1>14. Reads(r, z, d, S, E, place, mark, x, k)
  BY <1>1, <1>12, <1>13 DEF Reads, l, o
<1>15. KeepsPlace(r, z, d, E)
  BY <1>1, <1>14 DEF KeepsPlace
<1> QED
  BY <1>2, <1>3, <1>15 DEF r, h, z

(* Nothing has been sent. *)
LEMMA NothingKept ==
  ASSUME NEW q \in Queues, NumberToRead(q) = 0
  PROVE  KeepsPlace(q, << >>, << >>, << >>)
<1>1. Len(<< >>) = 0
  OBVIOUS
<1>2. Laid(<< >>, << >>, << >>, << >>, << >>)
  BY <1>1 DEF Laid
<1>3. Upto(<< >>, << >>, 1) = 0
  BY <1>1 DEF Upto
<1>4. Shows(q, << >>, 0, 0)
  BY <1>1 DEF Shows
<1>5. Harmless(<< >>, 0, 0)
  BY DEF Harmless
<1>6. Reads(q, << >>, << >>, << >>, << >>, << >>, << >>, 0, 1)
  BY <1>1, <1>3, <1>4, <1>5 DEF Reads
<1>7. /\ << >> \in Seq(BYTE) /\ << >> \in Seq(ITEM) /\ << >> \in Seq(Nat)
      /\ 0 \in Nat /\ 1 \in Nat
  OBVIOUS
<1> QED
  BY <1>2, <1>6, <1>7 DEF KeepsPlace

-----------------------------------------------------------------------------
(* The types, wherever the server is. *)

(* get_command_next_param_text leaves a ring. *)
LEMMA ParamStaysIn ==
  ASSUME NEW q \in Queues PROVE ParamText(q).queue \in Queues
<1> DEFINE ends == {i \in 0 .. MAX_COMMAND_NAME_LENGTH :
                      ReadAhead(q, i) \in {Space, Newline}}
           m == IF ends = {} THEN MAX_COMMAND_NAME_LENGTH ELSE Least(ends)
<1>1. m \in Nat
  <2>1. ends # {} => Least(ends) \in ends
    BY LeastIs
  <2> QED
    BY <2>1, NameLengthAssumption
<1>2. m + 1 \in Nat
  BY <1>1
<1>3. ParamText(q).queue = IncrementRead(q, m + 1) \/ ParamText(q).queue = IncrementRead(q, m)
  BY DEF ParamText
<1> HIDE DEF m
<1>4. IncrementRead(q, m + 1) \in Queues /\ IncrementRead(q, m) \in Queues
  BY <1>1, <1>2, ReadStaysIn
<1> QED
  BY <1>3, <1>4

(* So does get_all_command_params_text. *)
LEMMA AllParamsStayIn ==
  ASSUME NEW q \in Queues PROVE AfterAllParams(q) \in Queues
<1> DEFINE ends == {i \in 0 .. MAX_SHELL_LINE_LENGTH : ReadAhead(q, i) = Newline}
<1>1. ends # {} => Least(ends) \in Nat /\ Least(ends) + 1 \in Nat
  <2>1. ends # {} => Least(ends) \in ends
    BY LeastIs
  <2> HIDE DEF ends
  <2>2. ends # {} => Least(ends) \in Nat
    BY <2>1 DEF ends
  <2> QED
    BY <2>2
<1>2. AfterAllParams(q) = IF ends = {} THEN IncrementRead(q, MAX_SHELL_LINE_LENGTH)
                                       ELSE IncrementRead(q, Least(ends) + 1)
  BY DEF AfterAllParams
<1>3. MAX_SHELL_LINE_LENGTH \in Nat
  BY LengthAssumption
<1> HIDE DEF ends
<1> QED
  BY <1>1, <1>2, <1>3, ReadStaysIn

(* So does command_help. *)
LEMMA HelpStaysIn ==
  ASSUME NEW q \in Queues
  PROVE  CommandHelp(q).queue \in Queues /\ CommandHelp(q).complete \in BOOLEAN
<1>1. CASE PreviousByte(q) = Newline
  BY <1>1 DEF CommandHelp
<1>2. CASE PreviousByte(q) # Newline
  <2>1. CommandHelp(q) =
          [queue |-> ParamText(q).queue,
           complete |-> ~(ParamText(q).found /\ ParamText(q).text = PUTFILE)]
    BY <1>2 DEF CommandHelp
  <2>2. CommandHelp(q).queue = ParamText(q).queue /\ CommandHelp(q).complete \in BOOLEAN
    BY <2>1
  <2> QED
    BY <2>2, ParamStaysIn
<1> QED
  BY <1>1, <1>2

(* What command_help makes of a queue one before the ring.                  *)
LEMMA OutsideStaysBy ==
  ASSUME NEW q, InPlace(q), q.read \notin Index, NEW help \in HelpOutside(q)
  PROVE  InPlace(help.queue) /\ help.complete = TRUE
<1>1. PICK n \in 0 .. MAX_COMMAND_NAME_LENGTH + 1 :
        help.queue = IncrementRead(q, n) /\ help.complete = TRUE
  BY DEF HelpOutside
<1>2. q \notin Queues
  BY DEF Queues
<1>3. q \in [data : [Index -> BYTE], store : Index, read : {-1}] /\ q.read = -1
  BY <1>2 DEF InPlace, OneBefore
<1>4. n \in Nat /\ QUEUE_SIZE \in Nat /\ QUEUE_SIZE >= 2
  BY NameLengthAssumption, QueueSizeAssumption
<1>5. IncrementRead(q, n) = [q EXCEPT !.read = Advance(-1, n)]
  BY <1>3 DEF IncrementRead
<1>6. CASE n = 0
  <2>1. -1 + 0 = -1 /\ ~(-1 >= 0) /\ 0 - (-1) = 1 /\ 0 - 1 = -1
    OBVIOUS
  <2>2. 1 % QUEUE_SIZE = 1
    <3>1. 1 \in 0 .. 2 * QUEUE_SIZE - 1 /\ 1 < QUEUE_SIZE
      BY <1>4
    <3> QED
      BY <1>4, <3>1, BelowTwoTurns
  <2>3. Advance(-1, n) = -1
    BY <1>6, <2>1, <2>2 DEF Advance, Remainder
  <2>4. IncrementRead(q, n) = q
    BY <1>3, <1>5, <2>3
  <2> QED
    BY <1>1, <2>4
<1>7. CASE n # 0
  <2>1. -1 + n >= 0 /\ -1 + n \in Nat
    BY <1>4, <1>7
  <2>2. (-1 + n) % QUEUE_SIZE \in 0 .. QUEUE_SIZE - 1
    BY <1>4, <2>1
  <2>3. Advance(-1, n) \in Index
    BY <2>1, <2>2 DEF Advance, Remainder, Index
  <2>4. IncrementRead(q, n) \in Queues
    BY <1>3, <1>5, <2>3 DEF Queues
  <2> QED
    BY <1>1, <2>4 DEF InPlace
<1> QED
  BY <1>6, <1>7

(* A queue in place is of the types it may be of.                           *)
LEMMA InPlaceIs ==
  ASSUME NEW q, InPlace(q)
  PROVE  /\ q \in Queues \/ OneBefore(q)
         /\ NumberToRead(q) \in Nat
BY ShownToRead DEF InPlace

-----------------------------------------------------------------------------
(* The invariant. *)

(* At the start nothing has been sent. *)
LEMMA InitKeeps == Init => IInv
<1> SUFFICES ASSUME Init PROVE IInv
  OBVIOUS
<1>1. PICK i \in RING_START : in_queue = [InitQueue EXCEPT !.read = i, !.store = i]
  BY DEF Init
<1>2. i \in Index
  BY <1>1, LengthAssumption
<1>3. /\ in_queue \in Queues /\ in_queue.store = i /\ in_queue.read = i
  BY <1>1, <1>2, ByteAssumption, QueueSizeAssumption DEF InitQueue, Queues, Index
<1>4. NumberToRead(in_queue) = 0
  <2>1. i \in Int
    BY <1>2, QueueSizeAssumption DEF Index
  <2> QED
    BY <1>3, <2>1, ToRead
<1>5. KeepsPlace(in_queue, coming, served, expected)
  BY <1>3, <1>4, NothingKept DEF Init
<1>6. /\ coming \in Seq(BYTE) /\ served \in Seq(MEANING) /\ expected \in Seq(MEANING)
      /\ sent \in 0 .. MaxItems /\ help_waits \in BOOLEAN /\ strayed \in BOOLEAN
  <2>1. /\ coming = << >> /\ sent = 0 /\ expected = << >> /\ served = << >>
        /\ help_waits = FALSE /\ strayed = FALSE
    BY DEF Init
  <2>2. 0 \in 0 .. MaxItems
    BY LengthAssumption
  <2>3. << >> \in Seq(BYTE) /\ << >> \in Seq(MEANING)
    OBVIOUS
  <2> QED
    BY <2>1, <2>2, <2>3
<1>7. Shown(in_queue) = in_queue /\ InPlace(in_queue)
  BY <1>3, ShownInRing
<1> QED
  BY <1>3, <1>5, <1>6, <1>7 DEF IInv, TypeOK

(* Each step keeps it, and moves forward or strays. *)
LEMMA SendStep ==
  ASSUME IInv, NEW item \in ITEM, Send(item)
  PROVE  IInv' /\ (MovesForward \/ strayed')
<1>1. /\ in_queue' = in_queue /\ coming = << >> /\ coming' = item.bytes
      /\ expected' = expected \o item.means /\ served' = served
      /\ sent' = sent + 1 /\ sent < MaxItems
      /\ help_waits' = help_waits /\ strayed' = strayed /\ ~strayed
  BY DEF Send
<1>2. /\ InPlace(in_queue)
      /\ in_queue \in Queues \/ OneBefore(in_queue)
      /\ served \in Seq(MEANING) /\ expected \in Seq(MEANING)
      /\ KeepsPlace(Shown(in_queue), << >>, served, expected)
      /\ sent \in 0 .. MaxItems /\ help_waits \in BOOLEAN /\ strayed \in BOOLEAN
  BY <1>1 DEF IInv, TypeOK
<1>3. /\ item.bytes \in Seq(BYTE) /\ expected \o item.means \in Seq(MEANING)
      /\ KeepsPlace(Shown(in_queue), item.bytes, served, expected \o item.means)
  BY <1>2, SendKeeps
<1>4. sent' \in 0 .. MaxItems
  BY <1>1, <1>2, LengthAssumption
<1>5. /\ KeepsPlace(Shown(in_queue), coming, served, expected)' /\ InPlace(in_queue)'
      /\ (in_queue \in Queues \/ OneBefore(in_queue))'
  BY <1>1, <1>2, <1>3
<1>6. IInv'
  BY <1>1, <1>2, <1>3, <1>4, <1>5 DEF IInv, TypeOK
<1>7. MovesForward
  <2>1. NumberToRead(in_queue) \in Nat
    BY <1>2, InPlaceIs
  <2> QED
    BY <1>1, <2>1 DEF MovesForward
<1> QED
  BY <1>6, <1>7

(* A byte is stored behind a queue one before the ring as behind the ring   *)
(* it shows.                                                                *)
LEMMA StoredBefore ==
  ASSUME NEW q, OneBefore(q), q.data[QUEUE_SIZE - 1] = Minus,
         NumberToRead(q) + 1 # QUEUE_SIZE, NEW h \in BYTE,
         NEW r, r = StoreBytes(q, <<h>>)
  PROVE  /\ Shown(r) = StoreBytes(Shown(q), <<h>>)
         /\ OneBefore(r) /\ r.data[QUEUE_SIZE - 1] = Minus
<1> DEFINE s == Shown(q)
           z == StoreBytes(s, <<h>>)
<1>1. /\ q \in [data : [Index -> BYTE], store : Index, read : {-1}]
      /\ q.data[0] = Minus /\ q.data[1] = Minus
  BY DEF OneBefore
<1>2. /\ s \in Queues /\ s.read = QUEUE_SIZE - 1 /\ s.data = q.data /\ s.store = q.store
      /\ s = [q EXCEPT !.read = QUEUE_SIZE - 1]
      /\ QUEUE_SIZE \in Nat /\ q.read = -1
      /\ NumberToRead(s) = NumberToRead(q)
  BY <1>1, ShownCount
<1>3. NumberToRead(s) >= 3 /\ NumberToRead(s) \in 0 .. QUEUE_SIZE - 1
  BY <1>2, ToRead DEF OneBefore
<1>4. /\ z \in Queues /\ NumberToRead(z) = NumberToRead(s) + 1
      /\ \A i \in 0 .. NumberToRead(s) - 1 : ReadAhead(z, i) = ReadAhead(s, i)
  BY <1>2, OneStored
<1>5. /\ z.read = QUEUE_SIZE - 1 /\ r.read = -1 /\ r.data = z.data /\ r.store = z.store
      /\ r = [q EXCEPT !.data = z.data, !.store = z.store]
      /\ z = [s EXCEPT !.data = z.data, !.store = z.store]
  BY <1>1, <1>2 DEF StoreBytes, Queues
<1> HIDE DEF z
<1>6. r \in [data : [Index -> BYTE], store : Index, read : {-1}]
  BY <1>1, <1>4, <1>5 DEF Queues
<1>7. Shown(r) = z /\ NumberToRead(r) = NumberToRead(z)
  <2>1. Shown(r) = [r EXCEPT !.read = QUEUE_SIZE - 1] /\ NumberToRead(Shown(r)) = NumberToRead(r)
    BY <1>6, ShownCount
  <2>2. z = [r EXCEPT !.read = QUEUE_SIZE - 1]
    BY <1>4, <1>5, <1>6 DEF Queues
  <2> QED
    BY <2>1, <2>2
<1> HIDE DEF s
<1>8. \A u \in Queues : u.read = QUEUE_SIZE - 1 =>
        /\ ReadAhead(u, 0) = u.data[QUEUE_SIZE - 1]
        /\ ReadAhead(u, 1) = u.data[0] /\ ReadAhead(u, 2) = u.data[1]
  <2> SUFFICES ASSUME NEW u \in Queues, u.read = QUEUE_SIZE - 1
               PROVE  /\ ReadAhead(u, 0) = u.data[QUEUE_SIZE - 1]
                      /\ ReadAhead(u, 1) = u.data[0] /\ ReadAhead(u, 2) = u.data[1]
    OBVIOUS
  <2>1. /\ 0 \in 0 .. QUEUE_SIZE - 1 /\ 1 \in 0 .. QUEUE_SIZE - 1 /\ 2 \in 0 .. QUEUE_SIZE - 1
        /\ u.read + 0 < QUEUE_SIZE /\ u.read + 0 = QUEUE_SIZE - 1
        /\ ~(u.read + 1 < QUEUE_SIZE) /\ u.read + 1 - QUEUE_SIZE = 0
        /\ ~(u.read + 2 < QUEUE_SIZE) /\ u.read + 2 - QUEUE_SIZE = 1
    BY <1>2, <1>3
  <2> QED
    BY <2>1, AheadIs
<1>9. r.data[QUEUE_SIZE - 1] = Minus /\ r.data[0] = Minus /\ r.data[1] = Minus
  <2>1. 0 \in 0 .. NumberToRead(s) - 1 /\ 1 \in 0 .. NumberToRead(s) - 1
        /\ 2 \in 0 .. NumberToRead(s) - 1
    BY <1>3
  <2>2. /\ ReadAhead(z, 0) = ReadAhead(s, 0) /\ ReadAhead(z, 1) = ReadAhead(s, 1)
        /\ ReadAhead(z, 2) = ReadAhead(s, 2)
    BY <1>4, <2>1
  <2> QED
    BY <1>1, <1>2, <1>4, <1>5, <1>8, <2>2
<1>10. NumberToRead(r) >= 3
  BY <1>3, <1>4, <1>7
<1> QED
  BY <1>6, <1>7, <1>9, <1>10 DEF OneBefore, z, s

(* A byte that comes is behind those that wait. *)
LEMMA ReadByteStep ==
  ASSUME IInv, ReadByte
  PROVE  IInv' /\ (MovesForward \/ strayed')
<1> DEFINE b == <<Head(coming)>>
<1>1. /\ coming # << >> /\ NumberToRead(in_queue) + 1 # QUEUE_SIZE
      /\ in_queue' = StoreBytes(in_queue, b) /\ coming' = Tail(coming)
      /\ expected' = expected /\ served' = served /\ sent' = sent
      /\ help_waits' = help_waits /\ strayed' = strayed /\ ~strayed
  BY DEF ReadByte
<1>2. /\ InPlace(in_queue) /\ served \in Seq(MEANING) /\ expected \in Seq(MEANING)
      /\ coming \in Seq(BYTE) /\ KeepsPlace(Shown(in_queue), coming, served, expected)
      /\ sent \in 0 .. MaxItems /\ help_waits \in BOOLEAN /\ strayed \in BOOLEAN
  BY <1>1 DEF IInv, TypeOK
<1>3. Shown(in_queue) \in Queues /\ NumberToRead(Shown(in_queue)) + 1 # QUEUE_SIZE
  BY <1>1, <1>2, ShownToRead
<1>4. /\ StoreBytes(Shown(in_queue), b) \in Queues /\ Tail(coming) \in Seq(BYTE)
      /\ KeepsPlace(StoreBytes(Shown(in_queue), b), Tail(coming), served, expected)
  BY <1>1, <1>2, <1>3, ByteKeeps
<1>5. Shown(in_queue') = StoreBytes(Shown(in_queue), b) /\ InPlace(in_queue')
  <2>1. CASE in_queue \in Queues
    BY <1>1, <1>4, <2>1, ShownInRing
  <2>2. CASE OneBefore(in_queue) /\ in_queue.data[QUEUE_SIZE - 1] = Minus
    <3>1. Head(coming) \in BYTE
      BY <1>1, <1>2, HeadTailProperties
    <3> QED
      BY <1>1, <2>2, <3>1, StoredBefore DEF InPlace
  <2> QED
    BY <1>2, <2>1, <2>2 DEF InPlace
<1>6. KeepsPlace(Shown(in_queue), coming, served, expected)'
  BY <1>1, <1>4, <1>5
<1>7. in_queue' \in Queues \/ OneBefore(in_queue')
  BY <1>5, InPlaceIs
<1>8. IInv'
  BY <1>1, <1>2, <1>4, <1>5, <1>6, <1>7 DEF IInv, TypeOK
<1>9. coming' # coming
  <2>1. Len(Tail(coming)) = Len(coming) - 1 /\ Len(coming) \in Nat
    BY <1>1, <1>2, HeadTailProperties
  <2>2. Len(Tail(coming)) # Len(coming)
    BY <2>1
  <2> QED
    BY <1>1, <2>2
<1>10. MovesForward
  BY <1>9 DEF MovesForward
<1> QED
  BY <1>8, <1>10

(* Where the next "+++" is looked for, and found or not.                    *)
LEMMA LookIs ==
  ASSUME IInv, ~strayed, NEW q, q = SkipToNextPacket(Onward(in_queue))
  PROVE  /\ q \in Queues /\ KeepsPlace(q, coming, served, expected)
         /\ NumberToRead(q) <= NumberToRead(in_queue)
         /\ NumberToRead(q) \in Nat /\ NumberToRead(in_queue) \in Nat
         /\ served \in Seq(MEANING) /\ expected \in Seq(MEANING) /\ coming \in Seq(BYTE)
         /\ sent \in 0 .. MaxItems /\ help_waits \in BOOLEAN /\ strayed \in BOOLEAN
<1>1. /\ InPlace(in_queue) /\ served \in Seq(MEANING) /\ expected \in Seq(MEANING)
      /\ coming \in Seq(BYTE) /\ sent \in 0 .. MaxItems
      /\ help_waits \in BOOLEAN /\ strayed \in BOOLEAN
      /\ KeepsPlace(Shown(in_queue), coming, served, expected)
  BY DEF IInv, TypeOK
<1> DEFINE p == Onward(in_queue)
<1>2. /\ p \in Queues /\ NumberToRead(p) <= NumberToRead(in_queue)
      /\ KeepsPlace(p, coming, served, expected)
  BY <1>1, OnwardKeeps
<1> HIDE DEF p
<1>3. Behind(q, p)
  BY <1>2, SkipIsBehind DEF p
<1>4. q \in Queues /\ NumberToRead(q) <= NumberToRead(p)
  BY <1>3 DEF Behind
<1>5. KeepsPlace(q, coming, served, expected)
  BY <1>1, <1>2, SkipKeeps DEF p
<1>6. NumberToRead(q) \in Nat /\ NumberToRead(p) \in Nat /\ NumberToRead(in_queue) \in Nat
  <2>1. \A r \in Queues : NumberToRead(r) \in Nat
    BY ToRead
  <2> QED
    BY <1>1, <1>2, <1>4, <2>1, InPlaceIs
<1> QED
  BY <1>1, <1>2, <1>4, <1>5, <1>6

(* A step that goes on from where the next "+++" is looked for.             *)
LEMMA FollowsStep ==
  ASSUME IInv, ~strayed,
         NEW q, q = SkipToNextPacket(Onward(in_queue)), InPlace(in_queue'),
         Follows(q, Shown(in_queue'), coming, served, served', expected),
         UNCHANGED <<coming, sent, expected>>,
         help_waits' \in BOOLEAN, strayed' \in BOOLEAN
  PROVE  IInv' /\ (MovesForward \/ strayed')
<1>1. /\ NumberToRead(q) <= NumberToRead(in_queue)
      /\ NumberToRead(q) \in Nat /\ NumberToRead(in_queue) \in Nat
      /\ expected \in Seq(MEANING) /\ coming \in Seq(BYTE) /\ sent \in 0 .. MaxItems
  BY LookIs
<1>2. /\ NumberToRead(Shown(in_queue')) = NumberToRead(in_queue')
      /\ NumberToRead(in_queue') \in Nat
      /\ in_queue' \in Queues \/ OneBefore(in_queue')
  BY ShownToRead
<1>4. /\ served' \in Seq(MEANING)
      /\ KeepsPlace(Shown(in_queue'), coming, served', expected)
      /\ NumberToRead(in_queue') <= NumberToRead(q)
      /\ served' # served => NumberToRead(in_queue') < NumberToRead(q)
  BY <1>2 DEF Follows
<1>5. KeepsPlace(Shown(in_queue), coming, served, expected)'
  BY <1>4
<1>6. IInv'
  BY <1>1, <1>2, <1>4, <1>5 DEF IInv, TypeOK
<1>8. MovesForward
  BY <1>1, <1>2, <1>4 DEF MovesForward
<1> QED
  BY <1>6, <1>8

(* A step after which the server is not followed.                           *)
LEMMA StraysStep ==
  ASSUME IInv, InPlace(in_queue'), served' \in Seq(MEANING),
         UNCHANGED <<coming, sent, expected>>, help_waits' \in BOOLEAN, strayed' = TRUE
  PROVE  IInv' /\ (MovesForward \/ strayed')
<1>1. in_queue' \in Queues \/ OneBefore(in_queue')
  BY InPlaceIs
<1> QED
  BY <1>1 DEF IInv, TypeOK

(* A packet passed over, or left where it is. *)
LEMMA PassedOver ==
  ASSUME IInv, ~strayed, NEW q, q = SkipToNextPacket(Onward(in_queue)),
         NoPacket(q) \/ DiscardPacket(q) \/ IgnorePacket(q)
  PROVE  IInv' /\ (MovesForward \/ strayed')
<1>1. /\ served \in Seq(MEANING) /\ coming \in Seq(BYTE)
      /\ help_waits \in BOOLEAN /\ strayed \in BOOLEAN
      /\ q \in Queues /\ KeepsPlace(q, coming, served, expected)
  BY LookIs
<1>3. /\ UNCHANGED <<coming, sent, expected>> /\ served' = served
      /\ help_waits' \in BOOLEAN /\ strayed' \in BOOLEAN
  BY <1>1 DEF NoPacket, DiscardPacket, IgnorePacket
<1>4. CASE NoPacket(q) \/ IgnorePacket(q)
  <2>1. in_queue' = q
    BY <1>4 DEF NoPacket, IgnorePacket
  <2>2. NumberToRead(q) \in Nat
    BY <1>1, ToRead
  <2>3. Follows(q, in_queue', coming, served, served', expected)
    BY <1>1, <1>3, <2>1, <2>2 DEF Follows
  <2> QED
    BY <1>3, <2>3, FollowsInRing, FollowsStep
<1>5. CASE DiscardPacket(q)
  <2>1. /\ Arrived(q) /\ ~WellFormed(q)
        /\ in_queue' = IncrementRead(q, PacketSize(q) + 6)
    BY <1>5 DEF DiscardPacket
  <2>2. Follows(q, in_queue', coming, served, served', expected)
    BY <1>1, <1>3, <2>1, DiscardFollows
  <2> QED
    BY <1>3, <2>2, FollowsInRing, FollowsStep
<1> QED
  BY <1>4, <1>5

(* A text command. *)
LEMMA TextStep ==
  ASSUME IInv, ~strayed, NEW q, q = SkipToNextPacket(Onward(in_queue)), TextCommand(q)
  PROVE  IInv' /\ (MovesForward \/ strayed')
<1>1. /\ served \in Seq(MEANING) /\ coming \in Seq(BYTE)
      /\ help_waits \in BOOLEAN /\ strayed \in BOOLEAN
  BY LookIs
<1>2. q \in Queues /\ KeepsPlace(q, coming, served, expected)
  BY LookIs
<1> DEFINE command == CommandText(q)
           w == WordOf(command)
<1>3. Packet(q, Text)
  BY DEF TextCommand
<1>4. \/ BadCommand(command) \/ Ping(command) \/ Help(command)
      \/ ShellExec(command) \/ UnknownCommand(command)
  BY DEF TextCommand
<1>0. command = CommandText(q)
  OBVIOUS
<1> HIDE DEF command
<1>5. /\ command.complete => command.queue \in Queues
      /\ \A v \in PastTerminator(command.queue) :
           InPlace(v) /\ Follows(q, Shown(v), coming, served, Append(served, w), expected)
  BY <1>1, <1>2, <1>3, <1>0, PlainFollows
<1>6. HELP # PING /\ SHELLEXEC # PING /\ SHELLEXEC # HELP
  <2>1. HELP[1] = 72 /\ PING[1] = 80 /\ SHELLEXEC[1] = 83
    BY DEF HELP, PING, SHELLEXEC
  <2> QED
    BY <2>1
<1>7. CASE BadCommand(command) \/ Ping(command) \/ UnknownCommand(command)
  <2>1. /\ in_queue' \in PastTerminator(command.queue)
        /\ UNCHANGED <<coming, sent, expected>>
        /\ help_waits' \in BOOLEAN /\ strayed' \in BOOLEAN
    BY <1>1, <1>7 DEF BadCommand, Ping, UnknownCommand, Serve
  <2>2. served' = Append(served, w)
    BY <1>7 DEF BadCommand, Ping, UnknownCommand, Serve, WordOf, MeaningOf
  <2>3. InPlace(in_queue') /\ Follows(q, Shown(in_queue'), coming, served, served', expected)
    BY <1>5, <2>1, <2>2
  <2> QED
    BY <2>1, <2>3, FollowsStep
<1>8. CASE Help(command)
  <2> DEFINE help == CommandHelp(command.queue)
  <2>0. PastTerminator(help.queue) = {SkipTerminator(help.queue)}
    <3>1. command.queue \in Queues
      BY <1>5, <1>8 DEF Help
    <3>2. help.queue \in Queues
      BY <3>1, HelpStaysIn
    <3> QED
      BY <3>2, ShownInRing
  <2>1. /\ command.complete /\ command.name = HELP
        /\ in_queue' = SkipTerminator(help.queue) /\ served' = Append(served, "help")
        /\ UNCHANGED <<coming, sent, expected>>
        /\ help_waits' = (help_waits \/ ~help.complete) /\ strayed' = strayed
    BY <1>8, <2>0 DEF Help, Serve
  <2>2. w = "help"
    BY <1>6, <2>1 DEF WordOf, MeaningOf
  <2>3. Follows(q, SkipTerminator(help.queue), coming, served, Append(served, w), expected)
    BY <1>1, <1>2, <1>3, <1>0, <2>1, HelpFollows
  <2>4. Follows(q, in_queue', coming, served, served', expected)
    BY <2>1, <2>2, <2>3
  <2>5. help_waits' \in BOOLEAN /\ strayed' \in BOOLEAN
    BY <1>1, <2>1
  <2> QED
    BY <2>1, <2>4, <2>5, FollowsInRing, FollowsStep
<1>9. CASE ShellExec(command)
  <2> DEFINE after == AfterAllParams(command.queue)
  <2>0. /\ after \in Queues /\ PastTerminator(after) = {SkipTerminator(after)}
        /\ command.queue \in Queues
    <3>1. command.queue \in Queues
      BY <1>5, <1>9 DEF ShellExec
    <3> QED
      BY <3>1, AllParamsStayIn, ShownInRing
  <2>1. /\ command.complete /\ command.name = SHELLEXEC
        /\ in_queue' = SkipTerminator(after) /\ served' = Append(served, "shellexec")
        /\ UNCHANGED <<coming, sent, expected>>
        /\ strayed' = (PreviousByte(command.queue) = Newline) /\ help_waits' = help_waits
    BY <1>9, <2>0 DEF ShellExec, Serve
  <2>2. w = "shellexec"
    BY <1>6, <2>1 DEF WordOf, MeaningOf
  <2>3. CASE PreviousByte(command.queue) = Newline
    <3>1. strayed' = TRUE
      BY <2>1, <2>3
    <3>2. after \in Queues
      BY <2>0
    <3>3. InPlace(in_queue')
      BY <2>1, <3>2, TerminatorIsBehind DEF Behind, InPlace
    <3>4. Append(served, "shellexec") \in Seq(MEANING)
      <4>1. "shellexec" \in MEANING
        BY DEF MEANING
      <4> QED
        BY <1>1, <4>1
    <3> QED
      BY <1>1, <2>1, <3>1, <3>3, <3>4, StraysStep
  <2>4. CASE PreviousByte(command.queue) # Newline
    <3>1. Follows(q, SkipTerminator(after), coming, served, Append(served, w), expected)
      BY <1>1, <1>2, <1>3, <1>0, <2>1, <2>4, ShellFollows
    <3>2. Follows(q, in_queue', coming, served, served', expected)
      BY <2>1, <2>2, <3>1
    <3>3. strayed' \in BOOLEAN /\ help_waits' \in BOOLEAN
      BY <1>1, <2>1
    <3> QED
      BY <2>1, <3>2, <3>3, FollowsInRing, FollowsStep
  <2> QED
    BY <2>3, <2>4
<1> QED
  BY <1>4, <1>7, <1>8, <1>9

(* A binary command. *)
LEMMA BinaryStep ==
  ASSUME IInv, ~strayed, NEW q, q = SkipToNextPacket(Onward(in_queue)), BinaryCommandPacket(q)
  PROVE  IInv' /\ (MovesForward \/ strayed')
<1>1. /\ served \in Seq(MEANING) /\ coming \in Seq(BYTE)
      /\ help_waits \in BOOLEAN /\ strayed \in BOOLEAN
  BY LookIs
<1>2. q \in Queues /\ KeepsPlace(q, coming, served, expected)
  BY LookIs
<1> DEFINE id == ReadAhead(q, 6)
           after == IncrementRead(q, 7)
<1>3. Packet(q, BinaryCommand)
  BY DEF BinaryCommandPacket
<1>4. BinaryPing(id, after) \/ StoreRefused(id, after) \/ InsertRefused(id, after)
  BY DEF BinaryCommandPacket
<1>5. CASE BinaryPing(id, after)
  <2>0. PastTerminator(after) = {SkipTerminator(after)}
    <3>1. after \in Queues
      BY <1>2, ReadStaysIn
    <3> QED
      BY <3>1, ShownInRing
  <2>1. /\ id = PingID /\ in_queue' = SkipTerminator(after)
        /\ served' = Append(served, "ping") /\ UNCHANGED <<coming, sent, expected>>
        /\ help_waits' \in BOOLEAN /\ strayed' \in BOOLEAN
    BY <1>1, <1>5, <2>0 DEF BinaryPing, Serve
  <2>2. Follows(q, in_queue', coming, served, served', expected)
    BY <1>1, <1>2, <1>3, <2>1, PingFollows
  <2> QED
    BY <2>1, <2>2, FollowsInRing, FollowsStep
<1>6. ASSUME NEW i, NEW w, NEW l,
             \/ i = StoreAllocID /\ w = "salloc" /\ l = 13
             \/ i = InsertAllocID /\ w = "ialloc" /\ l = 19,
             id = i, Refused(w, IncrementRead(after, l - 10))
      PROVE  IInv' /\ (MovesForward \/ strayed')
  <2> DEFINE params == IncrementRead(after, l - 10)
             data == SkipTerminator(params)
             next == SkipToNextPacket(IncrementRead(data, 1))
             r == SkipTerminator(next)
  <2>0. /\ next \in Queues /\ r \in Queues /\ PastTerminator(next) = {r}
    <3>1. after \in Queues
      BY <1>2, ReadStaysIn
    <3>2. l - 10 \in Nat
      BY <1>6
    <3>3. params \in Queues
      BY <3>1, <3>2, ReadStaysIn
    <3>4. data \in Queues
      BY <3>3, TerminatorIsBehind DEF Behind
    <3>5. IncrementRead(data, 1) \in Queues
      BY <3>4, ReadStaysIn
    <3>6. next \in Queues
      BY <3>5, SkipIsBehind DEF Behind
    <3> QED
      BY <3>6, TerminatorIsBehind, ShownInRing DEF Behind
  <2>1. /\ in_queue' = r /\ served' = Append(served, w)
        /\ UNCHANGED <<coming, sent, expected>>
        /\ strayed' = (NumberToRead(data) = 0) /\ help_waits' = help_waits
    BY <1>6, <2>0 DEF Refused, Serve
  <2>2. data = SkipTerminator(IncrementRead(IncrementRead(q, 7), l - 10))
    OBVIOUS
  <2>3. CASE NumberToRead(data) = 0
    <3>6. InPlace(in_queue')
      BY <2>0, <2>1 DEF InPlace
    <3>7. w \in MEANING
      BY <1>6 DEF MEANING
    <3>8. Append(served, w) \in Seq(MEANING)
      BY <1>1, <3>7
    <3> QED
      BY <1>1, <2>1, <2>3, <3>6, <3>8, StraysStep
  <2>4. CASE NumberToRead(data) # 0
    <3> HIDE DEF data
    <3>1. Follows(q, r, coming, served, Append(served, w), expected)
      BY <1>1, <1>2, <1>3, <1>6, <2>2, <2>4, RefusedFollows
    <3>2. Follows(q, in_queue', coming, served, served', expected)
      BY <2>1, <3>1
    <3>3. strayed' \in BOOLEAN /\ help_waits' \in BOOLEAN
      BY <1>1, <2>1
    <3> QED
      BY <2>1, <3>2, <3>3, FollowsInRing, FollowsStep
  <2> QED
    BY <2>3, <2>4
<1>7. CASE StoreRefused(id, after)
  <2>1. id = StoreAllocID /\ Refused("salloc", IncrementRead(after, 3)) /\ 13 - 10 = 3
    BY <1>7 DEF StoreRefused
  <2> HIDE DEF id, after
  <2> QED
    BY <1>6, <2>1
<1>8. CASE InsertRefused(id, after)
  <2>1. id = InsertAllocID /\ Refused("ialloc", IncrementRead(after, 9)) /\ 19 - 10 = 9
    BY <1>8 DEF InsertRefused
  <2> HIDE DEF id, after
  <2> QED
    BY <1>6, <2>1
<1> QED
  BY <1>4, <1>5, <1>7, <1>8

(* A HELP taken up again. *)
LEMMA TickStep ==
  ASSUME IInv, TickHelp
  PROVE  IInv' /\ (MovesForward \/ strayed')
<1>1. InPlace(in_queue) /\ served \in Seq(MEANING)
  BY DEF IInv
<1>2. PICK help \in IF in_queue.read \in Index THEN {CommandHelp(in_queue)}
                                             ELSE HelpOutside(in_queue) :
        in_queue' = help.queue /\ help_waits' = ~help.complete
  BY DEF TickHelp
<1>3. strayed' = TRUE /\ UNCHANGED <<coming, sent, expected, served>>
  BY DEF TickHelp
<1>4. CASE in_queue.read \in Index
  <2>1. help = CommandHelp(in_queue)
    BY <1>2, <1>4
  <2>2. in_queue \in Queues
    <3>1. ASSUME OneBefore(in_queue) PROVE FALSE
      BY <1>4, <3>1, ShownBefore
    <3> QED
      BY <1>1, <3>1 DEF InPlace
  <2>3. InPlace(in_queue') /\ help_waits' \in BOOLEAN
    BY <1>2, <2>1, <2>2, HelpStaysIn DEF InPlace
  <2> QED
    BY <1>1, <1>3, <2>3, StraysStep
<1>5. CASE in_queue.read \notin Index
  <2>1. help \in HelpOutside(in_queue)
    BY <1>2, <1>5
  <2>2. InPlace(in_queue') /\ help_waits' \in BOOLEAN
    BY <1>1, <1>2, <1>5, <2>1, OutsideStaysBy
  <2> QED
    BY <1>1, <1>3, <2>2, StraysStep
<1> QED
  BY <1>4, <1>5

(* Any step. *)
LEMMA StepKeeps ==
  ASSUME IInv, [Next]_vars
  PROVE  IInv' /\ (MovesForward \/ strayed')
<1>1. CASE \E item \in ITEM : Send(item)
  BY <1>1, SendStep
<1>2. CASE ReadByte
  BY <1>2, ReadByteStep
<1>3. CASE CheckPacket
  <2> DEFINE q == SkipToNextPacket(Onward(in_queue))
  <2>1. /\ ~strayed
        /\ \/ NoPacket(q) \/ DiscardPacket(q) \/ IgnorePacket(q)
           \/ TextCommand(q) \/ BinaryCommandPacket(q)
    BY <1>3 DEF CheckPacket
  <2>2. q = SkipToNextPacket(Onward(in_queue))
    OBVIOUS
  <2> HIDE DEF q
  <2> QED
    BY <2>1, <2>2, PassedOver, TextStep, BinaryStep
<1>4. CASE TickHelp
  BY <1>4, TickStep
<1>5. CASE UNCHANGED vars
  <2>1. IInv'
    <3>1. /\ KeepsPlace(Shown(in_queue), coming, served, expected)'
               <=> KeepsPlace(Shown(in_queue), coming, served, expected)
          /\ InPlace(in_queue)' <=> InPlace(in_queue)
          /\ OneBefore(in_queue)' <=> OneBefore(in_queue)
      BY <1>5 DEF vars
    <3> QED
      BY <1>5, <3>1 DEF IInv, TypeOK, vars
  <2>2. NumberToRead(in_queue) \in Nat
    BY InPlaceIs DEF IInv
  <2>3. MovesForward
    BY <1>5, <2>2 DEF MovesForward, vars
  <2> QED
    BY <2>1, <2>3
<1> QED
  BY <1>1, <1>2, <1>3, <1>4, <1>5 DEF Next

(* The commands taken up are the first of those sent.                       *)
LEMMA ServedIsPrefix ==
  ASSUME NEW q, NEW t, NEW d \in Seq(MEANING), NEW E \in Seq(MEANING), KeepsPlace(q, t, d, E)
  PROVE  IsPrefix(d, E)
<1> DEFINE n == Len(d)
           l == Len(E)
           s == SubSeq(d, 1, n)
           r == SubSeq(E, 1, n)
<1>1. n <= l /\ \A i \in 1 .. n : d[i] = E[i]
  BY DEF KeepsPlace, Reads
<1>2. n \in Nat /\ l \in Nat
  OBVIOUS
<1>3. /\ 1 \in 1 .. n + 1 /\ n \in 1 - 1 .. n /\ 1 \in 1 .. l + 1 /\ n \in 1 - 1 .. l
      /\ (IF 1 <= n THEN n - 1 + 1 ELSE 0) = n /\ n - 1 + 1 = n
      /\ \A i \in 1 .. n : 1 + i - 1 = i
  BY <1>1, <1>2
<1>4. s \in Seq(MEANING) /\ Len(s) = n /\ \A i \in 1 .. n : s[i] = d[i]
  <2>1. /\ s \in Seq(MEANING) /\ Len(s) = (IF 1 <= n THEN n - 1 + 1 ELSE 0)
        /\ \A i \in 1 .. n - 1 + 1 : s[i] = d[1 + i - 1]
    BY <1>3, SubSeqProperties
  <2> QED
    BY <1>3, <2>1
<1>5. r \in Seq(MEANING) /\ Len(r) = n /\ \A i \in 1 .. n : r[i] = E[i]
  <2>1. /\ r \in Seq(MEANING) /\ Len(r) = (IF 1 <= n THEN n - 1 + 1 ELSE 0)
        /\ \A i \in 1 .. n - 1 + 1 : r[i] = E[1 + i - 1]
    BY <1>3, SubSeqProperties
  <2> QED
    BY <1>3, <2>1
<1> HIDE DEF s, r
<1>6. s = r
  <2>1. \A i \in 1 .. Len(s) : s[i] = r[i]
    BY <1>1, <1>4, <1>5
  <2> QED
    BY <1>4, <1>5, <2>1, SeqEqual
<1> QED
  BY <1>1, <1>6 DEF IsPrefix, s, r

-----------------------------------------------------------------------------
(* The theorems. *)

(* The ring and its indices are proper in every state, and so is the rest,  *)
(* but for the way back of get_command_text: it may leave the read index at *)
(* -1, before the last two bytes of a terminator.                           *)
THEOREM TypeCorrect == Spec => []TypeOK
<1>1. IInv /\ [Next]_vars => IInv'
  BY StepKeeps
<1>2. IInv => TypeOK
  BY DEF IInv
<1> QED
  BY <1>1, <1>2, InitKeeps, PTL DEF Spec

(* Noise between packets, malformed packets and parameters nobody reads are *)
(* passed over: the server takes up the commands that were sent, each once  *)
(* and in order, unless it has strayed.                                     *)
THEOREM WhatWasSentIsServed == Spec => []ServesWhatWasSent
<1>1. IInv /\ [Next]_vars => IInv'
  BY StepKeeps
<1>2. IInv => ServesWhatWasSent
  BY ServedIsPrefix DEF IInv, ServesWhatWasSent
<1> QED
  BY <1>1, <1>2, InitKeeps, PTL DEF Spec

(* It reads no byte that has not come, and moves forward over a command it  *)
(* takes up, but where it is known to stray.                                *)
THEOREM StraysNowhereElse == Spec => StraysOnlyWhereKnown
<1>1. IInv /\ [Next]_vars => IInv'
  BY StepKeeps
<1>2. IInv /\ [Next]_vars => [MovesForward \/ strayed']_vars
  BY StepKeeps
<1> QED
  BY <1>1, <1>2, InitKeeps, PTL DEF Spec, StraysOnlyWhereKnown

=============================================================================
