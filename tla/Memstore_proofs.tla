-------------------------- MODULE Memstore_proofs ---------------------------
(***************************************************************************)
(* Proofs about the memory store, for every number of slots, size of page  *)
(* and of allocation, contents, files and streams: the types, that a       *)
(* command that is refused leaves the contents alone, that FALLOC alone    *)
(* loses streams, and that a command that is answered without an error has *)
(* done to the bytes what PageStore says.  And about alloctest on that     *)
(* store: its types, and what a run of it saves and leaves.                *)
(***************************************************************************)
EXTENDS AllocTest, FiniteSetTheorems, SequenceTheorems, TLAPS

(* A set of natural numbers that is not empty has a least one: the least of *)
(* the intervals 0 .. k, ordered by inclusion, is that of the least k.      *)
LEMMA LeastNumber ==
  ASSUME NEW T, T \subseteq Nat, T # {}
  PROVE  \E x \in T : \A y \in T : x <= y
<1>1. PICK n \in T : TRUE
  OBVIOUS
<1> DEFINE S == {0 .. k : k \in {j \in T : j <= n}}
<1>2. IsWellFoundedOn(StrictSubsetOrdering(0 .. n), SUBSET (0 .. n))
  <2>1. IsFiniteSet(0 .. n)
    BY FS_Interval
  <2>2. FiniteSubsetsOf(0 .. n) = SUBSET (0 .. n)
    BY <2>1, FS_FiniteSubsetsOfFinite, Zenon
  <2>3. QED
    BY <2>2, FS_StrictSubsetOrderingWellFounded, Zenon
<1>3. S \subseteq SUBSET (0 .. n) /\ S # {}
  BY <1>1
<1>4. PICK s \in S : \A r \in S : <<r, s>> \notin StrictSubsetOrdering(0 .. n)
  BY <1>2, <1>3, WFMin, Zenon
<1>5. PICK x \in T : x <= n /\ s = 0 .. x
  BY <1>4
<1>6. ASSUME NEW y \in T, ~(x <= y)
      PROVE  FALSE
  <2>1. x \in 0 .. x /\ x \notin 0 .. y
    BY <1>5, <1>6
  <2>2. /\ 0 .. y \in S
        /\ 0 .. y \subseteq 0 .. x /\ 0 .. y # 0 .. x
        /\ 0 .. y \subseteq 0 .. n /\ 0 .. x \subseteq 0 .. n
    BY <2>1, <1>5, <1>6
  <2>3. <<0 .. y, s>> \in StrictSubsetOrdering(0 .. n)
    BY <2>2, <1>5 DEF StrictSubsetOrdering
  <2>4. QED
    BY <2>2, <2>3, <1>4
<1>7. QED
  BY <1>6

(* What calloc can have given out: n bytes, none for a slot that is free.   *)
Blocks == UNION {[0 .. n - 1 -> BYTE] : n \in Nat}

Records ==
  [allocation_id : Slot, number_pages : Nat, page_size : Nat, file_id : BOOLEAN,
   data : Blocks]

(* A slot is free, or has as many bytes as its pages have together. *)
SlotOK(a, i) ==
  /\ a \in Records
  /\ a.allocation_id \in {0, i}
  /\ a.allocation_id = 0 => a = FreeSlot
  /\ a.allocation_id # 0 =>
       /\ a.number_pages \in 1 .. MAX_PAGES
       /\ a.page_size \in {kb * KB : kb \in 1 .. MAX_PAGE_KB}
       /\ a.data \in [0 .. a.number_pages * a.page_size - 1 -> BYTE]

(* No stream is closed twice: those of the slots are open. *)
IInv ==
  /\ memstore \in [Slot -> Records]
  /\ \A i \in Slot : SlotOK(memstore[i], i)
  /\ files \in [FILE -> {Missing} \cup Seq(BYTE)]
  /\ open \in 0 .. MAX_OPEN /\ Cardinality(Loaded) <= open
  /\ answer.id \in Slot /\ answer.error \in 0 .. 3

(* The invariant has the types in it. *)
LEMMA InvariantHasTypes == IInv => TypeOK
BY DEF IInv, TypeOK, SlotOK

-----------------------------------------------------------------------------
(* Sizes and contents. *)

(* The numbers of slots and bytes. *)
LEMMA Numbers ==
  /\ MAX_MEMORY_ALLOCATIONS \in Nat /\ MAX_MEMORY_ALLOCATIONS > 0
  /\ KB \in Nat /\ KB > 0 /\ MAX_OPEN \in Nat /\ 0 \in BYTE
  /\ MAX_PAGES \in Nat /\ MAX_PAGE_KB \in Nat
  /\ 0 \in Slot /\ Slot \subseteq Nat /\ AllocId \subseteq Slot
BY MemstoreAssumption DEF Slot, AllocId

(* An allocation of p pages of z bytes. *)
LEMMA PagesTimesSize ==
  ASSUME NEW p \in Nat, NEW z \in Nat
  PROVE  /\ p * z \in Nat /\ p * z = z * p
         /\ p > 0 /\ z > 0 => p * z > 0
         /\ \A k \in 0 .. p - 1 :
              k * z \in Nat /\ k * z + z <= p * z /\ (k + 1) * z = k * z + z
<1>1. p * z \in Nat /\ p * z = z * p
  OBVIOUS
<1>2. p > 0 /\ z > 0 => p * z > 0
  OBVIOUS
<1>3. ASSUME NEW k \in 0 .. p - 1
      PROVE  k * z \in Nat /\ k * z + z <= p * z /\ (k + 1) * z = k * z + z
  <2>1. k * z \in Nat /\ (k + 1) * z = k * z + z
    OBVIOUS
  <2>2. p - (k + 1) \in Nat
    OBVIOUS
  <2>3. (p - (k + 1)) * z \in Nat
    BY <2>2
  <2>4. p * z = (k + 1) * z + (p - (k + 1)) * z
    OBVIOUS
  <2> QED
    BY <1>1, <2>1, <2>3, <2>4
<1> QED
  BY <1>1, <1>2, <1>3

(* What is known of an allocation. *)
LEMMA KnownFacts ==
  ASSUME IInv, NEW id, Known(id)
  PROVE  /\ id \in AllocId /\ id \in Slot /\ id # 0
         /\ memstore[id] \in Records /\ memstore[id].allocation_id = id
         /\ memstore[id].number_pages \in Nat /\ memstore[id].number_pages > 0
         /\ memstore[id].number_pages <= MAX_PAGES
         /\ PageSize(id) = memstore[id].page_size
         /\ PageSize(id) \in Nat /\ PageSize(id) > 0
         /\ AllocSize(id) = memstore[id].number_pages * PageSize(id)
         /\ AllocSize(id) \in Nat /\ AllocSize(id) > 0
         /\ memstore[id].data \in [0 .. AllocSize(id) - 1 -> BYTE]
         /\ memstore[id].file_id \in BOOLEAN
<1> DEFINE a == memstore[id]
<1>1. id \in AllocId /\ id \in Slot /\ id # 0 /\ a.allocation_id = id
  BY Numbers DEF Known, AllocId
<1>2. SlotOK(a, id)
  BY <1>1 DEF IInv
<1>3. /\ a \in Records /\ a.number_pages \in 1 .. MAX_PAGES
      /\ a.page_size \in {kb * KB : kb \in 1 .. MAX_PAGE_KB}
      /\ a.data \in [0 .. a.number_pages * a.page_size - 1 -> BYTE]
  BY <1>1, <1>2 DEF SlotOK
<1>4. PICK kb \in 1 .. MAX_PAGE_KB : a.page_size = kb * KB
  BY <1>3
<1>5. a.page_size \in Nat /\ a.page_size > 0
  BY <1>4, Numbers, PagesTimesSize
<1>6. a.number_pages \in Nat /\ a.number_pages > 0 /\ a.number_pages <= MAX_PAGES
  BY <1>3, Numbers
<1>7. PageSize(id) = a.page_size /\ AllocSize(id) = a.page_size * a.number_pages
  BY DEF PageSize, AllocSize
<1>8. /\ a.number_pages * a.page_size \in Nat /\ a.number_pages * a.page_size > 0
      /\ a.number_pages * a.page_size = a.page_size * a.number_pages
  BY <1>5, <1>6, PagesTimesSize
<1>9. AllocSize(id) = a.number_pages * PageSize(id)
  BY <1>7, <1>8
<1>10. a.file_id \in BOOLEAN
  BY <1>3 DEF Records
<1> QED
  BY <1>1, <1>3, <1>5, <1>6, <1>7, <1>8, <1>9, <1>10

(* What the client sees of an allocation. *)
LEMMA ContentsFacts ==
  ASSUME IInv
  PROVE  /\ DOMAIN Contents = {i \in AllocId : Known(i)}
         /\ \A id \in DOMAIN Contents :
              /\ Known(id)
              /\ Contents[id] \in Seq(BYTE) /\ Len(Contents[id]) = AllocSize(id)
              /\ \A k \in 1 .. AllocSize(id) : Contents[id][k] = memstore[id].data[k - 1]
<1>1. DOMAIN Contents = {i \in AllocId : Known(i)}
  BY DEF Contents
<1>2. ASSUME NEW id \in DOMAIN Contents
      PROVE  /\ Known(id)
             /\ Contents[id] \in Seq(BYTE) /\ Len(Contents[id]) = AllocSize(id)
             /\ \A k \in 1 .. AllocSize(id) : Contents[id][k] = memstore[id].data[k - 1]
  <2>1. Known(id)
    BY <1>1, <1>2
  <2>2. Contents[id] = [k \in 1 .. AllocSize(id) |-> memstore[id].data[0 + k - 1]]
    BY <1>1, <1>2 DEF Contents, Bytes
  <2> DEFINE n == AllocSize(id)
             d == memstore[id].data
             c == Contents[id]
  <2>3. n \in Nat /\ d \in [0 .. n - 1 -> BYTE]
    BY <2>1, KnownFacts
  <2> HIDE DEF n, d, c
  <2>4. c = [k \in 1 .. n |-> d[0 + k - 1]]
    BY <2>2 DEF n, d, c
  <2>5. \A k \in 1 .. n : 0 + k - 1 = k - 1 /\ k - 1 \in 0 .. n - 1
    BY <2>3
  <2>6. c \in Seq(BYTE) /\ Len(c) = n /\ \A k \in 1 .. n : c[k] = d[k - 1]
    BY <2>3, <2>4, <2>5
  <2> QED
    BY <2>1, <2>6 DEF n, d, c
<1> QED
  BY <1>1, <1>2

-----------------------------------------------------------------------------
(* What the commands do to the slots. *)

(* The slots that have a stream. *)
LEMMA LoadedIsFinite ==
  /\ IsFiniteSet(Loaded) /\ Cardinality(Loaded) \in Nat
  /\ Loaded \subseteq Slot
<1>1. IsFiniteSet(Slot)
  BY Numbers, FS_Interval DEF Slot
<1>2. Loaded \subseteq Slot
  BY DEF Loaded
<1> QED
  BY <1>1, <1>2, FS_Subset, FS_CardinalityType

(* Slot id becomes a. *)
Becomes(id, a) == memstore' = [memstore EXCEPT ![id] = a]

(* One slot is changed: the slots stay in order, and the streams of slots   *)
(* are one more or less as the slot gets or loses one.                      *)
LEMMA SlotBecomes ==
  ASSUME IInv, NEW id \in Slot, NEW a, SlotOK(a, id), Becomes(id, a)
  PROVE  /\ memstore' \in [Slot -> Records]
         /\ \A i \in Slot : SlotOK(memstore'[i], i)
         /\ memstore'[id] = a /\ \A i \in Slot : i # id => memstore'[i] = memstore[i]
         /\ Cardinality(Loaded') \in Nat
         /\ Cardinality(Loaded') =
              Cardinality(Loaded) - Held(id) + (IF a.file_id THEN 1 ELSE 0)
<1>1. memstore \in [Slot -> Records] /\ a \in Records
  BY DEF IInv, SlotOK
<1>2. /\ memstore'[id] = a /\ \A i \in Slot : i # id => memstore'[i] = memstore[i]
      /\ memstore' \in [Slot -> Records]
  BY <1>1 DEF Becomes
<1>3. \A i \in Slot : SlotOK(memstore'[i], i)
  BY <1>2 DEF IInv
<1>4. a.file_id \in BOOLEAN /\ memstore[id].file_id \in BOOLEAN
  BY <1>1 DEF Records
<1>5. Held(id) = IF id \in Loaded THEN 1 ELSE 0
  BY DEF Held, Loaded
<1>6. IsFiniteSet(Loaded) /\ Cardinality(Loaded) \in Nat
  BY LoadedIsFinite
<1>7. CASE a.file_id
  <2>1. Loaded' = Loaded \cup {id}
    BY <1>2, <1>7 DEF Loaded
  <2>2. Cardinality(Loaded \cup {id}) =
          IF id \in Loaded THEN Cardinality(Loaded) ELSE Cardinality(Loaded) + 1
    BY <1>6, FS_AddElement
  <2> QED
    BY <1>2, <1>3, <1>5, <1>6, <1>7, <2>1, <2>2
<1>8. CASE ~a.file_id
  <2>1. Loaded' = Loaded \ {id}
    BY <1>2, <1>8 DEF Loaded
  <2>2. Cardinality(Loaded \ {id}) =
          IF id \in Loaded THEN Cardinality(Loaded) - 1 ELSE Cardinality(Loaded)
    BY <1>6, FS_RemoveElement
  <2>3. id \in Loaded => Cardinality(Loaded) > 0
    BY <1>6, FS_EmptySet
  <2> QED
    BY <1>2, <1>3, <1>5, <1>6, <1>8, <2>1, <2>2, <2>3
<1> QED
  BY <1>7, <1>8

(* Allocation id has the bytes d now, and a stream or not. *)
Rewrites(id, d, stream) ==
  /\ Known(id) /\ d \in [0 .. AllocSize(id) - 1 -> BYTE] /\ stream \in BOOLEAN
  /\ Becomes(id, [memstore[id] EXCEPT !.data = d, !.file_id = stream])

(* The bytes of an allocation as a sequence. *)
Sequence(d, n) == [k \in 1 .. n |-> d[k - 1]]

(* An allocation that is rewritten stays an allocation of its size, and the *)
(* others are as they were.                                                 *)
LEMMA RewritingKeepsSlots ==
  ASSUME IInv, NEW id, NEW d, NEW stream, Rewrites(id, d, stream)
  PROVE  /\ memstore' \in [Slot -> Records]
         /\ \A i \in Slot : SlotOK(memstore'[i], i)
         /\ Cardinality(Loaded') \in Nat
         /\ Cardinality(Loaded') =
              Cardinality(Loaded) - Held(id) + (IF stream THEN 1 ELSE 0)
         /\ Contents' = [Contents EXCEPT ![id] = Sequence(d, AllocSize(id))]
<1> DEFINE m == memstore[id]
           a == [m EXCEPT !.data = d, !.file_id = stream]
           n == AllocSize(id)
<1>1. /\ id \in AllocId /\ id \in Slot /\ m \in Records /\ m.allocation_id = id /\ id # 0
      /\ n \in Nat /\ d \in [0 .. n - 1 -> BYTE] /\ stream \in BOOLEAN /\ Known(id)
      /\ PageSize(id) = m.page_size /\ n = m.number_pages * PageSize(id)
  BY KnownFacts DEF Rewrites
<1>2. d \in Blocks
  BY <1>1 DEF Blocks
<1>3. /\ a.data = d /\ a.file_id = stream /\ a.allocation_id = id
      /\ a.number_pages = m.number_pages /\ a.page_size = m.page_size
      /\ a \in Records
  BY <1>1, <1>2 DEF Records
<1>4. SlotOK(m, id)
  BY <1>1 DEF IInv
<1>5. SlotOK(a, id)
  <2> HIDE DEF m, a, n
  <2>1. a.data \in [0 .. a.number_pages * a.page_size - 1 -> BYTE]
    BY <1>1, <1>3
  <2> QED
    BY <1>1, <1>3, <1>4, <2>1 DEF SlotOK
<1>6. Becomes(id, a)
  BY DEF Rewrites
<1> HIDE DEF a
<1>7. /\ memstore' \in [Slot -> Records]
      /\ \A i \in Slot : SlotOK(memstore'[i], i)
      /\ memstore'[id] = a /\ \A i \in Slot : i # id => memstore'[i] = memstore[i]
      /\ Cardinality(Loaded') \in Nat
      /\ Cardinality(Loaded') =
           Cardinality(Loaded) - Held(id) + (IF stream THEN 1 ELSE 0)
  BY <1>1, <1>3, <1>5, <1>6, SlotBecomes
<1>8. ASSUME NEW i \in AllocId
      PROVE  /\ Known(i)' <=> Known(i)
             /\ AllocSize(i)' = AllocSize(i)
  <2>1. i \in Slot
    BY Numbers
  <2>2. CASE i = id
    BY <1>1, <1>3, <1>7, <2>2 DEF Known, AllocSize
  <2>3. CASE i # id
    BY <1>7, <2>1, <2>3 DEF Known, AllocSize
  <2> QED
    BY <2>2, <2>3
<1>9. DOMAIN Contents = {i \in AllocId : Known(i)}
  BY ContentsFacts
<1>10. DOMAIN Contents' = {i \in AllocId : Known(i)'}
  BY DEF Contents
<1>11. DOMAIN Contents' = DOMAIN Contents
  BY <1>8, <1>9, <1>10
<1>12. ASSUME NEW i \in DOMAIN Contents
       PROVE  Contents'[i] = IF i = id THEN Sequence(d, n) ELSE Contents[i]
  <2>1. i \in AllocId /\ i \in Slot /\ Known(i) /\ Known(i)' /\ AllocSize(i)' = AllocSize(i)
    BY <1>8, <1>9, Numbers
  <2>2. Contents'[i] = [k \in 1 .. AllocSize(i) |-> memstore'[i].data[0 + k - 1]]
    BY <2>1 DEF Contents, Bytes
  <2>3. Contents[i] = [k \in 1 .. AllocSize(i) |-> memstore[i].data[0 + k - 1]]
    BY <2>1 DEF Contents, Bytes
  <2>4. CASE i = id
    <3>1. \A k \in 1 .. n : 0 + k - 1 = k - 1
      BY <1>1
    <3>2. Contents'[i] = [k \in 1 .. n |-> d[0 + k - 1]]
      BY <1>3, <1>7, <2>2, <2>4
    <3> QED
      BY <2>4, <3>1, <3>2 DEF Sequence
  <2>5. CASE i # id
    <3>1. memstore'[i] = memstore[i]
      BY <1>7, <2>1, <2>5
    <3> QED
      BY <2>2, <2>3, <2>5, <3>1
  <2> QED
    BY <2>4, <2>5
<1>13. Contents' = [Contents EXCEPT ![id] = Sequence(d, n)]
  <2>1. Contents' = [i \in DOMAIN Contents' |-> Contents'[i]]
    BY DEF Contents
  <2> QED
    BY <1>11, <1>12, <2>1
<1> QED
  BY <1>7, <1>13

-----------------------------------------------------------------------------
(* What the commands do to the bytes of an allocation. *)

(* The functions of memstore_manager.c keep the bytes bytes. *)
LEMMA BytesTypes ==
  ASSUME NEW n \in Nat, NEW d \in [0 .. n - 1 -> BYTE], NEW at \in Nat, NEW m \in Nat
  PROVE  /\ \A s \in Seq(BYTE) : CopiedIn(d, at, s) \in [0 .. n - 1 -> BYTE]
         /\ MovedUp(d, at, m) \in [0 .. n - 1 -> BYTE]
         /\ MovedDown(d, at, m, n) \in [0 .. n - 1 -> BYTE]
         /\ Cleared(d) \in [0 .. n - 1 -> BYTE]
<1>1. ASSUME NEW s \in Seq(BYTE)
      PROVE  CopiedIn(d, at, s) \in [0 .. n - 1 -> BYTE]
  BY DEF CopiedIn
<1>2. MovedUp(d, at, m) \in [0 .. n - 1 -> BYTE]
  BY DEF MovedUp
<1>3. MovedDown(d, at, m, n) \in [0 .. n - 1 -> BYTE]
  BY Numbers DEF MovedDown
<1>4. Cleared(d) \in [0 .. n - 1 -> BYTE]
  BY Numbers DEF Cleared
<1> QED
  BY <1>1, <1>2, <1>3, <1>4

(* Writing back what is there changes no byte and no stream. *)
LEMMA SetDataRewrites ==
  ASSUME IInv, NEW id, Known(id), NEW d \in [0 .. AllocSize(id) - 1 -> BYTE],
         SetData(id, d)
  PROVE  Rewrites(id, d, memstore[id].file_id)
<1>1. memstore[id] \in Records /\ memstore[id].file_id \in BOOLEAN /\ id \in Slot
      /\ memstore \in [Slot -> Records]
  BY KnownFacts DEF IInv
<1>2. [memstore[id] EXCEPT !.data = d]
        = [memstore[id] EXCEPT !.data = d, !.file_id = memstore[id].file_id]
  BY <1>1 DEF Records
<1>3. Becomes(id, [memstore[id] EXCEPT !.data = d])
  BY <1>1 DEF SetData, Becomes
<1> QED
  BY <1>1, <1>2, <1>3 DEF Rewrites

(* SALLOC *)
LEMMA StoreRewrites ==
  ASSUME IInv, NEW id, NEW page, NEW s \in Seq(BYTE), StoreAlloc(id, page, s)
  PROVE  /\ Rewrites(id, CopiedIn(memstore[id].data, page * PageSize(id), s),
                     memstore[id].file_id)
         /\ page * PageSize(id) \in Nat /\ s \in Seq(BYTE) /\ Len(s) = PageSize(id)
         /\ page * PageSize(id) + Len(s) <= AllocSize(id)
<1>1. /\ Known(id) /\ page \in 0 .. memstore[id].number_pages - 1 /\ Len(s) = PageSize(id)
      /\ SetData(id, CopiedIn(memstore[id].data, page * PageSize(id), s))
  BY DEF StoreAlloc, HasPage
<1>2. /\ memstore[id].number_pages \in Nat /\ PageSize(id) \in Nat
      /\ AllocSize(id) = memstore[id].number_pages * PageSize(id)
      /\ AllocSize(id) \in Nat /\ memstore[id].data \in [0 .. AllocSize(id) - 1 -> BYTE]
  BY <1>1, KnownFacts
<1>3. /\ page * PageSize(id) \in Nat
      /\ page * PageSize(id) + PageSize(id) <= AllocSize(id)
  <2> DEFINE pages == memstore[id].number_pages
             size == PageSize(id)
  <2>1. pages \in Nat /\ size \in Nat /\ page \in 0 .. pages - 1
    BY <1>1, <1>2
  <2> HIDE DEF pages, size
  <2>2. page * size \in Nat /\ page * size + size <= pages * size
    BY <2>1, PagesTimesSize, Zenon
  <2>3. QED
    BY <2>2, <1>2 DEF pages, size
<1>4. s \in Seq(BYTE)
  OBVIOUS
<1>5. CopiedIn(memstore[id].data, page * PageSize(id), s)
        \in [0 .. AllocSize(id) - 1 -> BYTE]
  BY <1>2, <1>3, <1>4, BytesTypes
<1> QED
  BY <1>1, <1>3, <1>4, <1>5, SetDataRewrites

(* IALLOC *)
LEMMA InsertRewrites ==
  ASSUME IInv, NEW id, NEW at \in Nat, NEW s \in Seq(BYTE), InsertAlloc(id, at, s)
  PROVE  /\ Rewrites(id, CopiedIn(MovedUp(memstore[id].data, at, Len(s)), at, s),
                     memstore[id].file_id)
         /\ s \in Seq(BYTE) /\ Len(s) > 0 /\ at + Len(s) < AllocSize(id)
<1>1. /\ Known(id) /\ Len(s) > 0 /\ at + Len(s) < AllocSize(id)
      /\ SetData(id, CopiedIn(MovedUp(memstore[id].data, at, Len(s)), at, s))
  BY DEF InsertAlloc, Inside
<1>2. AllocSize(id) \in Nat /\ memstore[id].data \in [0 .. AllocSize(id) - 1 -> BYTE]
  BY <1>1, KnownFacts
<1>3. s \in Seq(BYTE) /\ Len(s) \in Nat
  OBVIOUS
<1>4. MovedUp(memstore[id].data, at, Len(s)) \in [0 .. AllocSize(id) - 1 -> BYTE]
  BY <1>2, <1>3, BytesTypes
<1>5. CopiedIn(MovedUp(memstore[id].data, at, Len(s)), at, s)
        \in [0 .. AllocSize(id) - 1 -> BYTE]
  BY <1>2, <1>3, <1>4, BytesTypes
<1> QED
  BY <1>1, <1>3, <1>5, SetDataRewrites

(* XALLOC *)
LEMMA CutRewrites ==
  ASSUME IInv, NEW id, NEW at \in Nat, NEW n \in Nat, CutAlloc(id, at, n)
  PROVE  /\ Rewrites(id, MovedDown(memstore[id].data, at, n, AllocSize(id)),
                     memstore[id].file_id)
         /\ n > 0 /\ at + n < AllocSize(id)
<1>1. /\ Known(id) /\ n > 0 /\ at + n < AllocSize(id)
      /\ SetData(id, MovedDown(memstore[id].data, at, n, AllocSize(id)))
  BY DEF CutAlloc, Inside
<1>2. AllocSize(id) \in Nat /\ memstore[id].data \in [0 .. AllocSize(id) - 1 -> BYTE]
  BY <1>1, KnownFacts
<1>3. MovedDown(memstore[id].data, at, n, AllocSize(id)) \in [0 .. AllocSize(id) - 1 -> BYTE]
  BY <1>2, BytesTypes
<1> QED
  BY <1>1, <1>3, SetDataRewrites

(* What PILALLOC reads into are the bytes there were, or zeros. *)
LEMMA BeforeLoadType ==
  ASSUME IInv, NEW id, Known(id)
  PROVE  /\ BeforeLoad(id) \in [0 .. AllocSize(id) - 1 -> BYTE]
         /\ Cleared(memstore[id].data) \in [0 .. AllocSize(id) - 1 -> BYTE]
         /\ BeforeLoad(id) \in {memstore[id].data, Cleared(memstore[id].data)}
<1>1. AllocSize(id) \in Nat /\ memstore[id].data \in [0 .. AllocSize(id) - 1 -> BYTE]
  BY KnownFacts
<1>2. Cleared(memstore[id].data) \in [0 .. AllocSize(id) - 1 -> BYTE]
  BY <1>1, BytesTypes
<1> QED
  BY <1>1, <1>2 DEF BeforeLoad

(* An allocation with its data and its stream written. *)
LEMMA BothRewrite ==
  ASSUME IInv, NEW id, Known(id), NEW d \in [0 .. AllocSize(id) - 1 -> BYTE],
         NEW stream \in BOOLEAN,
         memstore' = [memstore EXCEPT ![id].file_id = stream, ![id].data = d]
  PROVE  Rewrites(id, d, stream)
<1>1. memstore[id] \in Records /\ id \in Slot /\ memstore \in [Slot -> Records]
  BY KnownFacts DEF IInv
<1>2. Becomes(id, [memstore[id] EXCEPT !.data = d, !.file_id = stream])
  BY <1>1 DEF Becomes, Records
<1> QED
  BY <1>2 DEF Rewrites

(* PILALLOC *)
LEMMA LoadRewrites ==
  ASSUME IInv, NEW id, NEW f \in FILE, LoadAlloc(id, f)
  PROVE  /\ Rewrites(id, CopiedIn(BeforeLoad(id), 0, files[f]), TRUE)
         /\ files[f] \in Seq(BYTE) /\ Len(files[f]) \in 1 .. AllocSize(id)
<1>1. /\ Known(id) /\ files[f] # Missing /\ Len(files[f]) \in 1 .. AllocSize(id)
      /\ memstore' = [memstore EXCEPT ![id].file_id = TRUE,
                                      ![id].data = CopiedIn(BeforeLoad(id), 0, files[f])]
  BY DEF LoadAlloc
<1>2. files[f] \in Seq(BYTE)
  BY <1>1 DEF IInv
<1>3. AllocSize(id) \in Nat /\ BeforeLoad(id) \in [0 .. AllocSize(id) - 1 -> BYTE]
  BY <1>1, KnownFacts, BeforeLoadType
<1>4. CopiedIn(BeforeLoad(id), 0, files[f]) \in [0 .. AllocSize(id) - 1 -> BYTE]
  BY <1>2, <1>3, BytesTypes
<1> QED
  BY <1>1, <1>2, <1>4, BothRewrite

(* PILALLOC of a file that is too long or empty *)
LEMMA LoadUnfitRewrites ==
  ASSUME IInv, NEW id, NEW f \in FILE, LoadUnfit(id, f)
  PROVE  Rewrites(id, Cleared(memstore[id].data), FALSE)
<1>1. /\ Known(id) 
      /\ memstore' = [memstore EXCEPT ![id].file_id = FALSE, ![id].data = Cleared(@)]
  BY DEF LoadUnfit
<1>2. memstore[id] \in Records /\ id \in Slot /\ memstore \in [Slot -> Records]
  BY <1>1, KnownFacts DEF IInv
<1>3. memstore' = [memstore EXCEPT ![id].file_id = FALSE,
                                   ![id].data = Cleared(memstore[id].data)]
  BY <1>1, <1>2 DEF Records
<1> QED
  BY <1>1, <1>3, BeforeLoadType, BothRewrite

(* PILALLOC of a file that is not there or cannot be opened *)
LEMMA LoadNotOpenedRewrites ==
  ASSUME IInv, NEW id, NEW f \in FILE, LoadNotOpened(id, f)
  PROVE  Rewrites(id, BeforeLoad(id), FALSE)
<1>1. /\ Known(id)
      /\ memstore' = [memstore EXCEPT ![id].file_id = FALSE, ![id].data = BeforeLoad(id)]
  BY DEF LoadNotOpened
<1> QED
  BY <1>1, BeforeLoadType, BothRewrite

(* PISALLOC, whatever it answers, closes the stream and leaves the bytes.   *)
LEMMA SaveRewrites ==
  ASSUME IInv, NEW id, Known(id),
         memstore' = [memstore EXCEPT ![id].file_id = FALSE]
  PROVE  Rewrites(id, memstore[id].data, FALSE)
<1>1. /\ memstore[id] \in Records /\ id \in Slot /\ memstore \in [Slot -> Records]
      /\ memstore[id].data \in [0 .. AllocSize(id) - 1 -> BYTE]
  BY KnownFacts DEF IInv
<1>2. Becomes(id, [memstore[id] EXCEPT !.data = memstore[id].data, !.file_id = FALSE])
  BY <1>1 DEF Becomes, Records
<1> QED
  BY <1>1, <1>2 DEF Rewrites

(* The bytes written back are the bytes there were. *)
LEMMA SameBytesSameContents ==
  ASSUME IInv, NEW id, NEW stream, Rewrites(id, memstore[id].data, stream)
  PROVE  Contents' = Contents
<1>1. Known(id) /\ Contents' = [Contents EXCEPT ![id] =
                                  Sequence(memstore[id].data, AllocSize(id))]
  BY RewritingKeepsSlots DEF Rewrites
<1>2. id \in DOMAIN Contents /\ AllocSize(id) \in Nat
  BY <1>1, ContentsFacts, KnownFacts
<1>3. Contents[id] = Sequence(memstore[id].data, AllocSize(id))
  <2> DEFINE n == AllocSize(id)
             d == memstore[id].data
  <2>1. Contents[id] = [k \in 1 .. n |-> d[0 + k - 1]]
    BY <1>2 DEF Contents, Bytes
  <2>2. \A k \in 1 .. n : 0 + k - 1 = k - 1
    BY <1>2
  <2> HIDE DEF n, d
  <2>3. Contents[id] = [k \in 1 .. n |-> d[k - 1]]
    BY <2>1, <2>2
  <2> QED
    BY <2>3 DEF Sequence, n, d
<1>4. [Contents EXCEPT ![id] = Contents[id]] = Contents
  BY <1>2 DEF Contents
<1> QED
  BY <1>1, <1>3, <1>4

-----------------------------------------------------------------------------
(* A slot is taken, is freed, all are freed. *)

(* A free slot has no bytes and no stream. *)
LEMMA FreeSlotOK ==
  /\ FreeSlot \in Records /\ \A i \in Slot : SlotOK(FreeSlot, i)
  /\ FreeSlot.file_id = FALSE /\ FreeSlot.allocation_id = 0
<1>1. NoData \in Blocks
  <2>1. NoData \in [0 .. 0 - 1 -> BYTE]
    BY DEF NoData
  <2>2. 0 \in Nat
    OBVIOUS
  <2> QED
    BY <2>1, <2>2 DEF Blocks
<1>2. FreeSlot \in Records
  BY <1>1, Numbers DEF FreeSlot, Records
<1>3. FreeSlot.file_id = FALSE /\ FreeSlot.allocation_id = 0
  BY DEF FreeSlot
<1> QED
  BY <1>2, <1>3 DEF SlotOK

(* CALLOC takes the first free slot and gives it its pages, zeroed. *)
LEMMA CreateFacts ==
  ASSUME IInv, NEW pages, NEW kb, CreateAlloc(pages, kb)
  PROVE  LET id == Min(FreeIds) IN
         /\ id \in AllocId /\ id \in Slot /\ id # 0
         /\ memstore[id].allocation_id = 0 /\ memstore[id].file_id = FALSE
         /\ SlotOK(NewAllocation(id, pages, kb), id)
         /\ Becomes(id, NewAllocation(id, pages, kb))
         /\ pages \in Nat /\ kb \in Nat /\ kb * KB \in Nat
         /\ pages * (kb * KB) = pages * kb * KB /\ pages * kb * KB \in Nat
         /\ UNCHANGED <<files, open>>
         /\ answer' = [command |-> "CALLOC", id |-> id, error |-> 0, data |-> << >>]
<1> DEFINE id == Min(FreeIds)
           a == NewAllocation(id, pages, kb)
<1>1. /\ pages \in 1 .. MAX_PAGES /\ kb \in 1 .. MAX_PAGE_KB /\ FreeIds # {}
      /\ Becomes(id, a) /\ UNCHANGED <<files, open>>
      /\ answer' = [command |-> "CALLOC", id |-> id, error |-> 0, data |-> << >>]
  BY DEF CreateAlloc, Becomes, Answers
<1>2. id \in FreeIds
  <2>1. FreeIds \subseteq Nat
    BY Numbers DEF FreeIds
  <2>2. \E x \in FreeIds : \A y \in FreeIds : x <= y
    BY <1>1, <2>1, LeastNumber
  <2> QED
    BY <2>2 DEF Min
<1>3. id \in AllocId /\ id \in Slot /\ id # 0 /\ memstore[id].allocation_id = 0
  BY <1>2, Numbers DEF FreeIds, AllocId
<1>4. memstore[id] = FreeSlot
  BY <1>3 DEF IInv, SlotOK
<1>5. pages \in Nat /\ kb \in Nat /\ KB \in Nat /\ kb * KB \in Nat
  BY <1>1, Numbers
<1>6. pages * (kb * KB) = pages * kb * KB /\ pages * (kb * KB) \in Nat
  BY <1>5
<1>7. a.data \in [0 .. pages * (kb * KB) - 1 -> BYTE]
  BY <1>6, Numbers DEF NewAllocation
<1>8. a.data \in Blocks
  BY <1>6, <1>7 DEF Blocks
<1>9. a \in Records
  BY <1>3, <1>5, <1>8 DEF NewAllocation, Records
<1>10. SlotOK(a, id)
  <2>1. /\ a.allocation_id = id /\ a.number_pages = pages /\ a.page_size = kb * KB
    BY DEF NewAllocation
  <2> HIDE DEF a, id
  <2> QED
    BY <1>1, <1>3, <1>7, <1>9, <2>1 DEF SlotOK
<1> QED
  BY <1>1, <1>3, <1>4, <1>5, <1>6, <1>10, FreeSlotOK

(* RESET *)
LEMMA ResetFacts ==
  ASSUME IInv, Reset
  PROVE  /\ memstore' \in [Slot -> Records] /\ \A i \in Slot : SlotOK(memstore'[i], i)
         /\ Cardinality(Loaded') = 0 /\ open' = open - Cardinality(Loaded)
         /\ UNCHANGED files
         /\ answer' = [command |-> "RESET", id |-> 0, error |-> 0, data |-> << >>]
<1>1. /\ memstore' = [i \in Slot |-> FreeSlot] /\ open' = open - Cardinality(Loaded)
      /\ UNCHANGED files
      /\ answer' = [command |-> "RESET", id |-> 0, error |-> 0, data |-> << >>]
  BY DEF Reset, NoAllocations, Answers
<1>2. memstore' \in [Slot -> Records] /\ \A i \in Slot : SlotOK(memstore'[i], i)
  BY <1>1, FreeSlotOK
<1>3. Loaded' = {}
  BY <1>1, FreeSlotOK DEF Loaded
<1> QED
  BY <1>1, <1>2, <1>3, FS_EmptySet

-----------------------------------------------------------------------------
(* What every step does. *)

StreamsKept ==
  \/ open' - Cardinality(Loaded') = open - Cardinality(Loaded)
  \/ /\ answer'.command = "FALLOC" /\ answer'.id \in Loaded
     /\ open' - Cardinality(Loaded') = open - Cardinality(Loaded) + 1

RefusalKeepsContents ==
  answer'.error # 0 =>
    \/ Contents' = Contents
    \/ /\ answer'.command = "PILALLOC"
       /\ \E id \in AllocId : Store!Clear(id)

(* FALLOC without an error is of the slot in the answer, and PISALLOC       *)
(* changes no contents.                                                     *)
AnswerTells ==
  answer'.error = 0 =>
    /\ answer'.command = "FALLOC" => FreeAlloc(answer'.id)
    /\ answer'.command = "PISALLOC" => Contents' = Contents

Kept == IInv' /\ StreamsKept /\ RefusalKeepsContents /\ AnswerTells

(* An answer as it may be. *)
Answered(command, id, error) ==
  /\ answer'.command = command /\ answer'.id = id /\ answer'.error = error
  /\ id \in Slot /\ error \in 0 .. 3

(* Nothing is done but to answer. *)
LEMMA AnswerOnlyKeeps ==
  ASSUME IInv, UNCHANGED <<memstore, files, open>>, NEW command, NEW id, NEW error,
         Answered(command, id, error),
         error = 0 => command \notin {"FALLOC", "PISALLOC"}
  PROVE  Kept
<1>1. Loaded' = Loaded
  BY DEF Loaded
<1>2. Contents' = Contents
  BY DEF Contents, Bytes, AllocSize, Known
<1>3. IInv'
  BY <1>1 DEF IInv, Answered
<1>4. StreamsKept
  BY <1>1 DEF StreamsKept
<1>5. RefusalKeepsContents
  BY <1>2 DEF RefusalKeepsContents
<1>6. AnswerTells
  BY DEF AnswerTells, Answered
<1> QED
  BY <1>3, <1>4, <1>5, <1>6 DEF Kept

(* An allocation is rewritten, and gains or loses its stream. *)
LEMMA RewriteKeeps ==
  ASSUME IInv, NEW at, NEW d, NEW stream, Rewrites(at, d, stream),
         open' = open - Held(at) + (IF stream THEN 1 ELSE 0), open' <= MAX_OPEN,
         files' \in [FILE -> {Missing} \cup Seq(BYTE)],
         NEW command, NEW id, NEW error, Answered(command, id, error),
         command # "FALLOC", RefusalKeepsContents,
         command = "PISALLOC" /\ error = 0 => Contents' = Contents
  PROVE  Kept
<1>1. /\ memstore' \in [Slot -> Records] /\ \A i \in Slot : SlotOK(memstore'[i], i)
      /\ Cardinality(Loaded') \in Nat
      /\ Cardinality(Loaded') =
           Cardinality(Loaded) - Held(at) + (IF stream THEN 1 ELSE 0)
  BY RewritingKeepsSlots
<1>2. open \in Nat /\ Cardinality(Loaded) \in Nat /\ Cardinality(Loaded) <= open
      /\ MAX_OPEN \in Nat
  BY LoadedIsFinite, Numbers DEF IInv
<1> DEFINE c == Cardinality(Loaded)
           cp == Cardinality(Loaded')
           h == Held(at)
           b == IF stream THEN 1 ELSE 0
<1>3. h \in {0, 1} /\ b \in {0, 1}
  BY DEF Held
<1>4. cp \in Nat /\ cp = c - h + b /\ c \in Nat /\ open' = open - h + b /\ open \in Nat
      /\ c <= open
  BY <1>1, <1>2
<1> HIDE DEF c, cp, h, b
<1>5. open' \in Nat /\ cp <= open' /\ open' - cp = open - c
  BY <1>3, <1>4
<1>6. IInv'
  BY <1>1, <1>2, <1>5 DEF IInv, Answered, cp
<1>7. StreamsKept
  BY <1>5 DEF StreamsKept, cp, c
<1>8. AnswerTells
  BY DEF AnswerTells, Answered
<1> QED
  BY <1>6, <1>7, <1>8 DEF Kept

(* FALLOC loses the stream of a loaded allocation. *)
LEMMA FreeKeeps ==
  ASSUME IInv, NEW id, FreeAlloc(id) PROVE Kept
<1>1. /\ id \in Slot /\ Becomes(id, FreeSlot) /\ UNCHANGED <<files, open>>
      /\ answer' = [command |-> "FALLOC", id |-> id, error |-> 0, data |-> << >>]
  BY DEF FreeAlloc, Becomes, Answers
<1>2. /\ memstore' \in [Slot -> Records] /\ \A i \in Slot : SlotOK(memstore'[i], i)
      /\ Cardinality(Loaded') \in Nat
      /\ Cardinality(Loaded') = Cardinality(Loaded) - Held(id) + 0
  BY <1>1, FreeSlotOK, SlotBecomes
<1>3. open \in Nat /\ Cardinality(Loaded) \in Nat /\ Cardinality(Loaded) <= open
  BY LoadedIsFinite, Numbers DEF IInv
<1>4. Held(id) = IF id \in Loaded THEN 1 ELSE 0
  BY <1>1 DEF Held, Loaded
<1>5. Cardinality(Loaded') <= open
  BY <1>2, <1>3, <1>4
<1>6. IInv'
  BY <1>1, <1>2, <1>5 DEF IInv
<1>7. StreamsKept
  <2>1. CASE id \in Loaded
    <3>1. open' - Cardinality(Loaded') = open - Cardinality(Loaded) + 1
      BY <1>1, <1>2, <1>3, <1>4, <2>1
    <3> QED
      BY <1>1, <2>1, <3>1 DEF StreamsKept
  <2>2. CASE id \notin Loaded
    <3>1. open' - Cardinality(Loaded') = open - Cardinality(Loaded)
      BY <1>1, <1>2, <1>3, <1>4, <2>2
    <3> QED
      BY <3>1 DEF StreamsKept
  <2> QED
    BY <2>1, <2>2
<1>8. RefusalKeepsContents
  BY <1>1 DEF RefusalKeepsContents
<1>9. AnswerTells
  BY <1>1 DEF AnswerTells
<1> QED
  BY <1>6, <1>7, <1>8, <1>9 DEF Kept

(* CALLOC gives out a slot without a stream. *)
LEMMA CreateKeeps ==
  ASSUME IInv, NEW pages, NEW kb, CreateAlloc(pages, kb) PROVE Kept
<1> DEFINE id == Min(FreeIds)
           a == NewAllocation(id, pages, kb)
<1>1. /\ id \in Slot /\ memstore[id].file_id = FALSE /\ SlotOK(a, id) /\ Becomes(id, a)
      /\ UNCHANGED <<files, open>>
      /\ answer' = [command |-> "CALLOC", id |-> id, error |-> 0, data |-> << >>]
  BY CreateFacts
<1>2. a.file_id = FALSE
  BY DEF NewAllocation
<1> HIDE DEF a, id
<1>3. /\ memstore' \in [Slot -> Records] /\ \A i \in Slot : SlotOK(memstore'[i], i)
      /\ Cardinality(Loaded') \in Nat
      /\ Cardinality(Loaded') = Cardinality(Loaded) - Held(id) + 0
  BY <1>1, <1>2, SlotBecomes
<1>4. Held(id) = 0
  BY <1>1 DEF Held
<1>5. open \in Nat /\ Cardinality(Loaded) \in Nat /\ Cardinality(Loaded) <= open
  BY LoadedIsFinite, Numbers DEF IInv
<1>6. Cardinality(Loaded') = Cardinality(Loaded)
  BY <1>3, <1>4, <1>5
<1>7. IInv'
  BY <1>1, <1>3, <1>5, <1>6 DEF IInv
<1>8. StreamsKept
  BY <1>1, <1>6 DEF StreamsKept
<1>9. RefusalKeepsContents /\ AnswerTells
  BY <1>1 DEF RefusalKeepsContents, AnswerTells
<1> QED
  BY <1>7, <1>8, <1>9 DEF Kept

(* RESET closes the streams of the slots, and no others. *)
LEMMA ResetKeeps ==
  ASSUME IInv, Reset PROVE Kept
<1>1. /\ memstore' \in [Slot -> Records] /\ \A i \in Slot : SlotOK(memstore'[i], i)
      /\ Cardinality(Loaded') = 0 /\ open' = open - Cardinality(Loaded)
      /\ UNCHANGED files
      /\ answer' = [command |-> "RESET", id |-> 0, error |-> 0, data |-> << >>]
  BY ResetFacts
<1>2. open \in Nat /\ open <= MAX_OPEN /\ Cardinality(Loaded) \in Nat
      /\ Cardinality(Loaded) <= open /\ MAX_OPEN \in Nat
  BY LoadedIsFinite, Numbers DEF IInv
<1>3. open' \in 0 .. MAX_OPEN /\ open' - 0 = open - Cardinality(Loaded) /\ 0 <= open'
  BY <1>1, <1>2
<1>4. IInv'
  BY <1>1, <1>3, Numbers DEF IInv
<1>5. StreamsKept
  BY <1>1, <1>3 DEF StreamsKept
<1>6. RefusalKeepsContents /\ AnswerTells
  BY <1>1 DEF RefusalKeepsContents, AnswerTells
<1> QED
  BY <1>4, <1>5, <1>6 DEF Kept

(* The numbers of streams. *)
LEMMA StreamNumbers ==
  ASSUME IInv, NEW id
  PROVE  /\ open \in Nat /\ open <= MAX_OPEN /\ MAX_OPEN \in Nat /\ Held(id) \in {0, 1}
         /\ open - Held(id) = open - Held(id) + 0
         /\ open - Held(id) + 0 <= MAX_OPEN
         /\ CanOpen(id) => open - Held(id) + 1 <= MAX_OPEN
<1>1. open \in Nat /\ open <= MAX_OPEN /\ MAX_OPEN \in Nat /\ Held(id) \in {0, 1}
  BY Numbers DEF IInv, Held
<1> QED
  BY <1>1 DEF CanOpen

(* A command without an error refuses nothing. *)
LEMMA NoErrorNoRefusal ==
  ASSUME answer'.error = 0 PROVE RefusalKeepsContents
BY DEF RefusalKeepsContents

(* SALLOC, IALLOC and XALLOC leave the streams and the files alone. *)
LEMMA DataOnlyKeeps ==
  ASSUME IInv, NEW at, NEW d, Rewrites(at, d, memstore[at].file_id),
         UNCHANGED <<files, open>>,
         NEW command \in {"SALLOC", "IALLOC", "XALLOC"}, Answers(command, at, 0, << >>)
  PROVE  Kept
<1>1. at \in Slot /\ memstore[at].file_id \in BOOLEAN
  BY KnownFacts DEF Rewrites
<1>2. Answered(command, at, 0)
  BY <1>1 DEF Answered, Answers
<1>3. RefusalKeepsContents
  BY <1>2, NoErrorNoRefusal DEF Answered
<1> DEFINE h == Held(at)
           b == IF memstore[at].file_id THEN 1 ELSE 0
<1>4. open \in Nat /\ open <= MAX_OPEN /\ h \in {0, 1} /\ b = h
  BY StreamNumbers DEF Held
<1> HIDE DEF h, b
<1>5. open' = open - h + b /\ open' <= MAX_OPEN
  BY <1>4
<1>6. files' \in [FILE -> {Missing} \cup Seq(BYTE)]
  BY DEF IInv
<1>7. command # "FALLOC" /\ command # "PISALLOC"
  OBVIOUS
<1> QED
  BY <1>2, <1>3, <1>5, <1>6, <1>7, RewriteKeeps DEF h, b

(* SALLOC changes bytes only. *)
LEMMA StoreKeeps ==
  ASSUME IInv, NEW id, NEW page, NEW s \in Seq(BYTE), StoreAlloc(id, page, s) PROVE Kept
<1>1. Rewrites(id, CopiedIn(memstore[id].data, page * PageSize(id), s), memstore[id].file_id)
  BY StoreRewrites
<1>2. UNCHANGED <<files, open>> /\ Answers("SALLOC", id, 0, << >>)
  BY DEF StoreAlloc
<1> QED
  BY <1>1, <1>2, DataOnlyKeeps

(* IALLOC changes bytes only. *)
LEMMA InsertKeeps ==
  ASSUME IInv, NEW id, NEW at \in Nat, NEW s \in Seq(BYTE), InsertAlloc(id, at, s) PROVE Kept
<1>1. Rewrites(id, CopiedIn(MovedUp(memstore[id].data, at, Len(s)), at, s),
               memstore[id].file_id)
  BY InsertRewrites
<1>2. UNCHANGED <<files, open>> /\ Answers("IALLOC", id, 0, << >>)
  BY DEF InsertAlloc
<1> QED
  BY <1>1, <1>2, DataOnlyKeeps

(* XALLOC changes bytes only. *)
LEMMA CutKeeps ==
  ASSUME IInv, NEW id, NEW at \in Nat, NEW n \in Nat, CutAlloc(id, at, n) PROVE Kept
<1>1. Rewrites(id, MovedDown(memstore[id].data, at, n, AllocSize(id)), memstore[id].file_id)
  BY CutRewrites
<1>2. UNCHANGED <<files, open>> /\ Answers("XALLOC", id, 0, << >>)
  BY DEF CutAlloc
<1> QED
  BY <1>1, <1>2, DataOnlyKeeps

(* PILALLOC opens a stream, for the one it may have closed. *)
LEMMA LoadKeeps ==
  ASSUME IInv, NEW id, NEW f \in FILE, LoadAlloc(id, f) PROVE Kept
<1>1. Rewrites(id, CopiedIn(BeforeLoad(id), 0, files[f]), TRUE)
  BY LoadRewrites
<1>2. /\ CanOpen(id) /\ Known(id) /\ open' = open - Held(id) + 1 /\ UNCHANGED files
      /\ Answers("PILALLOC", id, 0, << >>)
  BY DEF LoadAlloc
<1>3. id \in Slot
  BY <1>2, KnownFacts
<1>4. Answered("PILALLOC", id, 0)
  BY <1>2, <1>3 DEF Answered, Answers
<1>5. RefusalKeepsContents
  BY <1>4, NoErrorNoRefusal DEF Answered
<1>6. open' = open - Held(id) + (IF TRUE THEN 1 ELSE 0) /\ open' <= MAX_OPEN
  BY <1>2, StreamNumbers
<1>7. files' \in [FILE -> {Missing} \cup Seq(BYTE)]
  BY <1>2 DEF IInv
<1> QED
  BY <1>1, <1>4, <1>5, <1>6, <1>7, RewriteKeeps

(* An allocation rewritten with zeros is cleared. *)
LEMMA ZerosClear ==
  ASSUME IInv, NEW id, NEW stream, Rewrites(id, Cleared(memstore[id].data), stream)
  PROVE  Store!Clear(id)
<1> DEFINE n == AllocSize(id)
           d == Cleared(memstore[id].data)
<1>1. Known(id) /\ Contents' = [Contents EXCEPT ![id] = Sequence(d, n)]
  BY RewritingKeepsSlots DEF Rewrites
<1>2. id \in DOMAIN Contents /\ Len(Contents[id]) = n
  BY <1>1, ContentsFacts DEF Known
<1>3. n \in Nat /\ memstore[id].data \in [0 .. n - 1 -> BYTE]
  BY <1>1, KnownFacts
<1>4. Sequence(d, n) = [k \in 1 .. n |-> 0]
  <2> HIDE DEF n
  <2>1. \A k \in 1 .. n : k - 1 \in 0 .. n - 1
    BY <1>3
  <2>2. DOMAIN memstore[id].data = 0 .. n - 1
    BY <1>3
  <2>3. \A k \in 1 .. n : d[k - 1] = 0
    BY <2>1, <2>2 DEF Cleared
  <2> HIDE DEF d
  <2> QED
    BY <2>3 DEF Sequence
<1> QED
  BY <1>1, <1>2, <1>4 DEF Store!Clear, Store!Becomes, Store!Zeros, Store!Allocated

(* A load that fails closes the stream there was. *)
LEMMA FailedLoadKeeps ==
  ASSUME IInv, NEW id, NEW d \in {memstore[id].data, Cleared(memstore[id].data)},
         Rewrites(id, d, FALSE), open' = open - Held(id), UNCHANGED files,
         NEW error \in 1 .. 3, Answers("PILALLOC", 0, error, << >>)
  PROVE  Kept
<1>1. Answered("PILALLOC", 0, error) /\ error # 0
  BY Numbers DEF Answered, Answers
<1>2. id \in AllocId
  BY KnownFacts DEF Rewrites
<1>3. RefusalKeepsContents
  <2>1. CASE d = memstore[id].data
    BY <2>1, SameBytesSameContents DEF RefusalKeepsContents
  <2>2. CASE d = Cleared(memstore[id].data)
    <3>1. Store!Clear(id)
      BY <2>2, ZerosClear
    <3>2. answer'.command = "PILALLOC"
      BY <1>1 DEF Answered
    <3>3. \E i \in AllocId : Store!Clear(i)
      BY <1>2, <3>1
    <3> QED
      BY <3>2, <3>3 DEF RefusalKeepsContents
  <2> QED
    BY <2>1, <2>2
<1>4. open' = open - Held(id) + (IF FALSE THEN 1 ELSE 0) /\ open' <= MAX_OPEN
  BY StreamNumbers
<1>5. files' \in [FILE -> {Missing} \cup Seq(BYTE)]
  BY DEF IInv
<1> QED
  BY <1>1, <1>3, <1>4, <1>5, RewriteKeeps

(* A file that is too long or empty leaves a cleared allocation. *)
LEMMA LoadUnfitKeeps ==
  ASSUME IInv, NEW id, NEW f \in FILE, LoadUnfit(id, f) PROVE Kept
<1>1. Rewrites(id, Cleared(memstore[id].data), FALSE)
  BY LoadUnfitRewrites
<1>2. /\ open' = open - Held(id) /\ UNCHANGED files
      /\ Answers("PILALLOC", 0, IF files[f] = << >> THEN 2 ELSE 3, << >>)
  BY DEF LoadUnfit
<1>3. (IF files[f] = << >> THEN 2 ELSE 3) \in 1 .. 3
  OBVIOUS
<1> QED
  BY <1>1, <1>2, <1>3, FailedLoadKeeps

(* A file that is not there leaves the allocation, cleared if it was loaded. *)
LEMMA LoadNotOpenedKeeps ==
  ASSUME IInv, NEW id, NEW f \in FILE, LoadNotOpened(id, f) PROVE Kept
<1>1. Rewrites(id, BeforeLoad(id), FALSE)
  BY LoadNotOpenedRewrites
<1>2. /\ open' = open - Held(id) /\ UNCHANGED files
      /\ Answers("PILALLOC", 0, 2, << >>)
  BY DEF LoadNotOpened
<1>3. BeforeLoad(id) \in {memstore[id].data, Cleared(memstore[id].data)}
  BY DEF BeforeLoad
<1>4. 2 \in 1 .. 3
  OBVIOUS
<1> QED
  BY <1>1, <1>2, <1>3, <1>4, FailedLoadKeeps

(* A save closes the stream and changes no allocation. *)
LEMMA SavingKeeps ==
  ASSUME IInv, NEW at, Known(at), memstore' = [memstore EXCEPT ![at].file_id = FALSE],
         open' = open - Held(at), files' \in [FILE -> {Missing} \cup Seq(BYTE)],
         NEW id \in Slot, NEW error \in 0 .. 3, Answers("PISALLOC", id, error, << >>)
  PROVE  Kept
<1>1. Answered("PISALLOC", id, error)
  BY DEF Answered, Answers
<1>2. Rewrites(at, memstore[at].data, FALSE)
  BY SaveRewrites
<1>3. Contents' = Contents
  BY <1>2, SameBytesSameContents
<1>4. RefusalKeepsContents
  BY <1>3 DEF RefusalKeepsContents
<1>5. open' = open - Held(at) + (IF FALSE THEN 1 ELSE 0) /\ open' <= MAX_OPEN
  BY StreamNumbers
<1> QED
  BY <1>1, <1>2, <1>3, <1>4, <1>5, RewriteKeeps

(* PISALLOC, of a size that fits or not. *)
LEMMA SaveKeeps ==
  ASSUME IInv, NEW id, NEW f \in FILE, NEW size \in Nat, SaveAlloc(id, f, size)
  PROVE  Kept
<1>1. /\ Known(id) /\ memstore' = [memstore EXCEPT ![id].file_id = FALSE]
      /\ open' = open - Held(id)
  BY DEF SaveAlloc
<1>2. id \in Slot /\ 0 \in Slot /\ size \in Nat /\ AllocSize(id) \in Nat
      /\ memstore[id].data \in [0 .. AllocSize(id) - 1 -> BYTE]
  BY <1>1, KnownFacts, Numbers, MemstoreAssumption
<1>3. CASE size <= AllocSize(id)
  <2>1. /\ files' = [files EXCEPT ![f] = Bytes(memstore[id].data, 0, size)]
        /\ Answers("PISALLOC", id, 0, << >>)
    BY <1>3 DEF SaveAlloc
  <2>2. \A i \in 1 .. size : 0 + i - 1 \in 0 .. AllocSize(id) - 1
    BY <1>2, <1>3
  <2>3. \A i \in 1 .. size : memstore[id].data[0 + i - 1] \in BYTE
    BY <1>2, <2>2
  <2>4. Bytes(memstore[id].data, 0, size) \in Seq(BYTE)
    BY <1>2, <2>3 DEF Bytes
  <2>5. files' \in [FILE -> {Missing} \cup Seq(BYTE)]
    BY <2>1, <2>4 DEF IInv
  <2>6. 0 \in 0 .. 3
    OBVIOUS
  <2> QED
    BY <1>1, <1>2, <2>1, <2>5, <2>6, SavingKeeps
<1>4. CASE ~(size <= AllocSize(id))
  <2>1. files' = [files EXCEPT ![f] = << >>] /\ Answers("PISALLOC", 0, 2, << >>)
    BY <1>4 DEF SaveAlloc
  <2>2. files' \in [FILE -> {Missing} \cup Seq(BYTE)]
    BY <2>1 DEF IInv
  <2>3. 2 \in 0 .. 3
    OBVIOUS
  <2> QED
    BY <1>1, <1>2, <2>1, <2>2, <2>3, SavingKeeps
<1> QED
  BY <1>3, <1>4

(* PISALLOC when no more streams may be open. *)
LEMMA SaveNotOpenedKeeps ==
  ASSUME IInv, NEW id, NEW size, SaveNotOpened(id, size) PROVE Kept
<1>1. /\ Known(id) /\ memstore' = [memstore EXCEPT ![id].file_id = FALSE]
      /\ open' = open - Held(id) /\ UNCHANGED files /\ Answers("PISALLOC", 0, 2, << >>)
  BY DEF SaveNotOpened
<1>2. files' \in [FILE -> {Missing} \cup Seq(BYTE)] /\ 0 \in Slot /\ 2 \in 0 .. 3
  BY <1>1, Numbers DEF IInv
<1> QED
  BY <1>1, <1>2, SavingKeeps

(* The commands that are refused, and RALLOC, only answer. *)
LEMMA AnsweringKeeps ==
  ASSUME IInv, NEW id, NEW n, NEW m,
         \/ CreateFails(n, m) \/ CreateRefused(n, m) \/ FreeRefused(id)
         \/ RetrieveAlloc(id, n) \/ RetrieveRefused(id, n) \/ StoreRefused(id, n)
         \/ InsertRefused(id, n, m) \/ CutRefused(id, n, m)
         \/ LoadRefused(id) \/ SaveRefused(id, n)
  PROVE  Kept
<1>1. 0 \in Slot /\ 0 \in 0 .. 3 /\ 1 \in 0 .. 3 /\ 2 \in 0 .. 3 /\ 3 \in 0 .. 3
  BY Numbers
<1>2. CASE CreateFails(n, m)
  <2>1. UNCHANGED <<memstore, files, open>> /\ Answered("CALLOC", 0, 2)
    BY <1>1, <1>2 DEF CreateFails, Answers, Answered
  <2> QED
    BY <2>1, AnswerOnlyKeeps
<1>3. CASE CreateRefused(n, m)
  <2>1. UNCHANGED <<memstore, files, open>> /\ Answered("CALLOC", 0, 1)
    BY <1>1, <1>3 DEF CreateRefused, Answers, Answered
  <2> QED
    BY <2>1, AnswerOnlyKeeps
<1>4. CASE FreeRefused(id)
  <2>1. UNCHANGED <<memstore, files, open>> /\ Answered("FALLOC", 0, 1)
    BY <1>1, <1>4 DEF FreeRefused, Answers, Answered
  <2> QED
    BY <2>1, AnswerOnlyKeeps
<1>5. CASE RetrieveAlloc(id, n)
  <2>1. id \in Slot
    BY <1>5, KnownFacts DEF RetrieveAlloc, HasPage
  <2>2. UNCHANGED <<memstore, files, open>> /\ Answered("RALLOC", id, 0)
    BY <1>1, <1>5, <2>1 DEF RetrieveAlloc, Answers, Answered
  <2> QED
    BY <2>2, AnswerOnlyKeeps
<1>6. CASE RetrieveRefused(id, n)
  <2>1. UNCHANGED <<memstore, files, open>> /\ Answered("RALLOC", 0, 1)
    BY <1>1, <1>6 DEF RetrieveRefused, Answers, Answered
  <2> QED
    BY <2>1, AnswerOnlyKeeps
<1>7. CASE StoreRefused(id, n)
  <2>1. UNCHANGED <<memstore, files, open>> /\ Answered("SALLOC", 0, 1)
    BY <1>1, <1>7 DEF StoreRefused, Answers, Answered
  <2> QED
    BY <2>1, AnswerOnlyKeeps
<1>8. CASE InsertRefused(id, n, m)
  <2> DEFINE error == IF Beyond(id, n, m) THEN 3 ELSE 1
  <2>1. UNCHANGED <<memstore, files, open>> /\ Answered("IALLOC", 0, error)
    BY <1>1, <1>8 DEF InsertRefused, Answers, Answered
  <2> QED
    BY <2>1, AnswerOnlyKeeps
<1>9. CASE CutRefused(id, n, m)
  <2> DEFINE error == IF Beyond(id, n, m) THEN 2 ELSE 1
  <2>1. UNCHANGED <<memstore, files, open>> /\ Answered("XALLOC", 0, error)
    BY <1>1, <1>9 DEF CutRefused, Answers, Answered
  <2> QED
    BY <2>1, AnswerOnlyKeeps
<1>10. CASE LoadRefused(id)
  <2>1. UNCHANGED <<memstore, files, open>> /\ Answered("PILALLOC", 0, 2)
    BY <1>1, <1>10 DEF LoadRefused, Answers, Answered
  <2> QED
    BY <2>1, AnswerOnlyKeeps
<1>11. CASE SaveRefused(id, n)
  <2>1. UNCHANGED <<memstore, files, open>> /\ Answered("PISALLOC", 0, 2)
    BY <1>1, <1>11 DEF SaveRefused, Answers, Answered
  <2> QED
    BY <2>1, AnswerOnlyKeeps
<1> QED
  BY <1>2, <1>3, <1>4, <1>5, <1>6, <1>7, <1>8, <1>9, <1>10, <1>11

(* Offsets and sizes are natural numbers. *)
LEMMA SpansAreNumbers ==
  /\ Size \subseteq Nat
  /\ \A r \in Span : r[1] \in Nat /\ r[2] \in Nat
<1>1. Size \subseteq Nat
  BY DEF Size
<1> QED
  BY <1>1 DEF Span

(* Every command keeps what is to be kept. *)
LEMMA NextKeeps == IInv /\ Next => Kept
<1> SUFFICES ASSUME IInv, Next PROVE Kept
  OBVIOUS
<1>a. DATA \subseteq Seq(BYTE) /\ FILE_SIZE \subseteq Nat
  BY MemstoreAssumption
<1>1. CASE \E pages \in 0 .. MAX_PAGES + 1, kb \in 0 .. MAX_PAGE_KB + 1 :
             CreateAlloc(pages, kb) \/ CreateFails(pages, kb) \/ CreateRefused(pages, kb)
  BY <1>1, CreateKeeps, AnsweringKeeps
<1>2. CASE \E id \in Id : FreeAlloc(id) \/ FreeRefused(id)
  BY <1>2, FreeKeeps, AnsweringKeeps
<1>3. CASE \E id \in Id, page \in 0 .. MAX_PAGES :
             \/ RetrieveAlloc(id, page) \/ RetrieveRefused(id, page)
             \/ StoreRefused(id, page)
             \/ \E s \in DATA : StoreAlloc(id, page, s)
  BY <1>a, <1>3, StoreKeeps, AnsweringKeeps
<1>4. CASE \E id \in Id, r \in Span :
             \/ \E s \in DATA : Len(s) = r[2] /\ InsertAlloc(id, r[1], s)
             \/ InsertRefused(id, r[1], r[2])
             \/ CutAlloc(id, r[1], r[2]) \/ CutRefused(id, r[1], r[2])
  <2>1. PICK id \in Id, r \in Span :
             \/ \E s \in DATA : Len(s) = r[2] /\ InsertAlloc(id, r[1], s)
             \/ InsertRefused(id, r[1], r[2])
             \/ CutAlloc(id, r[1], r[2]) \/ CutRefused(id, r[1], r[2])
    BY <1>4
  <2>2. r[1] \in Nat /\ r[2] \in Nat
    BY SpansAreNumbers
  <2>3. CASE \E s \in DATA : InsertAlloc(id, r[1], s)
    BY <1>a, <2>2, <2>3, InsertKeeps
  <2>4. CASE CutAlloc(id, r[1], r[2])
    BY <2>2, <2>4, CutKeeps
  <2>5. CASE InsertRefused(id, r[1], r[2]) \/ CutRefused(id, r[1], r[2])
    BY <2>5, AnsweringKeeps
  <2> QED
    BY <2>1, <2>3, <2>4, <2>5
<1>5. CASE \E id \in Id, f \in FILE :
             \/ LoadAlloc(id, f) \/ LoadUnfit(id, f) \/ LoadNotOpened(id, f)
             \/ \E size \in FILE_SIZE : SaveAlloc(id, f, size)
  BY <1>a, <1>5, LoadKeeps, LoadUnfitKeeps, LoadNotOpenedKeeps, SaveKeeps
<1>6. CASE \E id \in Id, size \in FILE_SIZE : SaveNotOpened(id, size) \/ SaveRefused(id, size)
  BY <1>6, SaveNotOpenedKeeps, AnsweringKeeps
<1>7. CASE \E id \in Id : LoadRefused(id)
  BY <1>7, AnsweringKeeps
<1>8. CASE Reset
  BY <1>8, ResetKeeps
<1> QED
  BY <1>1, <1>2, <1>3, <1>4, <1>5, <1>6, <1>7, <1>8 DEF Next

(* At the start every slot is free and no stream is open. *)
LEMMA InitHolds == Init => IInv
<1> SUFFICES ASSUME Init PROVE IInv
  OBVIOUS
<1>1. memstore = [i \in Slot |-> FreeSlot] /\ open = 0 /\ files \in FIRST_FILES
      /\ answer = [command |-> "none", id |-> 0, error |-> 0, data |-> << >>]
  BY DEF Init, NoAllocations
<1>2. memstore \in [Slot -> Records] /\ \A i \in Slot : SlotOK(memstore[i], i)
  BY <1>1, FreeSlotOK
<1>3. Loaded = {}
  BY <1>1, FreeSlotOK DEF Loaded
<1>4. Cardinality(Loaded) = 0
  BY <1>3, FS_EmptySet
<1>5. files \in [FILE -> {Missing} \cup Seq(BYTE)]
  BY <1>1, MemstoreAssumption
<1>6. open \in 0 .. MAX_OPEN /\ Cardinality(Loaded) <= open
  BY <1>1, <1>4, Numbers
<1> QED
  BY <1>1, <1>2, <1>5, <1>6, Numbers DEF IInv

(* A step that changes nothing keeps the invariant. *)
LEMMA StutterHolds == IInv /\ UNCHANGED vars => IInv'
<1> SUFFICES ASSUME IInv, UNCHANGED vars PROVE IInv'
  OBVIOUS
<1>1. memstore' = memstore /\ files' = files /\ open' = open /\ answer' = answer
  BY DEF vars
<1>2. Loaded' = Loaded
  BY <1>1 DEF Loaded
<1> QED
  BY <1>1, <1>2 DEF IInv

(* The slots are in order and their streams are open, always. *)
THEOREM Invariance == Spec => []IInv
<1>1. IInv /\ [Next]_vars => IInv'
  BY NextKeeps, StutterHolds DEF Kept
<1> QED
  BY <1>1, InitHolds, PTL DEF Spec

(* Whatever is stored, loaded and saved, a slot that is taken has the bytes *)
(* of its pages and one that is free has none, files are bytes, and no more *)
(* streams are open than may be, none closed twice.                         *)
THEOREM TypeCorrect == Spec => []TypeOK
BY Invariance, InvariantHasTypes, PTL

(* A command that is refused changes no contents, however it is refused:    *)
(* only a load that fails may clear the allocation it was for.              *)
THEOREM RefusedCommandsChangeNothing == Spec => RefusalsKeepContents
<1>1. IInv /\ Next =>
        (answer'.error # 0 =>
           \/ Contents' = Contents
           \/ /\ answer'.command = "PILALLOC"
              /\ \E id \in AllocId : Store!Clear(id))
  BY NextKeeps DEF Kept, RefusalKeepsContents
<1> QED
  BY <1>1, Invariance, PTL DEF Spec, RefusalsKeepContents

(* FALLOC of a loaded allocation loses its stream, one stream at a time; no *)
(* other command loses one or closes one that is not its own.               *)
THEOREM FreeAloneLosesStreams == Spec => StreamsLostByFreeOnly
<1>1. IInv /\ Next =>
        \/ open' - Cardinality(Loaded') = open - Cardinality(Loaded)
        \/ /\ answer'.command = "FALLOC" /\ answer'.id \in Loaded
           /\ open' - Cardinality(Loaded') = open - Cardinality(Loaded) + 1
  BY NextKeeps DEF Kept, StreamsKept
<1> QED
  BY <1>1, Invariance, PTL DEF Spec, StreamsLostByFreeOnly

-----------------------------------------------------------------------------
(* Parts of sequences. *)

(* The first a of a sequence, and what is after the first b. *)
LEMMA PartsOf ==
  ASSUME NEW S, NEW c \in Seq(S), NEW a \in 0 .. Len(c)
  PROVE  /\ Store!First(c, a) \in Seq(S) /\ Len(Store!First(c, a)) = a
         /\ \A k \in 1 .. a : Store!First(c, a)[k] = c[k]
         /\ Store!From(c, a) \in Seq(S) /\ Len(Store!From(c, a)) = Len(c) - a
         /\ \A k \in 1 .. Len(c) - a : Store!From(c, a)[k] = c[a + k]
<1>1. Len(c) \in Nat /\ a \in Nat /\ a <= Len(c) /\ \A k \in 1 .. Len(c) : c[k] \in S
  OBVIOUS
<1>2. /\ SubSeq(c, 1, a) \in Seq(S)
      /\ Len(SubSeq(c, 1, a)) = IF 1 <= a THEN a - 1 + 1 ELSE 0
      /\ \A k \in 1 .. a - 1 + 1 : SubSeq(c, 1, a)[k] = c[1 + k - 1]
  <2>1. \A k \in 1 .. a : c[k] \in S
    BY <1>1
  <2> QED
    BY <1>1, <2>1, SubSeqProperties
<1>3. /\ SubSeq(c, a + 1, Len(c)) \in Seq(S)
      /\ Len(SubSeq(c, a + 1, Len(c))) =
           IF a + 1 <= Len(c) THEN Len(c) - (a + 1) + 1 ELSE 0
      /\ \A k \in 1 .. Len(c) - (a + 1) + 1 :
           SubSeq(c, a + 1, Len(c))[k] = c[(a + 1) + k - 1]
  <2>1. \A k \in a + 1 .. Len(c) : c[k] \in S
    BY <1>1
  <2> QED
    BY <1>1, <2>1, SubSeqProperties
<1> DEFINE f == SubSeq(c, 1, a)
           t == SubSeq(c, a + 1, Len(c))
           n == Len(c)
<1>4. Store!First(c, a) = f /\ Store!From(c, a) = t
  BY DEF Store!First, Store!From
<1> HIDE DEF f, t, n
<1>5. n \in Nat /\ a \in Nat /\ a <= n
  BY <1>1 DEF n
<1>6. Len(f) = a /\ Len(t) = n - a
  BY <1>2, <1>3, <1>5 DEF f, t, n
<1>7. ASSUME NEW k \in 1 .. a PROVE f[k] = c[k]
  <2>1. 1 + k - 1 = k /\ k \in 1 .. a - 1 + 1
    BY <1>5
  <2> QED
    BY <1>2, <2>1 DEF f
<1>8. ASSUME NEW k \in 1 .. n - a PROVE t[k] = c[a + k]
  <2>1. (a + 1) + k - 1 = a + k /\ k \in 1 .. n - (a + 1) + 1
    BY <1>5
  <2> QED
    BY <1>3, <2>1 DEF t, n
<1> QED
  BY <1>2, <1>3, <1>4, <1>6, <1>7, <1>8 DEF f, t, n

(* Two sequences put together, as a function of the place. *)
LEMMA JoinIs ==
  ASSUME NEW S, NEW s \in Seq(S), NEW t \in Seq(S)
  PROVE  /\ s \o t \in Seq(S) /\ Len(s \o t) = Len(s) + Len(t)
         /\ \A k \in 1 .. Len(s) + Len(t) :
              (s \o t)[k] = IF k <= Len(s) THEN s[k] ELSE t[k - Len(s)]
BY ConcatProperties

(* s between the first a and what is after the first b. *)
Splice(c, s, a, b) == Store!First(c, a) \o s \o Store!From(c, b)

SpliceAt(c, s, a, b, k) ==
  IF k <= a THEN c[k]
  ELSE IF k <= a + Len(s) THEN s[k - a]
  ELSE c[k - (a + Len(s)) + b]

(* The members of a splice. *)
LEMMA SpliceIs ==
  ASSUME NEW S, NEW c \in Seq(S), NEW s \in Seq(S),
         NEW a \in 0 .. Len(c), NEW b \in 0 .. Len(c)
  PROVE  /\ Splice(c, s, a, b) \in Seq(S)
         /\ Len(Splice(c, s, a, b)) = a + Len(s) + (Len(c) - b)
         /\ \A k \in 1 .. a + Len(s) + (Len(c) - b) :
              Splice(c, s, a, b)[k] = SpliceAt(c, s, a, b, k)
<1> DEFINE f == Store!First(c, a)
           t == Store!From(c, b)
           m == Len(s)
           n == Len(c)
           q == f \o s
           r == q \o t
<1>1. /\ f \in Seq(S) /\ Len(f) = a /\ \A k \in 1 .. a : f[k] = c[k]
      /\ t \in Seq(S) /\ Len(t) = n - b /\ \A k \in 1 .. n - b : t[k] = c[b + k]
  BY PartsOf
<1>2. m \in Nat /\ n \in Nat /\ a \in Nat /\ b \in Nat /\ a <= n /\ b <= n
  OBVIOUS
<1> HIDE DEF f, t
<1>3. /\ q \in Seq(S) /\ Len(q) = a + m
      /\ \A k \in 1 .. a + m : q[k] = IF k <= a THEN f[k] ELSE s[k - a]
  BY <1>1, JoinIs
<1> HIDE DEF q
<1> HIDE DEF m, n
<1>4. /\ r \in Seq(S) /\ Len(r) = a + m + (n - b)
      /\ \A k \in 1 .. a + m + (n - b) :
           r[k] = IF k <= a + m THEN q[k] ELSE t[k - (a + m)]
  <2>1. /\ r \in Seq(S) /\ Len(r) = Len(q) + Len(t)
        /\ \A k \in 1 .. Len(q) + Len(t) :
             r[k] = IF k <= Len(q) THEN q[k] ELSE t[k - Len(q)]
    BY <1>1, <1>3, JoinIs
  <2>2. Len(q) = a + m /\ Len(t) = n - b
    BY <1>1, <1>3
  <2> HIDE DEF r
  <2> QED
    BY <2>1, <2>2
<1> HIDE DEF r
<1>5. ASSUME NEW k \in 1 .. a + m + (n - b)
      PROVE  r[k] = IF k <= a THEN c[k]
                    ELSE IF k <= a + m THEN s[k - a]
                    ELSE c[k - (a + m) + b]
  <2>1. CASE k <= a
    <3>1. k \in 1 .. a /\ k \in 1 .. a + m /\ k <= a + m
      BY <1>2, <2>1
    <3>2. r[k] = q[k] /\ q[k] = f[k] /\ f[k] = c[k]
      BY <1>1, <1>3, <1>4, <2>1, <3>1
    <3> QED
      BY <2>1, <3>2
  <2>2. CASE k > a /\ k <= a + m
    <3>1. k \in 1 .. a + m /\ ~(k <= a)
      BY <1>2, <2>2
    <3>2. r[k] = q[k] /\ q[k] = s[k - a]
      BY <1>3, <1>4, <2>2, <3>1
    <3> QED
      BY <2>2, <3>1, <3>2
  <2>3. CASE k > a + m
    <3>1. k - (a + m) \in 1 .. n - b /\ b + (k - (a + m)) = k - (a + m) + b
      BY <1>2, <2>3
    <3>2. t[k - (a + m)] = c[b + (k - (a + m))]
      BY <1>1, <3>1
    <3> QED
      BY <1>2, <1>4, <2>3, <3>1, <3>2
  <2> QED
    BY <1>2, <2>1, <2>2, <2>3
<1> QED
  BY <1>4, <1>5 DEF Splice, SpliceAt, r, q, f, t, m, n

(* Two sequences of one length with the same members are one. *)
LEMMA SameMembers ==
  ASSUME NEW S, NEW n \in Nat, NEW d, NEW r \in Seq(S), Len(r) = n,
         \A k \in 1 .. n : d[k - 1] = r[k]
  PROVE  Sequence(d, n) = r
<1>1. \A k \in 1 .. n : r[k] \in S
  OBVIOUS
<1>2. r = [k \in 1 .. n |-> r[k]]
  OBVIOUS
<1> QED
  BY <1>1, <1>2 DEF Sequence

-----------------------------------------------------------------------------
(* What the commands do is what PageStore says. *)

(* The contents of a known allocation, byte by byte. *)
LEMMA ContentsOf ==
  ASSUME IInv, NEW id, Known(id)
  PROVE  LET c == Contents[id]
             d == memstore[id].data
             n == AllocSize(id) IN
         /\ id \in DOMAIN Contents /\ c \in Seq(BYTE) /\ Len(c) = n /\ n \in Nat
         /\ d \in [0 .. n - 1 -> BYTE] /\ DOMAIN d = 0 .. n - 1
         /\ \A k \in 1 .. n : d[k - 1] = c[k]
         /\ \A i \in 0 .. n - 1 : d[i] = c[i + 1]
<1>1. id \in DOMAIN Contents
  BY ContentsFacts DEF Known
<1> DEFINE c == Contents[id]
           d == memstore[id].data
           n == AllocSize(id)
<1>2. c \in Seq(BYTE) /\ Len(c) = n /\ \A k \in 1 .. n : c[k] = d[k - 1]
  BY <1>1, ContentsFacts
<1>3. n \in Nat /\ d \in [0 .. n - 1 -> BYTE]
  BY KnownFacts
<1> HIDE DEF c, d, n
<1>4. ASSUME NEW i \in 0 .. n - 1 PROVE d[i] = c[i + 1]
  <2>1. i + 1 \in 1 .. n /\ i + 1 - 1 = i
    BY <1>3
  <2> QED
    BY <1>2, <2>1
<1> QED
  BY <1>1, <1>2, <1>3, <1>4 DEF c, d, n

(* An allocation whose bytes are rewritten becomes their sequence. *)
LEMMA RewriteBecomes ==
  ASSUME IInv, NEW id, NEW d, NEW stream, Rewrites(id, d, stream),
         NEW r \in Seq(BYTE), Len(r) = AllocSize(id),
         \A k \in 1 .. AllocSize(id) : d[k - 1] = r[k]
  PROVE  Store!Becomes(id, r)
<1>1. Known(id)
  BY DEF Rewrites
<1>2. id \in DOMAIN Contents /\ AllocSize(id) \in Nat
  BY <1>1, ContentsOf
<1>3. Contents' = [Contents EXCEPT ![id] = Sequence(d, AllocSize(id))]
  BY RewritingKeepsSlots
<1>4. Sequence(d, AllocSize(id)) = r
  BY <1>2, SameMembers
<1> QED
  BY <1>2, <1>3, <1>4 DEF Store!Becomes, Store!Allocated

(* memcpy of s over a known allocation's bytes. *)
LEMMA CopiedInOverwrites ==
  ASSUME IInv, NEW id, NEW stream, NEW at \in Nat, NEW s \in Seq(BYTE),
         at + Len(s) <= AllocSize(id),
         Rewrites(id, CopiedIn(memstore[id].data, at, s), stream)
  PROVE  Store!Overwrite(id, at, s)
<1> DEFINE c == Contents[id]
           d == memstore[id].data
           n == AllocSize(id)
           m == Len(s)
           e == CopiedIn(d, at, s)
           r == Splice(c, s, at, at + m)
<1>1. /\ Known(id) /\ c \in Seq(BYTE) /\ Len(c) = n /\ n \in Nat
      /\ DOMAIN d = 0 .. n - 1 /\ \A k \in 1 .. n : d[k - 1] = c[k]
  BY ContentsOf DEF Rewrites
<1>2. m \in Nat /\ at + m <= n
  OBVIOUS
<1>3. /\ r \in Seq(BYTE) /\ Len(r) = at + m + (Len(c) - (at + m))
      /\ \A k \in 1 .. at + m + (Len(c) - (at + m)) :
           r[k] = IF k <= at THEN c[k]
                  ELSE IF k <= at + m THEN s[k - at]
                  ELSE c[k - (at + m) + (at + m)]
  <2>1. at \in 0 .. Len(c) /\ at + m \in 0 .. Len(c)
    BY <1>1, <1>2
  <2>2. c \in Seq(BYTE)
    BY <1>1
  <2> DEFINE b == at + m
  <2>3. b \in 0 .. Len(c)
    BY <2>1
  <2> HIDE DEF c, b
  <2>4. /\ Splice(c, s, at, b) \in Seq(BYTE)
        /\ Len(Splice(c, s, at, b)) = at + Len(s) + (Len(c) - b)
        /\ \A k \in 1 .. at + Len(s) + (Len(c) - b) :
             Splice(c, s, at, b)[k] = SpliceAt(c, s, at, b, k)
    BY <2>1, <2>2, <2>3, SpliceIs, Zenon
  <2> QED
    BY <2>4, Zenon DEF SpliceAt, b
<1> HIDE DEF c, n, m, r
<1>4. at + m + (Len(c) - (at + m)) = n
  BY <1>1, <1>2
<1>5. ASSUME NEW k \in 1 .. n PROVE e[k - 1] = r[k]
  <2>1. k - 1 \in 0 .. n - 1 /\ k - (at + m) + (at + m) = k
    BY <1>1, <1>2
  <2>2. e[k - 1] = IF k - 1 \in at .. at + m - 1 THEN s[k - 1 - at + 1] ELSE d[k - 1]
    BY <1>1, <2>1 DEF CopiedIn, m
  <2>3. r[k] = IF k <= at THEN c[k] ELSE IF k <= at + m THEN s[k - at] ELSE c[k]
    BY <1>3, <1>4, <2>1
  <2>4. d[k - 1] = c[k]
    BY <1>1
  <2>5. k - 1 - at + 1 = k - at
        /\ (k - 1 \in at .. at + m - 1 <=> ~(k <= at) /\ k <= at + m)
    BY <1>1, <1>2
  <2> HIDE DEF e, d
  <2> QED
    BY <2>2, <2>3, <2>4, <2>5
<1> HIDE DEF e, d
<1>6. r \in Seq(BYTE) /\ Len(r) = n
  BY <1>3, <1>4
<1>7. Store!Becomes(id, r)
  BY <1>5, <1>6, RewriteBecomes DEF n, e, d
<1> QED
  BY <1>1, <1>2, <1>7 DEF Store!Overwrite, Splice, r, m, c, n

(* SALLOC overwrites a page. *)
LEMMA StoreOverwrites ==
  ASSUME IInv, NEW id, NEW page, NEW s \in Seq(BYTE), StoreAlloc(id, page, s)
  PROVE  Store!Overwrite(id, page * PageSize(id), s)
BY StoreRewrites, CopiedInOverwrites

(* XALLOC cuts, zeros coming in at the end. *)
LEMMA CutCuts ==
  ASSUME IInv, NEW id, NEW at \in Nat, NEW m \in Nat, CutAlloc(id, at, m)
  PROVE  Store!Cut(id, at, m)
<1> DEFINE c == Contents[id]
           d == memstore[id].data
           n == AllocSize(id)
           e == MovedDown(d, at, m, n)
           f == Store!First(c, at)
           t == Store!From(c, at + m)
           z == Store!Zeros(m)
           q == f \o t
           r == q \o z
<1>1. Rewrites(id, e, memstore[id].file_id) /\ m > 0 /\ at + m < n
  BY CutRewrites
<1>2. /\ Known(id) /\ c \in Seq(BYTE) /\ Len(c) = n /\ n \in Nat
      /\ DOMAIN d = 0 .. n - 1 /\ \A i \in 0 .. n - 1 : d[i] = c[i + 1]
  BY <1>1, ContentsOf DEF Rewrites
<1>3. /\ f \in Seq(BYTE) /\ Len(f) = at /\ \A k \in 1 .. at : f[k] = c[k]
      /\ t \in Seq(BYTE) /\ Len(t) = n - (at + m)
      /\ \A k \in 1 .. n - (at + m) : t[k] = c[at + m + k]
  <2>1. at \in 0 .. Len(c) /\ at + m \in 0 .. Len(c)
    BY <1>1, <1>2
  <2> HIDE DEF c, n
  <2>2. f \in Seq(BYTE) /\ Len(f) = at /\ \A k \in 1 .. at : f[k] = c[k]
    BY <1>2, <2>1, PartsOf
  <2>3. /\ t \in Seq(BYTE) /\ Len(t) = Len(c) - (at + m)
        /\ \A k \in 1 .. Len(c) - (at + m) : t[k] = c[at + m + k]
    BY <1>2, <2>1, PartsOf
  <2> QED
    BY <1>2, <2>2, <2>3
<1>4. z \in Seq(BYTE) /\ Len(z) = m /\ \A k \in 1 .. m : z[k] = 0
  BY Numbers DEF Store!Zeros
<1> HIDE DEF c, n, f, t, z
<1>5. /\ q \in Seq(BYTE) /\ Len(q) = Len(f) + Len(t)
      /\ \A k \in 1 .. Len(f) + Len(t) : q[k] = IF k <= Len(f) THEN f[k] ELSE t[k - Len(f)]
  BY <1>3, JoinIs
<1>6. Len(f) + Len(t) = n - m
  BY <1>1, <1>2, <1>3
<1>7. Len(q) = n - m /\ q \in Seq(BYTE)
  BY <1>5, <1>6
<1>8. \A k \in 1 .. n - m : q[k] = IF k <= at THEN f[k] ELSE t[k - at]
  BY <1>3, <1>5, <1>6
<1> HIDE DEF q
<1>9. /\ r \in Seq(BYTE) /\ Len(r) = Len(q) + Len(z)
      /\ \A k \in 1 .. Len(q) + Len(z) : r[k] = IF k <= Len(q) THEN q[k] ELSE z[k - Len(q)]
  BY <1>4, <1>7, JoinIs
<1>10. Len(q) + Len(z) = n
  BY <1>1, <1>2, <1>4, <1>7
<1>11. Len(r) = n /\ r \in Seq(BYTE)
  BY <1>9, <1>10
<1>12. \A k \in 1 .. n : r[k] = IF k <= n - m THEN q[k] ELSE z[k - (n - m)]
  BY <1>7, <1>9, <1>10
<1> HIDE DEF r
<1>13. ASSUME NEW k \in 1 .. n PROVE e[k - 1] = r[k]
  <2>1. k - 1 \in 0 .. n - 1
    BY <1>2
  <2>2. e[k - 1] = IF k - 1 < at THEN d[k - 1]
                   ELSE IF k - 1 + m < n THEN d[k - 1 + m] ELSE 0
    BY <1>2, <2>1 DEF MovedDown
  <2> HIDE DEF e, d
  <2>3. CASE k <= at
    <3>1. k - 1 < at /\ k \in 1 .. at /\ k <= n - m /\ k \in 1 .. n - m /\ k - 1 + 1 = k
      BY <1>1, <1>2, <2>3
    <3>2. e[k - 1] = c[k]
      BY <1>2, <2>1, <2>2, <3>1
    <3>3. r[k] = c[k]
      BY <1>3, <1>8, <1>12, <2>3, <3>1
    <3> QED
      BY <3>2, <3>3
  <2>4. CASE ~(k <= at) /\ k <= n - m
    <3>1. /\ ~(k - 1 < at) /\ k - 1 + m < n /\ k - 1 + m \in 0 .. n - 1
          /\ k - 1 + m + 1 = k + m /\ k \in 1 .. n - m /\ k - at \in 1 .. n - (at + m)
          /\ at + m + (k - at) = k + m
      BY <1>1, <1>2, <2>4
    <3>2. d[k - 1 + m] = c[k - 1 + m + 1]
      BY <1>2, <3>1
    <3>3. e[k - 1] = c[k + m]
      BY <2>2, <3>1, <3>2
    <3>4. r[k] = t[k - at]
      BY <1>8, <1>12, <2>4, <3>1
    <3>5. t[k - at] = c[at + m + (k - at)]
      BY <1>3, <3>1
    <3> QED
      BY <3>1, <3>3, <3>4, <3>5
  <2>5. CASE ~(k <= n - m)
    <3>1. ~(k - 1 < at) /\ ~(k - 1 + m < n) /\ k - (n - m) \in 1 .. m
      BY <1>1, <1>2, <2>5
    <3> QED
      BY <1>4, <1>12, <2>2, <2>5, <3>1
  <2> QED
    BY <2>3, <2>4, <2>5
<1> HIDE DEF e, d
<1>14. Store!Becomes(id, r)
  BY <1>1, <1>11, <1>13, RewriteBecomes DEF n, e, d
<1> QED
  BY <1>1, <1>2, <1>14 DEF Store!Cut, r, q, f, t, z, c, n

(* memmove up and memcpy of s into the gap: the end falls off. *)
LEMMA InsertInserts ==
  ASSUME IInv, NEW id, NEW at \in Nat, NEW s \in Seq(BYTE), InsertAlloc(id, at, s)
  PROVE  Store!Insert(id, at, s)
<1> DEFINE c == Contents[id]
           d == memstore[id].data
           n == AllocSize(id)
           m == Len(s)
           u == MovedUp(d, at, m)
           e == CopiedIn(u, at, s)
           p == Splice(c, s, at, at)
           r == Store!First(p, n)
<1>1. /\ Rewrites(id, e, memstore[id].file_id)
      /\ s \in Seq(BYTE) /\ m > 0 /\ at + m < n
  BY InsertRewrites
<1>2. /\ Known(id) /\ c \in Seq(BYTE) /\ Len(c) = n /\ n \in Nat
      /\ DOMAIN d = 0 .. n - 1 /\ \A i \in 0 .. n - 1 : d[i] = c[i + 1]
  BY <1>1, ContentsOf DEF Rewrites
<1>3. m \in Nat
  BY <1>1
<1>4. /\ p \in Seq(BYTE) /\ Len(p) = at + m + (n - at)
      /\ \A k \in 1 .. at + m + (n - at) : p[k] = SpliceAt(c, s, at, at, k)
  <2>1. at \in 0 .. Len(c)
    BY <1>1, <1>2, <1>3
  <2>2. c \in Seq(BYTE) /\ s \in Seq(BYTE)
    BY <1>1, <1>2
  <2>3. Len(c) = n
    BY <1>2
  <2> HIDE DEF c, n
  <2>4. /\ p \in Seq(BYTE) /\ Len(p) = at + m + (Len(c) - at)
        /\ \A k \in 1 .. at + m + (Len(c) - at) : p[k] = SpliceAt(c, s, at, at, k)
    BY <2>1, <2>2, SpliceIs, Zenon
  <2> QED
    BY <2>3, <2>4, Zenon
<1> HIDE DEF c, n, m, p
<1>5. at + m + (n - at) = n + m
  BY <1>1, <1>2, <1>3
<1>6. r \in Seq(BYTE) /\ Len(r) = n /\ \A k \in 1 .. n : r[k] = p[k]
  <2>1. n \in 0 .. Len(p)
    BY <1>2, <1>3, <1>4, <1>5
  <2> QED
    BY <1>4, <2>1, PartsOf
<1> HIDE DEF r
<1>7. ASSUME NEW k \in 1 .. n PROVE e[k - 1] = r[k]
  <2>1. k - 1 \in 0 .. n - 1 /\ k \in 1 .. at + m + (n - at) /\ k - 1 + 1 = k
    BY <1>2, <1>3, <1>5
  <2>2. DOMAIN u = 0 .. n - 1
        /\ u[k - 1] = IF k - 1 >= at + m THEN d[k - 1 - m] ELSE d[k - 1]
    BY <1>2, <2>1 DEF MovedUp
  <2> HIDE DEF u
  <2>3. e[k - 1] = IF k - 1 \in at .. at + m - 1 THEN s[k - 1 - at + 1] ELSE u[k - 1]
    BY <2>1, <2>2 DEF CopiedIn, m
  <2>4. r[k] = IF k <= at THEN c[k] ELSE IF k <= at + m THEN s[k - at]
               ELSE c[k - (at + m) + at]
    BY <1>4, <1>6, <2>1, Zenon DEF SpliceAt, m
  <2> HIDE DEF e, d
  <2>5. CASE k <= at
    <3>1. /\ ~(k - 1 \in at .. at + m - 1) /\ ~(k - 1 >= at + m)
      BY <1>2, <1>3, <2>5
    <3>2. e[k - 1] = d[k - 1] /\ d[k - 1] = c[k]
      BY <1>2, <2>1, <2>2, <2>3, <3>1
    <3> QED
      BY <2>4, <2>5, <3>2
  <2>6. CASE ~(k <= at) /\ k <= at + m
    <3>1. k - 1 \in at .. at + m - 1 /\ k - 1 - at + 1 = k - at
      BY <1>2, <1>3, <2>6
    <3> QED
      BY <2>3, <2>4, <2>6, <3>1
  <2>7. CASE ~(k <= at + m)
    <3>1. /\ ~(k - 1 \in at .. at + m - 1) /\ k - 1 >= at + m /\ ~(k <= at)
          /\ k - 1 - m \in 0 .. n - 1 /\ k - 1 - m + 1 = k - m
          /\ k - (at + m) + at = k - m
      BY <1>2, <1>3, <2>7
    <3>2. d[k - 1 - m] = c[k - 1 - m + 1]
      BY <1>2, <3>1
    <3>3. e[k - 1] = c[k - m]
      BY <2>2, <2>3, <3>1, <3>2
    <3>4. r[k] = c[k - m]
      BY <2>4, <2>7, <3>1
    <3> QED
      BY <3>3, <3>4
  <2> QED
    BY <2>5, <2>6, <2>7
<1> HIDE DEF e, u, d
<1>8. Store!Becomes(id, r)
  BY <1>1, <1>6, <1>7, RewriteBecomes DEF n, e, u, d, m
<1> QED
  BY <1>1, <1>2, <1>3, <1>8 DEF Store!Insert, Splice, r, p, m, c, n

(* A file loaded into a cleared allocation leaves zeros after it. *)
LEMMA LoadIntoZeros ==
  ASSUME IInv, NEW id, NEW s \in Seq(BYTE), Len(s) <= AllocSize(id),
         Rewrites(id, CopiedIn(Cleared(memstore[id].data), 0, s), TRUE)
  PROVE  /\ Len(s) <= Len(Contents[id])
         /\ Store!Becomes(id, s \o Store!Zeros(Len(Contents[id]) - Len(s)))
<1> DEFINE c == Contents[id]
           d == memstore[id].data
           n == AllocSize(id)
           m == Len(s)
           u == Cleared(d)
           e == CopiedIn(u, 0, s)
           z == Store!Zeros(n - m)
           r == s \o z
<1>1. Known(id) /\ Len(c) = n /\ n \in Nat /\ DOMAIN d = 0 .. n - 1
  BY ContentsOf DEF Rewrites
<1>2. m \in Nat /\ m <= n
  OBVIOUS
<1> HIDE DEF n, m
<1>3. z \in Seq(BYTE) /\ Len(z) = n - m /\ \A k \in 1 .. n - m : z[k] = 0
  BY <1>1, <1>2, Numbers DEF Store!Zeros
<1> HIDE DEF z
<1>4. /\ r \in Seq(BYTE) /\ Len(r) = m + Len(z)
      /\ \A k \in 1 .. m + Len(z) : r[k] = IF k <= m THEN s[k] ELSE z[k - m]
  BY <1>3, JoinIs DEF m
<1> HIDE DEF r
<1>5. m + Len(z) = n
  BY <1>1, <1>2, <1>3
<1>6. ASSUME NEW k \in 1 .. n PROVE e[k - 1] = r[k]
  <2>1. k - 1 \in 0 .. n - 1
    BY <1>1
  <2>2. DOMAIN u = 0 .. n - 1 /\ u[k - 1] = 0
    BY <1>1, <2>1 DEF Cleared
  <2> HIDE DEF u
  <2>3. e[k - 1] = IF k - 1 \in 0 .. 0 + m - 1 THEN s[k - 1 - 0 + 1] ELSE u[k - 1]
    BY <2>1, <2>2 DEF CopiedIn, m
  <2> HIDE DEF e
  <2>4. r[k] = IF k <= m THEN s[k] ELSE z[k - m]
    BY <1>4, <1>5
  <2>5. CASE k <= m
    <3>1. k - 1 \in 0 .. 0 + m - 1 /\ k - 1 - 0 + 1 = k
      BY <1>1, <1>2, <2>5
    <3> QED
      BY <2>3, <2>4, <2>5, <3>1
  <2>6. CASE ~(k <= m)
    <3>1. ~(k - 1 \in 0 .. 0 + m - 1) /\ k - m \in 1 .. n - m
      BY <1>1, <1>2, <2>6
    <3> QED
      BY <1>3, <2>2, <2>3, <2>4, <2>6, <3>1
  <2> QED
    BY <2>5, <2>6
<1> HIDE DEF e, u, d
<1>7. Store!Becomes(id, r)
  BY <1>4, <1>5, <1>6, RewriteBecomes DEF n, e, u, d
<1> QED
  BY <1>1, <1>2, <1>7 DEF r, z, m, c, n

(* PILALLOC loads over what is there, or into a cleared allocation. *)
LEMMA LoadLoads ==
  ASSUME IInv, NEW id, NEW f \in FILE, LoadAlloc(id, f)
  PROVE  Store!Load(id, files[f])
<1> DEFINE s == files[f]
<1>1. /\ Rewrites(id, CopiedIn(BeforeLoad(id), 0, s), TRUE)
      /\ s \in Seq(BYTE) /\ Len(s) \in 1 .. AllocSize(id)
  BY LoadRewrites
<1> HIDE DEF s
<1>2. Len(s) <= AllocSize(id) /\ 0 + Len(s) <= AllocSize(id) /\ 0 \in Nat
  BY <1>1
<1>3. CASE memstore[id].file_id
  <2>1. BeforeLoad(id) = Cleared(memstore[id].data)
    BY <1>3 DEF BeforeLoad
  <2> QED
    BY <1>1, <1>2, <2>1, LoadIntoZeros DEF Store!Load, s
<1>4. CASE ~memstore[id].file_id
  <2>1. BeforeLoad(id) = memstore[id].data
    BY <1>4 DEF BeforeLoad
  <2>2. Store!Overwrite(id, 0, s)
    BY <1>1, <1>2, <2>1, CopiedInOverwrites
  <2> QED
    BY <2>2 DEF Store!Load, s
<1> QED
  BY <1>3, <1>4

(* The bytes read out of an allocation are a part of its sequence. *)
LEMMA BytesArePart ==
  ASSUME IInv, NEW id, Known(id), NEW a \in Nat, NEW w \in Nat, a + w <= AllocSize(id)
  PROVE  Bytes(memstore[id].data, a, w) = SubSeq(Contents[id], a + 1, a + w)
<1> DEFINE c == Contents[id]
           d == memstore[id].data
           n == AllocSize(id)
           r == SubSeq(c, a + 1, a + w)
<1>1. /\ c \in Seq(BYTE) /\ Len(c) = n /\ n \in Nat
      /\ \A i \in 0 .. n - 1 : d[i] = c[i + 1]
  BY ContentsOf
<1> HIDE DEF c, d, n
<1>2. a + w <= n
  BY DEF n
<1>3. \A i \in a + 1 .. a + w : c[i] \in BYTE
  BY <1>1, <1>2
<1>4. /\ r \in Seq(BYTE)
      /\ Len(r) = IF a + 1 <= a + w THEN a + w - (a + 1) + 1 ELSE 0
      /\ \A i \in 1 .. a + w - (a + 1) + 1 : r[i] = c[(a + 1) + i - 1]
  BY <1>3, SubSeqProperties
<1> HIDE DEF r
<1>5. Len(r) = w
  BY <1>4
<1>6. ASSUME NEW k \in 1 .. w PROVE d[a + k - 1] = r[k]
  <2>1. /\ k \in 1 .. a + w - (a + 1) + 1 /\ (a + 1) + k - 1 = a + k
        /\ a + k - 1 \in 0 .. n - 1 /\ a + k - 1 + 1 = a + k
    BY <1>1, <1>2
  <2>2. r[k] = c[(a + 1) + k - 1]
    BY <1>4, <2>1
  <2>3. d[a + k - 1] = c[a + k - 1 + 1]
    BY <1>1, <2>1
  <2> QED
    BY <2>1, <2>2, <2>3
<1>7. r = [k \in 1 .. w |-> r[k]]
  BY <1>4, <1>5
<1> QED
  BY <1>6, <1>7 DEF Bytes, c, d, r

(* RALLOC hands out a page. *)
LEMMA RetrieveHandsOutPage ==
  ASSUME IInv, NEW id, NEW page, RetrieveAlloc(id, page)
  PROVE  answer'.data = SubSeq(Contents[id], page * PageSize(id) + 1,
                               (page + 1) * PageSize(id))
<1>1. /\ Known(id) /\ page \in 0 .. memstore[id].number_pages - 1
      /\ answer'.data = Bytes(memstore[id].data, page * PageSize(id), PageSize(id))
  BY DEF RetrieveAlloc, HasPage, Answers
<1>2. /\ memstore[id].number_pages \in Nat /\ PageSize(id) \in Nat
      /\ AllocSize(id) = memstore[id].number_pages * PageSize(id)
  BY <1>1, KnownFacts
<1>3. /\ page * PageSize(id) \in Nat
      /\ page * PageSize(id) + PageSize(id) <= AllocSize(id)
      /\ (page + 1) * PageSize(id) = page * PageSize(id) + PageSize(id)
  BY <1>1, <1>2, PagesTimesSize
<1> QED
  BY <1>1, <1>2, <1>3, BytesArePart

(* PISALLOC writes the beginning of the allocation. *)
LEMMA SaveWritesBeginning ==
  ASSUME IInv, NEW id, NEW f \in FILE, NEW size \in Nat,
         SaveAlloc(id, f, size), answer'.error = 0
  PROVE  files'[f] = SubSeq(Contents[id], 1, size)
<1>1. Known(id) /\ size > 0 /\ size \in Nat
  BY MemstoreAssumption DEF SaveAlloc
<1>2. size <= AllocSize(id)
  BY DEF SaveAlloc, Answers
<1>3. files'[f] = Bytes(memstore[id].data, 0, size)
  BY <1>2 DEF SaveAlloc, IInv
<1>4. 0 + 1 = 1 /\ 0 + size = size /\ 0 \in Nat
  BY <1>1
<1> QED
  BY <1>1, <1>2, <1>3, <1>4, BytesArePart

(* What one slot becomes is nothing to the others. *)
LEMMA OthersAreKept ==
  ASSUME IInv, NEW id \in Slot, NEW a, SlotOK(a, id), Becomes(id, a)
  PROVE  \A i \in AllocId : i # id =>
           /\ i \in DOMAIN Contents' <=> i \in DOMAIN Contents
           /\ i \in DOMAIN Contents => Contents'[i] = Contents[i]
<1>1. \A i \in Slot : i # id => memstore'[i] = memstore[i]
  BY SlotBecomes
<1> SUFFICES ASSUME NEW i \in AllocId, i # id
             PROVE  /\ i \in DOMAIN Contents' <=> i \in DOMAIN Contents
                    /\ i \in DOMAIN Contents => Contents'[i] = Contents[i]
  OBVIOUS
<1>2. memstore'[i] = memstore[i]
  BY <1>1, Numbers
<1>3. (Known(i)' <=> Known(i)) /\ AllocSize(i)' = AllocSize(i)
  BY <1>2 DEF Known, AllocSize
<1>4. DOMAIN Contents = {j \in AllocId : Known(j)} /\ DOMAIN Contents' = {j \in AllocId : Known(j)'}
  BY DEF Contents
<1>5. i \in DOMAIN Contents' <=> i \in DOMAIN Contents
  BY <1>3, <1>4
<1>6. ASSUME i \in DOMAIN Contents PROVE Contents'[i] = Contents[i]
  <2>1. Contents[i] = [k \in 1 .. AllocSize(i) |-> memstore[i].data[0 + k - 1]]
    BY <1>4, <1>6 DEF Contents, Bytes
  <2>2. Contents'[i] = [k \in 1 .. AllocSize(i)' |-> memstore'[i].data[0 + k - 1]]
    BY <1>4, <1>5, <1>6 DEF Contents, Bytes
  <2> QED
    BY <1>2, <1>3, <2>1, <2>2
<1> QED
  BY <1>5, <1>6

(* FALLOC of an allocation takes it away, and no other. *)
LEMMA FreeFrees ==
  ASSUME IInv, NEW id, FreeAlloc(id), id # 0
  PROVE  Store!Free(id)
<1>1. /\ id \in Slot /\ id \in AllocId /\ memstore[id].allocation_id = id
      /\ Becomes(id, FreeSlot)
  BY DEF FreeAlloc, Becomes, AllocId
<1>2. Known(id) /\ id \in DOMAIN Contents
  BY <1>1, ContentsFacts DEF Known
<1>3. memstore'[id] = FreeSlot
  BY <1>1, FreeSlotOK, SlotBecomes
<1>4. ~Known(id)'
  BY <1>3, FreeSlotOK DEF Known
<1>5. /\ DOMAIN Contents \subseteq AllocId /\ DOMAIN Contents' \subseteq AllocId
      /\ id \notin DOMAIN Contents'
  BY <1>4 DEF Contents
<1>6. \A i \in AllocId : i # id =>
           /\ i \in DOMAIN Contents' <=> i \in DOMAIN Contents
           /\ i \in DOMAIN Contents => Contents'[i] = Contents[i]
  BY <1>1, FreeSlotOK, OthersAreKept
<1>7. DOMAIN Contents' = DOMAIN Contents \ {id}
  BY <1>5, <1>6
<1>8. Contents' = [i \in DOMAIN Contents' |-> Contents'[i]]
  BY DEF Contents
<1> HIDE DEF Contents
<1>9. Contents' = [i \in DOMAIN Contents \ {id} |-> Contents[i]]
  BY <1>5, <1>6, <1>7, <1>8
<1> QED
  BY <1>2, <1>9 DEF Store!Free, Store!Allocated, Store!Restrict

(* CALLOC adds an allocation of zeros under a name that was free. *)
LEMMA CreateCreates ==
  ASSUME IInv, NEW pages, NEW kb, CreateAlloc(pages, kb)
  PROVE  Store!Create(answer'.id, pages * kb * KB)
<1> DEFINE n == pages * kb * KB
<1>0. PICK id : id = Min(FreeIds)
  OBVIOUS
<1> DEFINE a == NewAllocation(id, pages, kb)
<1>1. /\ id \in AllocId /\ id \in Slot /\ id # 0
      /\ memstore[id].allocation_id = 0
      /\ SlotOK(a, id) /\ Becomes(id, a)
      /\ pages \in Nat /\ kb * KB \in Nat /\ pages * (kb * KB) = n /\ n \in Nat
      /\ answer' = [command |-> "CALLOC", id |-> id, error |-> 0, data |-> << >>]
  BY <1>0, CreateFacts
<1>2. /\ a.allocation_id = id /\ a.number_pages = pages /\ a.page_size = kb * KB
      /\ a.data = [i \in 0 .. n - 1 |-> 0]
  BY DEF NewAllocation
<1> HIDE DEF a, n
<1>3. memstore'[id] = a
  BY <1>1, SlotBecomes
<1>4. Known(id)' /\ ~Known(id)
  BY <1>1, <1>2, <1>3 DEF Known
<1>5. AllocSize(id)' = n
  <2>1. AllocSize(id)' = a.page_size * a.number_pages
    BY <1>3, <1>4 DEF AllocSize
  <2>2. (kb * KB) * pages = pages * (kb * KB)
    BY <1>1
  <2> QED
    BY <1>1, <1>2, <2>1, <2>2
<1>6. /\ DOMAIN Contents \subseteq AllocId /\ DOMAIN Contents' \subseteq AllocId
      /\ id \in DOMAIN Contents' /\ id \notin DOMAIN Contents
  BY <1>1, <1>4 DEF Contents
<1>7. Contents'[id] = Store!Zeros(n)
  <2>1. Contents'[id] = [k \in 1 .. AllocSize(id)' |-> memstore'[id].data[0 + k - 1]]
    BY <1>1, <1>4 DEF Contents, Bytes
  <2>2. \A k \in 1 .. n : 0 + k - 1 \in 0 .. n - 1
    BY <1>1
  <2>3. \A k \in 1 .. n : a.data[0 + k - 1] = 0
    BY <1>2, <2>2
  <2> QED
    BY <1>3, <1>5, <2>1, <2>3 DEF Store!Zeros
<1>8. \A i \in AllocId : i # id =>
           /\ i \in DOMAIN Contents' <=> i \in DOMAIN Contents
           /\ i \in DOMAIN Contents => Contents'[i] = Contents[i]
  BY <1>1, OthersAreKept
<1>9. DOMAIN Contents' = DOMAIN Contents \cup {id}
  BY <1>6, <1>8
<1>10. Contents' = [i \in DOMAIN Contents' |-> Contents'[i]]
  BY DEF Contents
<1> HIDE DEF Contents
<1>11. \A i \in DOMAIN Contents' :
         Contents'[i] = IF i = id THEN Store!Zeros(n) ELSE Contents[i]
  BY <1>6, <1>7, <1>8, <1>9
<1>12. Contents' = [i \in DOMAIN Contents \cup {id} |->
                      IF i = id THEN Store!Zeros(n) ELSE Contents[i]]
  BY <1>9, <1>10, <1>11
<1>13. answer'.id = id
  BY <1>1
<1>14. Store!Create(id, n)
  BY <1>1, <1>6, <1>12 DEF Store!Create, Store!Allocated
<1> QED
  BY <1>13, <1>14 DEF n

-----------------------------------------------------------------------------

(* Every command that is answered without an error has done what PageStore  *)
(* says, and to no allocation but the one it names.                         *)
THEOREM CommandsAreSplices == Spec => CommandsSplice
<1>1. ASSUME IInv, Next PROVE Splices
  <2>1. Kept
    BY <1>1, NextKeeps
  <2>2. ASSUME answer'.command = "FALLOC", answer'.error = 0, answer'.id # 0
        PROVE  Store!Free(answer'.id)
    BY <1>1, <2>1, <2>2, FreeFrees DEF Kept, AnswerTells
  <2>3. ASSUME answer'.command = "PISALLOC", answer'.error = 0
        PROVE  /\ Contents' = Contents
               /\ \A id \in AllocId, f \in FILE, size \in FILE_SIZE :
                    SaveAlloc(id, f, size) => files'[f] = SubSeq(Contents[id], 1, size)
    <3>1. FILE_SIZE \subseteq Nat
      BY MemstoreAssumption
    <3> QED
      BY <1>1, <2>1, <2>3, <3>1, SaveWritesBeginning DEF Kept, AnswerTells
  <2>4. \A pages \in 1 .. MAX_PAGES, kb \in 1 .. MAX_PAGE_KB :
          CreateAlloc(pages, kb) => Store!Create(answer'.id, pages * kb * KB)
    BY <1>1, CreateCreates
  <2>5. \A id \in AllocId, page \in 0 .. MAX_PAGES - 1 :
          RetrieveAlloc(id, page) =>
            answer'.data = SubSeq(Contents[id], page * PageSize(id) + 1,
                                  (page + 1) * PageSize(id))
    BY <1>1, RetrieveHandsOutPage
  <2>6. \A id \in AllocId, page \in 0 .. MAX_PAGES - 1, s \in DATA :
          StoreAlloc(id, page, s) => Store!Overwrite(id, page * PageSize(id), s)
    BY <1>1, MemstoreAssumption, StoreOverwrites
  <2>7. \A id \in AllocId, at \in Size, s \in DATA :
          InsertAlloc(id, at, s) => Store!Insert(id, at, s)
    BY <1>1, SpansAreNumbers, MemstoreAssumption, InsertInserts
  <2>8. \A id \in AllocId, r \in Span :
          CutAlloc(id, r[1], r[2]) => Store!Cut(id, r[1], r[2])
    BY <1>1, SpansAreNumbers, CutCuts
  <2>9. \A id \in AllocId, f \in FILE :
          LoadAlloc(id, f) => Store!Load(id, files[f])
    BY <1>1, LoadLoads
  <2> QED
    BY <2>2, <2>3, <2>4, <2>5, <2>6, <2>7, <2>8, <2>9 DEF Splices
<1> QED
  BY <1>1, Invariance, PTL DEF Spec, CommandsSplice

-----------------------------------------------------------------------------
(* The test: what is kept. *)

(* Each part has its own command in the middle. *)
InPart(command, p) ==
  /\ command \in {"RALLOC", "SALLOC"} => p = 1
  /\ command = "IALLOC" => p = 2
  /\ command = "XALLOC" => p = 3
  /\ command = "end" => p = 3

ClientTyped ==
  /\ part \in 1 .. 3 /\ next \in Commands \cup {"end"} /\ InPart(next, part)
  /\ doing \in {"send", "answer", "page"}
  /\ doing # "send" => next # "end"
  /\ doing = "page" => next = "RALLOC"
  /\ buffer \in Seq(BYTE) /\ Len(buffer) \in {0, KB}
  /\ doing = "send" /\ next = "SALLOC" => Len(buffer) = KB
  /\ failed \in BOOLEAN /\ fresh \in BOOLEAN /\ runs \in 0 .. MaxRuns

Requests == [command : Commands, part : 1 .. 3, run : Nat, whole : BOOLEAN, page : Seq(BYTE)]

RequestsTyped ==
  /\ requests \in Seq(Requests)
  /\ \A i \in 1 .. Len(requests) :
       /\ InPart(requests[i].command, requests[i].part)
       /\ requests[i].command = "SALLOC" => Len(requests[i].page) = KB

(* There is no error in a page. *)
Packets ==
  [type : {"BinaryCommand"}, error : 0 .. 3, data : Seq(BYTE)]
    \cup [type : {"BinaryData"}, error : {0}, data : Seq(BYTE)]

(* A page that is read from its beginning is a page. *)
PacketsTyped ==
  /\ out_queue \in Seq(Packets) /\ begun \in BOOLEAN /\ lock \in BOOLEAN
  /\ begun => out_queue # << >>
  /\ \A i \in 1 .. Len(out_queue) :
       out_queue[i].type = "BinaryData" /\ (begun => i > 1) => Len(out_queue[i].data) = KB

(* The command the test sends next. *)
Coming ==
  IF doing = "send" THEN Request(TRUE)
  ELSE [command |-> NextCommand(next, part), part |-> NextPart(next, part),
        run |-> runs, whole |-> TRUE, page |-> << >>]

(* The commands to be carried out, and the one to be sent behind them. *)
Ask(i) == IF i <= Len(requests) THEN requests[i] ELSE Coming
Now    == Ask(1)

(* A command is followed by the next one of its run, or by the first of a   *)
(* later run.                                                               *)
Follows(a, b) ==
  \/ /\ a.whole /\ b.run = a.run
     /\ b.command = NextCommand(a.command, a.part) /\ b.part = NextPart(a.command, a.part)
  \/ b.run > a.run /\ b.command = "CALLOC" /\ b.part = 1

(* What is behind a cut command is of a later run. *)
Later(a, b) == a.run <= b.run /\ (~a.whole => a.run < b.run)

InLine ==
  /\ \A i \in 1 .. Len(requests) : Follows(Ask(i), Ask(i + 1))
  /\ \A i \in 1 .. Len(requests), j \in 1 .. Len(requests) + 1 :
       i < j => Later(Ask(i), Ask(j))

(* A run that found nothing under way is alone with the server. *)
Lockstep ==
  fresh =>
    /\ ~begun
    /\ \/ doing = "send" /\ requests = << >> /\ out_queue = << >>
       \/ /\ doing = "answer" /\ Len(requests) = 1 /\ out_queue = << >>
          /\ requests[1].whole /\ requests[1].command = next /\ requests[1].part = part
          /\ requests[1].run = runs
       \/ /\ doing = "answer" /\ requests = << >> /\ Len(out_queue) = 1
          /\ out_queue[1].type = "BinaryCommand"
          /\ next = "RALLOC" => out_queue[1].error # 0
       \/ /\ doing = "answer" /\ requests = << >> /\ Len(out_queue) = 2 /\ next = "RALLOC"
          /\ out_queue[1].type = "BinaryCommand" /\ out_queue[2].type = "BinaryData"
       \/ /\ doing = "page" /\ requests = << >>
          /\ Len(out_queue) = 1 /\ out_queue[1].type = "BinaryData"
       \/ doing = "page" /\ requests = << >> /\ out_queue = << >> /\ failed

(* Nobody but the test allocates, and it wants pages of one kilobyte. *)
Taken == {i \in AllocId : Known(i)}

SmallPages == \A i \in Taken : memstore[i].page_size = KB

(* Between its CALLOC and its FALLOC a run may have one allocation more, if *)
(* the first is taken: only that one is freed.                              *)
Counted ==
  /\ Cardinality(Taken) <= Now.run
  /\ Now.command = "CALLOC" \/ (Now.command # "end" /\ ~Known(1)) =>
       Cardinality(Taken) < Now.run

(* What is freed has been saved, which has closed its stream. *)
StreamClosed == Now.command = "FALLOC" /\ Known(1) => memstore[1].file_id = FALSE

(* The script is what it was at the start. *)
ScriptStays == \E f \in FIRST_FILES : files[Script] = f[Script]

(* The first n bytes of data are those of s. *)
Begins(data, n, s) == \A k \in 1 .. n : data[k - 1] = s[k]

Done(p) == p < Now.part \/ (p = Now.part /\ Now.command \in {"FALLOC", "end"})

SavedSoFar ==
  \A p \in 1 .. 3 : Done(p) => files[Saved[p]] = SubSeq(Intended[p], 1, SAVE[p])

(* The page that SALLOC is going to store: with it, in the response buffer, *)
(* or still to be read.                                                     *)
InHand ==
  IF requests # << >> THEN requests[1].page
  ELSE IF doing = "send" THEN buffer
  ELSE Edited(out_queue[Len(out_queue)].data)

(* What a run without an error finds at each place: after the first part    *)
(* the allocation is a new one.                                             *)
Work ==
  /\ Now.command = "CALLOC" /\ Now.part > 1 => ~Known(1)
  /\ Now.command = "PILALLOC" /\ Now.part > 1 =>
       \A k \in 1 .. KB : memstore[1].data[k - 1] = 0
  /\ Now.command \in {"RALLOC", "SALLOC", "IALLOC", "XALLOC", "PISALLOC"} =>
       Known(1) /\ files[Script] \in Seq(BYTE)
  /\ Now.command = "RALLOC" => Begins(memstore[1].data, CHANGE_AT, Page)
  /\ Now.command \in {"IALLOC", "XALLOC"} => Begins(memstore[1].data, KB, Page)
  /\ Now.command = "SALLOC" => \A k \in 1 .. SAVE[1] : InHand[k] = Intended[1][k]
  /\ Now.command = "PISALLOC" =>
       Begins(memstore[1].data, SAVE[Now.part], Intended[Now.part])

(* A run that found nothing under way, and no error yet. *)
Good == fresh /\ ~failed /\ \A i \in 1 .. Len(out_queue) : out_queue[i].error = 0

InGoodOrder == Good => SavedSoFar /\ Work

Wellformed == ClientTyped /\ RequestsTyped /\ PacketsTyped /\ InLine /\ Lockstep

StoreKept == IInv /\ SmallPages /\ Counted /\ StreamClosed /\ ScriptStays

TestInv == Wellformed /\ StoreKept /\ InGoodOrder

-----------------------------------------------------------------------------
(* The numbers of the test, and what it intends. *)

(* The constants are what the arithmetic of the proofs takes them to be. *)
LEMMA TestNumbers ==
  /\ KB \in Nat /\ KB > 0 /\ MaxRuns \in Nat
  /\ Script \in FILE
  /\ \A p \in 1 .. 3 : /\ Saved[p] \in FILE /\ Saved[p] # Script
                       /\ PAGES[p] \in Nat /\ PAGES[p] > 0
                       /\ SAVE[p] \in Nat /\ SAVE[p] > 0 /\ SAVE[p] <= KB
  /\ \A p, q \in 1 .. 3 : Saved[p] = Saved[q] => p = q
  /\ CHANGE \in Seq(BYTE) /\ Len(CHANGE) \in Nat /\ CHANGE_AT \in Nat
  /\ CHANGE_AT + Len(CHANGE) < KB /\ SAVE[1] <= CHANGE_AT + Len(CHANGE)
  /\ INSERT \in Seq(BYTE) /\ Len(INSERT) \in Nat /\ INSERT_AT \in Nat /\ INSERT_AT <= KB
  /\ CUT \in Nat /\ CUT_AT \in Nat /\ CUT_AT + CUT <= KB /\ SAVE[3] + CUT <= KB
<1>1. /\ KB \in Nat /\ KB > 0 /\ MaxRuns \in Nat /\ MAX_PAGES \in Nat
      /\ MAX_PAGE_KB \in Nat
  BY Numbers, AllocTestAssumption
<1>2. /\ Script \in FILE /\ Saved \in [1 .. 3 -> FILE \ {Script}]
      /\ PAGES \in [1 .. 3 -> 1 .. MAX_PAGES] /\ SAVE \in [1 .. 3 -> 1 .. KB]
      /\ \A p, q \in 1 .. 3 : Saved[p] = Saved[q] => p = q
  BY AllocTestAssumption
<1>3. \A p \in 1 .. 3 : /\ Saved[p] \in FILE /\ Saved[p] # Script
                        /\ PAGES[p] \in Nat /\ PAGES[p] > 0
                        /\ SAVE[p] \in Nat /\ SAVE[p] > 0 /\ SAVE[p] <= KB
  BY <1>1, <1>2
<1>4. /\ CHANGE \in Seq(BYTE) /\ CHANGE_AT \in Nat
      /\ CHANGE_AT + Len(CHANGE) < KB /\ SAVE[1] <= CHANGE_AT + Len(CHANGE)
      /\ INSERT \in Seq(BYTE) /\ INSERT_AT \in 0 .. KB
      /\ CUT \in Nat /\ CUT_AT \in Nat /\ CUT_AT + CUT <= KB /\ SAVE[3] + CUT <= KB
  BY AllocTestAssumption
<1>5. Len(CHANGE) \in Nat /\ Len(INSERT) \in Nat /\ INSERT_AT \in Nat /\ INSERT_AT <= KB
  BY <1>1, <1>4
<1> QED
  BY <1>1, <1>2, <1>3, <1>4, <1>5

(* The script in a new page is KB bytes. *)
LEMMA PageIs ==
  ASSUME files[Script] \in Seq(BYTE)
  PROVE  /\ Page \in Seq(BYTE) /\ Len(Page) = KB
         /\ \A k \in 1 .. KB :
              Page[k] = IF k <= Len(files[Script]) THEN files[Script][k] ELSE 0
         /\ \A n \in 0 .. KB : Before(n) = Store!First(Page, n)
                               /\ After(n) = Store!From(Page, n)
<1> DEFINE s == files[Script]
<1>1. KB \in Nat /\ s \in Seq(BYTE) /\ 0 \in BYTE
  BY TestNumbers, Numbers
<1>2. \A k \in 1 .. KB : Page[k] = IF k <= Len(s) THEN s[k] ELSE 0
  BY DEF Page
<1>3. \A k \in 1 .. KB : Page[k] \in BYTE
  <2>1. Len(s) \in Nat /\ \A k \in 1 .. Len(s) : s[k] \in BYTE
    BY <1>1
  <2> HIDE DEF s
  <2> QED
    BY <1>1, <1>2, <2>1
<1>4. Page = [k \in 1 .. KB |-> Page[k]]
  BY DEF Page
<1>5. Page \in [1 .. KB -> BYTE]
  BY <1>3, <1>4
<1>6. Page \in Seq(BYTE) /\ Len(Page) = KB
  BY <1>1, <1>5
<1>7. \A n \in 0 .. KB : Before(n) = Store!First(Page, n)
                         /\ After(n) = Store!From(Page, n)
  BY <1>6 DEF Before, After, Store!First, Store!From
<1> QED
  BY <1>2, <1>6, <1>7

(* The bytes of the three files, as far as they are saved. *)
LEMMA IntendedIs ==
  ASSUME files[Script] \in Seq(BYTE)
  PROVE  /\ \A p \in 1 .. 3 : Intended[p] \in Seq(BYTE) /\ SAVE[p] <= Len(Intended[p])
         /\ \A k \in 1 .. SAVE[1] :
              Intended[1][k] = IF k <= CHANGE_AT THEN Page[k] ELSE CHANGE[k - CHANGE_AT]
         /\ \A k \in 1 .. SAVE[2] :
              Intended[2][k] = IF k <= INSERT_AT THEN Page[k]
                               ELSE IF k <= INSERT_AT + Len(INSERT)
                                 THEN INSERT[k - INSERT_AT]
                               ELSE Page[k - Len(INSERT)]
         /\ \A k \in 1 .. SAVE[3] :
              Intended[3][k] = IF k <= CUT_AT THEN Page[k] ELSE Page[k + CUT]
<1> DEFINE c == Page
           m == Len(CHANGE)
           n == Len(INSERT)
           r1 == Splice(c, CHANGE, CHANGE_AT, CHANGE_AT + m)
           r2 == Splice(c, INSERT, INSERT_AT, INSERT_AT)
           f == Store!First(c, CUT_AT)
           t == Store!From(c, CUT_AT + CUT)
           r3 == f \o t
<1>1. /\ KB \in Nat /\ m \in Nat /\ CHANGE_AT \in Nat /\ CHANGE_AT + m < KB
      /\ n \in Nat /\ INSERT_AT \in Nat /\ INSERT_AT <= KB
      /\ CUT \in Nat /\ CUT_AT \in Nat /\ CUT_AT + CUT <= KB
      /\ SAVE[1] \in Nat /\ SAVE[1] <= CHANGE_AT + m
      /\ SAVE[2] \in Nat /\ SAVE[2] <= KB /\ SAVE[3] \in Nat /\ SAVE[3] + CUT <= KB
      /\ CHANGE \in Seq(BYTE) /\ INSERT \in Seq(BYTE)
  <2>1. 1 \in 1 .. 3 /\ 2 \in 1 .. 3 /\ 3 \in 1 .. 3
    OBVIOUS
  <2> QED
    BY <2>1, TestNumbers, Zenon
<1>2. c \in Seq(BYTE) /\ Len(c) = KB
  BY PageIs
<1>3. Intended = <<r1, r2, r3>>
  <2>1. \A a \in 0 .. KB : Before(a) = Store!First(Page, a) /\ After(a) = Store!From(Page, a)
    BY PageIs
  <2>2. /\ CHANGE_AT \in 0 .. KB /\ CHANGE_AT + m \in 0 .. KB /\ INSERT_AT \in 0 .. KB
        /\ CUT_AT \in 0 .. KB /\ CUT_AT + CUT \in 0 .. KB
    BY <1>1
  <2> QED
    BY <2>1, <2>2 DEF Intended, Splice
<1> HIDE DEF c, m
<1>4. /\ r1 \in Seq(BYTE) /\ Len(r1) = CHANGE_AT + m + (KB - (CHANGE_AT + m))
      /\ \A k \in 1 .. CHANGE_AT + m + (KB - (CHANGE_AT + m)) :
           r1[k] = SpliceAt(c, CHANGE, CHANGE_AT, CHANGE_AT + m, k)
  <2>1. CHANGE_AT \in 0 .. Len(c) /\ CHANGE_AT + m \in 0 .. Len(c)
    BY <1>1, <1>2
  <2> HIDE DEF r1
  <2>2. /\ r1 \in Seq(BYTE) /\ Len(r1) = CHANGE_AT + Len(CHANGE) + (Len(c) - (CHANGE_AT + m))
        /\ \A k \in 1 .. CHANGE_AT + Len(CHANGE) + (Len(c) - (CHANGE_AT + m)) :
             r1[k] = SpliceAt(c, CHANGE, CHANGE_AT, CHANGE_AT + m, k)
    BY <1>1, <1>2, <2>1, SpliceIs, Zenon DEF r1
  <2> QED
    BY <1>2, <2>2 DEF m
<1> HIDE DEF n, r1, r2
<1>5. \A k \in 1 .. SAVE[1] :
        r1[k] = IF k <= CHANGE_AT THEN c[k] ELSE CHANGE[k - CHANGE_AT]
  <2> SUFFICES ASSUME NEW k \in 1 .. SAVE[1]
               PROVE  r1[k] = IF k <= CHANGE_AT THEN c[k] ELSE CHANGE[k - CHANGE_AT]
    OBVIOUS
  <2>1. k \in Nat /\ k <= CHANGE_AT + m /\ k \in 1 .. CHANGE_AT + m + (KB - (CHANGE_AT + m))
    BY <1>1
  <2>2. r1[k] = SpliceAt(c, CHANGE, CHANGE_AT, CHANGE_AT + m, k)
    BY <1>4, <2>1
  <2> QED
    BY <2>1, <2>2 DEF SpliceAt, m
<1>6. /\ r2 \in Seq(BYTE) /\ Len(r2) = INSERT_AT + n + (KB - INSERT_AT)
      /\ \A k \in 1 .. INSERT_AT + n + (KB - INSERT_AT) :
           r2[k] = SpliceAt(c, INSERT, INSERT_AT, INSERT_AT, k)
  <2>1. INSERT_AT \in 0 .. Len(c)
    BY <1>1, <1>2
  <2>2. /\ r2 \in Seq(BYTE) /\ Len(r2) = INSERT_AT + Len(INSERT) + (Len(c) - INSERT_AT)
        /\ \A k \in 1 .. INSERT_AT + Len(INSERT) + (Len(c) - INSERT_AT) :
             r2[k] = SpliceAt(c, INSERT, INSERT_AT, INSERT_AT, k)
    BY <1>1, <1>2, <2>1, SpliceIs, Zenon DEF r2
  <2> QED
    BY <1>2, <2>2 DEF n
<1>7. \A k \in 1 .. SAVE[2] :
        r2[k] = IF k <= INSERT_AT THEN c[k]
                ELSE IF k <= INSERT_AT + n THEN INSERT[k - INSERT_AT] ELSE c[k - n]
  <2> SUFFICES ASSUME NEW k \in 1 .. SAVE[2]
               PROVE  r2[k] = IF k <= INSERT_AT THEN c[k]
                              ELSE IF k <= INSERT_AT + n THEN INSERT[k - INSERT_AT]
                              ELSE c[k - n]
    OBVIOUS
  <2>1. k \in Nat /\ k \in 1 .. INSERT_AT + n + (KB - INSERT_AT)
    BY <1>1
  <2>2. r2[k] = SpliceAt(c, INSERT, INSERT_AT, INSERT_AT, k)
    BY <1>6, <2>1
  <2>3. k - (INSERT_AT + n) + INSERT_AT = k - n
    BY <1>1, <2>1
  <2> QED
    BY <2>2, <2>3 DEF SpliceAt, n
<1>8. /\ f \in Seq(BYTE) /\ Len(f) = CUT_AT /\ \A k \in 1 .. CUT_AT : f[k] = c[k]
      /\ t \in Seq(BYTE) /\ Len(t) = KB - (CUT_AT + CUT)
      /\ \A k \in 1 .. KB - (CUT_AT + CUT) : t[k] = c[CUT_AT + CUT + k]
  <2>1. CUT_AT \in 0 .. Len(c) /\ CUT_AT + CUT \in 0 .. Len(c)
    BY <1>1, <1>2
  <2> QED
    BY <1>2, <2>1, PartsOf
<1> HIDE DEF f, t, r3
<1>9. /\ r3 \in Seq(BYTE) /\ Len(r3) = CUT_AT + (KB - (CUT_AT + CUT))
      /\ \A k \in 1 .. CUT_AT + (KB - (CUT_AT + CUT)) :
           r3[k] = IF k <= CUT_AT THEN f[k] ELSE t[k - CUT_AT]
  BY <1>8, JoinIs DEF r3
<1>10. \A k \in 1 .. SAVE[3] : r3[k] = IF k <= CUT_AT THEN c[k] ELSE c[k + CUT]
  <2> SUFFICES ASSUME NEW k \in 1 .. SAVE[3]
               PROVE  r3[k] = IF k <= CUT_AT THEN c[k] ELSE c[k + CUT]
    OBVIOUS
  <2>1. /\ k \in Nat /\ k > 0 /\ k + CUT <= KB
        /\ k \in 1 .. CUT_AT + (KB - (CUT_AT + CUT))
    BY <1>1
  <2>2. r3[k] = IF k <= CUT_AT THEN f[k] ELSE t[k - CUT_AT]
    BY <1>9, <2>1
  <2>3. CASE k <= CUT_AT
    <3>1. k \in 1 .. CUT_AT
      BY <1>1, <2>1, <2>3
    <3> QED
      BY <1>8, <2>2, <2>3, <3>1
  <2>4. CASE k > CUT_AT
    <3>1. k - CUT_AT \in 1 .. KB - (CUT_AT + CUT) /\ CUT_AT + CUT + (k - CUT_AT) = k + CUT
          /\ ~(k <= CUT_AT)
      BY <1>1, <2>1, <2>4
    <3>2. t[k - CUT_AT] = c[CUT_AT + CUT + (k - CUT_AT)]
      BY <1>8, <3>1
    <3> QED
      BY <2>2, <3>1, <3>2
  <2> QED
    BY <1>1, <2>1, <2>3, <2>4
<1>11. Len(r1) = KB /\ Len(r2) = KB + n /\ Len(r3) = KB - CUT
  BY <1>1, <1>4, <1>6, <1>9
<1>12. Intended[1] = r1 /\ Intended[2] = r2 /\ Intended[3] = r3
  BY <1>3
<1>13. \A p \in 1 .. 3 : Intended[p] \in Seq(BYTE) /\ SAVE[p] <= Len(Intended[p])
  <2>1. /\ Intended[1] \in Seq(BYTE) /\ Intended[2] \in Seq(BYTE)
        /\ Intended[3] \in Seq(BYTE)
    BY <1>4, <1>6, <1>9, <1>12
  <2>2. SAVE[1] <= Len(r1) /\ SAVE[2] <= Len(r2) /\ SAVE[3] <= Len(r3)
    <3> DEFINE l1 == Len(r1)
               l2 == Len(r2)
               l3 == Len(r3)
               s1 == SAVE[1]
               s2 == SAVE[2]
               s3 == SAVE[3]
    <3>1. /\ KB \in Nat /\ m \in Nat /\ CHANGE_AT \in Nat /\ CHANGE_AT + m < KB
          /\ n \in Nat /\ CUT \in Nat /\ s1 \in Nat /\ s1 <= CHANGE_AT + m
          /\ s2 \in Nat /\ s2 <= KB /\ s3 \in Nat /\ s3 + CUT <= KB
          /\ l1 = KB /\ l2 = KB + n /\ l3 = KB - CUT
      BY <1>1, <1>11
    <3> HIDE DEF l1, l2, l3, s1, s2, s3
    <3>2. s1 <= l1 /\ s2 <= l2 /\ s3 <= l3
      BY <3>1
    <3> QED
      BY <3>2 DEF l1, l2, l3, s1, s2, s3
  <2>3. \A p \in 1 .. 3 : p = 1 \/ p = 2 \/ p = 3
    OBVIOUS
  <2> QED
    BY <1>12, <2>1, <2>2, <2>3, Zenon
<1> QED
  BY <1>5, <1>7, <1>10, <1>12, <1>13 DEF c, n

(* A file that is saved from an allocation beginning with s begins with s. *)
LEMMA SavedBytes ==
  ASSUME NEW s \in Seq(BYTE), NEW n \in Nat, n <= Len(s), NEW d, Begins(d, n, s)
  PROVE  Bytes(d, 0, n) = SubSeq(s, 1, n)
<1>1. SubSeq(s, 1, n) = [k \in 1 .. n |-> s[k]]
  OBVIOUS
<1>2. Bytes(d, 0, n) = [k \in 1 .. n |-> d[k - 1]]
  BY DEF Bytes
<1> QED
  BY <1>1, <1>2 DEF Begins

-----------------------------------------------------------------------------
(* The commands on their way. *)

(* What is left of a sequence without its first n members. *)
LEMMA RestIs ==
  ASSUME NEW S, NEW s \in Seq(S), NEW n \in 0 .. Len(s)
  PROVE  /\ SubSeq(s, n + 1, Len(s)) \in Seq(S)
         /\ Len(SubSeq(s, n + 1, Len(s))) = Len(s) - n
         /\ \A i \in 1 .. Len(s) - n : SubSeq(s, n + 1, Len(s))[i] = s[i + n]
OBVIOUS

(* The first n members of a sequence. *)
LEMMA FirstOnesAre ==
  ASSUME NEW S, NEW s \in Seq(S), NEW n \in 0 .. Len(s)
  PROVE  /\ SubSeq(s, 1, n) \in Seq(S) /\ Len(SubSeq(s, 1, n)) = n
         /\ \A i \in 1 .. n : SubSeq(s, 1, n)[i] = s[i]
OBVIOUS

(* A sequence without its first member. *)
LEMMA TailIs ==
  ASSUME NEW S, NEW s \in Seq(S), s # << >>
  PROVE  /\ Len(s) \in Nat /\ Len(s) > 0 /\ Head(s) = s[1] /\ s[1] \in S
         /\ Tail(s) \in Seq(S) /\ Len(Tail(s)) = Len(s) - 1
         /\ \A i \in 1 .. Len(s) - 1 : Tail(s)[i] = s[i + 1]
OBVIOUS

(* A sequence with one member more. *)
LEMMA AppendIs ==
  ASSUME NEW S, NEW s \in Seq(S), NEW x \in S
  PROVE  /\ Append(s, x) \in Seq(S) /\ Len(Append(s, x)) = Len(s) + 1
         /\ \A i \in 1 .. Len(s) : Append(s, x)[i] = s[i]
         /\ Append(s, x)[Len(s) + 1] = x
OBVIOUS

(* The order of the commands in a run. *)
LEMMA NextIs ==
  ASSUME NEW command \in Commands, NEW p \in 1 .. 3, InPart(command, p)
  PROVE  /\ NextCommand(command, p) \in Commands \cup {"end"}
         /\ NextPart(command, p) \in 1 .. 3
         /\ InPart(NextCommand(command, p), NextPart(command, p))
         /\ command = "CALLOC" => NextCommand(command, p) = "PILALLOC"
         /\ command = "PILALLOC" =>
              /\ p = 1 => NextCommand(command, p) = "RALLOC"
              /\ p = 2 => NextCommand(command, p) = "IALLOC"
              /\ p = 3 => NextCommand(command, p) = "XALLOC"
         /\ command = "RALLOC" => NextCommand(command, p) = "SALLOC"
         /\ command \in {"SALLOC", "IALLOC", "XALLOC"} => NextCommand(command, p) = "PISALLOC"
         /\ command = "PISALLOC" => NextCommand(command, p) = "FALLOC"
         /\ command = "FALLOC" /\ p = 3 =>
              NextCommand(command, p) = "end" /\ NextPart(command, p) = 3
         /\ command = "FALLOC" /\ p < 3 =>
              NextCommand(command, p) = "CALLOC" /\ NextPart(command, p) = p + 1
         /\ command # "FALLOC" =>
              NextPart(command, p) = p /\ NextCommand(command, p) \notin {"CALLOC", "end"}
         /\ NextCommand(command, p) = "SALLOC" => command = "RALLOC"
         /\ NextCommand(command, p) = "FALLOC" => command = "PISALLOC"
<1>1. p = 1 \/ p = 2 \/ p = 3
  OBVIOUS
<1> DEFINE c == NextCommand(command, p)
           q == NextPart(command, p)
<1>2. CASE command = "CALLOC"
  <2>1. c = "PILALLOC" /\ q = p
    BY <1>2 DEF NextCommand, NextPart
  <2> QED
    BY <1>2, <2>1 DEF Commands, InPart
<1>3. CASE command = "PILALLOC"
  <2>1. c = <<"RALLOC", "IALLOC", "XALLOC">>[p] /\ q = p
    BY <1>3 DEF NextCommand, NextPart
  <2>2. /\ p = 1 => c = "RALLOC"
        /\ p = 2 => c = "IALLOC"
        /\ p = 3 => c = "XALLOC"
    BY <2>1
  <2> HIDE DEF c, q
  <2>3. c \in Commands /\ InPart(c, q) /\ c \notin {"CALLOC", "end", "SALLOC", "FALLOC"}
    BY <1>1, <2>1, <2>2 DEF Commands, InPart
  <2> QED
    BY <1>3, <2>1, <2>2, <2>3 DEF c, q
<1>4. CASE command = "RALLOC"
  <2>1. c = "SALLOC" /\ q = p /\ p = 1
    BY <1>4 DEF NextCommand, NextPart, InPart
  <2> QED
    BY <1>4, <2>1 DEF Commands, InPart
<1>5. CASE command \in {"SALLOC", "IALLOC", "XALLOC"}
  <2>1. c = "PISALLOC" /\ q = p
    BY <1>5 DEF NextCommand, NextPart
  <2> QED
    BY <1>5, <2>1 DEF Commands, InPart
<1>6. CASE command = "PISALLOC"
  <2>1. c = "FALLOC" /\ q = p
    BY <1>6 DEF NextCommand, NextPart
  <2> QED
    BY <1>6, <2>1 DEF Commands, InPart
<1>7. CASE command = "FALLOC"
  <2>1. /\ c = IF p = 3 THEN "end" ELSE "CALLOC"
        /\ q = IF p < 3 THEN p + 1 ELSE p
    BY <1>7 DEF NextCommand, NextPart
  <2> HIDE DEF c, q
  <2>2. /\ p = 3 => c = "end" /\ q = 3
        /\ p < 3 => c = "CALLOC" /\ q = p + 1
        /\ q \in 1 .. 3 /\ c \in Commands \cup {"end"} /\ c # "SALLOC" /\ c # "FALLOC"
    BY <1>1, <2>1 DEF Commands
  <2>3. InPart(c, q)
    BY <1>1, <2>2 DEF InPart
  <2> QED
    BY <1>7, <2>2, <2>3 DEF c, q
<1> QED
  BY <1>2, <1>3, <1>4, <1>5, <1>6, <1>7 DEF Commands

(* The command that is sent next is the one the test is at, or the one      *)
(* behind that which it waits to be answered.                               *)
LEMMA ComingIs ==
  ASSUME ClientTyped
  PROVE  /\ Coming.command \in Commands \cup {"end"} /\ Coming.part \in 1 .. 3
         /\ Coming.run = runs /\ runs \in Nat
         /\ InPart(Coming.command, Coming.part)
         /\ doing = "send" => /\ Coming = Request(TRUE)
                              /\ Coming.command = next /\ Coming.part = part
         /\ doing # "send" => /\ Coming.command = NextCommand(next, part)
                              /\ Coming.part = NextPart(next, part)
<1>1. runs \in Nat
  BY TestNumbers DEF ClientTyped
<1>2. CASE doing = "send"
  BY <1>1, <1>2 DEF ClientTyped, Coming, Request
<1>3. CASE doing # "send"
  <2>1. next \in Commands /\ part \in 1 .. 3 /\ InPart(next, part)
    BY <1>3 DEF ClientTyped
  <2> QED
    BY <1>1, <1>3, <2>1, NextIs DEF Coming
<1> QED
  BY <1>2, <1>3

(* The first command to be carried out, or to be sent. *)
LEMMA NowIs ==
  ASSUME Wellformed
  PROVE  /\ Now.command \in Commands \cup {"end"} /\ Now.part \in 1 .. 3
         /\ InPart(Now.command, Now.part)
         /\ Now.run \in Nat /\ runs \in Nat /\ Now.run <= runs
         /\ requests # << >> => Now = requests[1] /\ Now.command \in Commands
         /\ requests = << >> => Now = Coming
<1>1. ClientTyped /\ RequestsTyped /\ InLine
  BY DEF Wellformed
<1>2. CASE requests = << >>
  <2>1. Len(requests) = 0
    BY <1>2
  <2>2. Now = Coming
    BY <2>1 DEF Now, Ask
  <2> QED
    BY <1>1, <1>2, <2>2, ComingIs
<1>3. CASE requests # << >>
  <2>1. Len(requests) \in Nat /\ Len(requests) > 0 /\ requests[1] \in Requests
    BY <1>1, <1>3, TailIs DEF RequestsTyped
  <2>2. Now = requests[1] /\ Ask(Len(requests) + 1) = Coming
    BY <2>1 DEF Now, Ask
  <2>3. Later(Now, Coming)
    BY <1>1, <2>1, <2>2 DEF InLine, Now
  <2>4. InPart(requests[1].command, requests[1].part)
    BY <1>1, <2>1 DEF RequestsTyped
  <2>5. /\ requests[1].command \in Commands /\ requests[1].part \in 1 .. 3
        /\ requests[1].run \in Nat
    BY <2>1 DEF Requests
  <2>6. Coming.run = runs /\ runs \in Nat
    BY <1>1, ComingIs
  <2> QED
    BY <1>3, <2>2, <2>3, <2>4, <2>5, <2>6 DEF Later
<1> QED
  BY <1>2, <1>3

(* The same command, whatever comes with it. *)
Alike(a, b) == a.command = b.command /\ a.part = b.part /\ a.run = b.run

(* The commands stay in line if some of the first are gone. *)
LEMMA LineMoves ==
  ASSUME RequestsTyped, InLine, NEW n \in 0 .. Len(requests),
         Len(requests') = Len(requests) - n,
         \A i \in 1 .. Len(requests) - n : requests'[i] = requests[i + n],
         Alike(Coming', Coming)
  PROVE  InLine' /\ Alike(Now', Ask(n + 1))
<1> DEFINE l == Len(requests)
<1>0. l \in Nat /\ n \in 0 .. l
  BY DEF RequestsTyped
<1>1. PICK k \in Nat : k = l - n /\ k = Len(requests')
  BY <1>0
<1>2. \A i \in 1 .. k : Ask(i)' = Ask(i + n)
  <2> SUFFICES ASSUME NEW i \in 1 .. k PROVE Ask(i)' = Ask(i + n)
    OBVIOUS
  <2>1. i <= k /\ i + n <= l /\ requests'[i] = requests[i + n]
    BY <1>0, <1>1
  <2> QED
    BY <1>1, <2>1 DEF Ask
<1>3. Ask(k + 1)' = Coming' /\ Ask(k + 1 + n) = Coming
  <2>1. ~(k + 1 <= k) /\ ~(k + 1 + n <= l)
    BY <1>0, <1>1
  <2> QED
    BY <1>1, <2>1 DEF Ask
<1>4. \A i \in 1 .. k + 1 : Alike(Ask(i)', Ask(i + n))
  <2> SUFFICES ASSUME NEW i \in 1 .. k + 1 PROVE Alike(Ask(i)', Ask(i + n))
    OBVIOUS
  <2>1. CASE i = k + 1
    <3>1. Ask(i)' = Coming' /\ Ask(i + n) = Coming
      BY <1>3, <2>1
    <3> QED
      BY <3>1
  <2>2. CASE i # k + 1
    <3>1. i \in 1 .. k
      BY <1>0, <1>1, <2>2
    <3> QED
      BY <1>2, <3>1 DEF Alike
  <2> QED
    BY <2>1, <2>2
<1>5. ASSUME NEW i \in 1 .. k PROVE Follows(Ask(i)', Ask(i + 1)')
  <2>1. i + n \in 1 .. l /\ i + 1 \in 1 .. k + 1 /\ i + 1 + n = i + n + 1
    BY <1>0, <1>1
  <2>2. Follows(Ask(i + n), Ask(i + n + 1))
    BY <2>1 DEF InLine
  <2>3. Ask(i)' = Ask(i + n) /\ Alike(Ask(i + 1)', Ask(i + n + 1))
    BY <1>2, <1>4, <2>1
  <2> QED
    BY <2>2, <2>3 DEF Follows, Alike
<1>6. ASSUME NEW i \in 1 .. k, NEW j \in 1 .. k + 1, i < j
      PROVE  Later(Ask(i)', Ask(j)')
  <2>1. i + n \in 1 .. l /\ j + n \in 1 .. l + 1 /\ i + n < j + n
    BY <1>0, <1>1, <1>6
  <2>2. Later(Ask(i + n), Ask(j + n))
    BY <2>1 DEF InLine
  <2>3. Ask(i)' = Ask(i + n) /\ Alike(Ask(j)', Ask(j + n))
    BY <1>2, <1>4
  <2> QED
    BY <2>2, <2>3 DEF Later, Alike
<1>7. InLine'
  BY <1>1, <1>5, <1>6 DEF InLine
<1>8. 1 \in 1 .. k + 1 /\ 1 + n = n + 1
  BY <1>0, <1>1
<1>9. Alike(Ask(1)', Ask(n + 1))
  BY <1>4, <1>8
<1> QED
  BY <1>7, <1>9 DEF Now

-----------------------------------------------------------------------------
(* A command is carried out. *)

(* The next command of the run, or the first of a later one. *)
GoesToNext ==
  /\ Now'.run = Now.run
  /\ Now'.command = NextCommand(Now.command, Now.part)
  /\ Now'.part = NextPart(Now.command, Now.part)

LaterRun ==
  Now'.run \in Nat /\ Now'.run > Now.run /\ Now'.command = "CALLOC" /\ Now'.part = 1

CarriedOut ==
  /\ Wellformed' /\ (GoesToNext \/ LaterRun)
  /\ Good' => Good /\ GoesToNext /\ answer'.error = 0

(* What is asked for is what the commands have come to. *)
LEMMA AskedIs ==
  ASSUME Wellformed, NEW command, Asked(command)
  PROVE  /\ requests # << >> /\ Len(requests) \in Nat /\ Len(requests) > 0
         /\ Now = requests[1] /\ Head(requests) = requests[1]
         /\ Now.whole /\ Now.command = command /\ command \in Commands
         /\ Now.part \in 1 .. 3 /\ InPart(command, Now.part)
         /\ Now.run \in Nat
<1>1. requests # << >> /\ Head(requests).whole /\ Head(requests).command = command
  BY DEF Asked
<1>2. Head(requests) = requests[1] /\ Len(requests) \in Nat /\ Len(requests) > 0
  BY <1>1, TailIs DEF Wellformed, RequestsTyped
<1> QED
  BY <1>1, <1>2, NowIs

(* The commands behind it move up; a run that found nothing under way has   *)
(* but this one on its way.                                                 *)
LEMMA HeadGoes ==
  ASSUME Wellformed, NEW command, Asked(command), requests' = Tail(requests),
         UNCHANGED clientVars
  PROVE  /\ ClientTyped' /\ RequestsTyped' /\ InLine' /\ (GoesToNext \/ LaterRun)
         /\ fresh => /\ GoesToNext /\ doing = "answer" /\ next = command
                     /\ requests' = << >> /\ out_queue = << >> /\ ~begun
<1>1. /\ ClientTyped /\ RequestsTyped /\ InLine /\ Lockstep
      /\ requests \in Seq(Requests)
  BY DEF Wellformed, RequestsTyped
<1>2. /\ requests # << >> /\ Len(requests) \in Nat /\ Len(requests) > 0
      /\ Now = requests[1] /\ Now.whole /\ Now.command = command /\ Now.run \in Nat
      /\ command \in Commands /\ Now.part \in 1 .. 3 /\ InPart(command, Now.part)
  BY AskedIs
<1>3. /\ Len(requests') = Len(requests) - 1 /\ requests' \in Seq(Requests)
      /\ \A i \in 1 .. Len(requests) - 1 : requests'[i] = requests[i + 1]
  BY <1>1, <1>2, TailIs
<1>4. /\ part' = part /\ next' = next /\ doing' = doing /\ buffer' = buffer
      /\ failed' = failed /\ fresh' = fresh /\ runs' = runs
  BY DEF clientVars
<1>5. ClientTyped'
  BY <1>1, <1>4 DEF ClientTyped
<1>6. Coming' = Coming
  BY <1>4 DEF Coming, Request
<1>7. RequestsTyped'
  <2>1. \A i \in 1 .. Len(requests') : i + 1 \in 1 .. Len(requests)
                                       /\ requests'[i] = requests[i + 1]
    BY <1>2, <1>3
  <2> QED
    BY <1>1, <1>3, <2>1 DEF RequestsTyped
<1>8. InLine' /\ Alike(Now', Ask(2))
  <2>1. 1 \in 0 .. Len(requests) /\ Alike(Coming', Coming) /\ 1 + 1 = 2
    BY <1>2, <1>6 DEF Alike
  <2>2. InLine' /\ Alike(Now', Ask(1 + 1))
    BY <1>1, <1>3, <2>1, LineMoves
  <2> QED
    BY <2>1, <2>2
<1>9. Follows(Now, Ask(2))
  <2>1. 1 \in 1 .. Len(requests) /\ 1 + 1 = 2
    BY <1>2
  <2>2. Follows(Ask(1), Ask(1 + 1))
    BY <1>1, <2>1 DEF InLine
  <2> QED
    BY <2>1, <2>2 DEF Now
<1>10. GoesToNext \/ LaterRun
  <2>1. Ask(2).run \in Nat
    <3>1. CASE 2 <= Len(requests)
      <4>1. requests[2] \in Requests
        BY <1>1, <1>2, <3>1
      <4>2. requests[2].run \in Nat
        BY <4>1 DEF Requests
      <4> QED
        BY <3>1, <4>2 DEF Ask
    <3>2. CASE ~(2 <= Len(requests))
      BY <1>1, <3>2, ComingIs DEF Ask
    <3> QED
      BY <3>1, <3>2
  <2> QED
    BY <1>8, <1>9, <2>1 DEF Follows, Alike, GoesToNext, LaterRun
<1>11. ASSUME fresh
       PROVE  /\ GoesToNext /\ doing = "answer" /\ next = command
              /\ requests' = << >> /\ out_queue = << >> /\ ~begun
  <2>1. /\ doing = "answer" /\ Len(requests) = 1 /\ out_queue = << >> /\ ~begun
        /\ requests[1].command = next /\ requests[1].part = part /\ requests[1].run = runs
    BY <1>1, <1>2, <1>11 DEF Lockstep
  <2>2. Ask(2) = Coming
    BY <2>1 DEF Ask
  <2>3. /\ Coming.command = NextCommand(next, part) /\ Coming.part = NextPart(next, part)
        /\ Coming.run = runs
    BY <1>1, <2>1, ComingIs
  <2>4. GoesToNext
    BY <1>2, <1>8, <2>1, <2>2, <2>3 DEF Alike, GoesToNext
  <2>5. requests' = << >>
    BY <1>3, <2>1
  <2> QED
    BY <1>2, <2>1, <2>4, <2>5
<1> QED
  BY <1>5, <1>7, <1>8, <1>10, <1>11

(* The answer goes out behind what is still to be read. *)
LEMMA RepliedIs ==
  ASSUME Wellformed, IInv', NEW command, Asked(command), Replied,
         command = "RALLOC" => answer'.error # 0
  PROVE  CarriedOut
<1>1. /\ requests' = Tail(requests) /\ out_queue' = Append(out_queue, Reply)
      /\ UNCHANGED clientVars /\ begun' = begun /\ lock' = lock
  BY DEF Replied
<1>2. fresh' = fresh /\ failed' = failed /\ doing' = doing /\ next' = next
  BY <1>1 DEF clientVars
<1>3. /\ ClientTyped' /\ RequestsTyped' /\ InLine' /\ (GoesToNext \/ LaterRun)
      /\ fresh => /\ GoesToNext /\ doing = "answer" /\ next = command
                  /\ requests' = << >> /\ out_queue = << >> /\ ~begun
  BY <1>1, HeadGoes
<1>4. Reply \in Packets /\ Reply.type = "BinaryCommand" /\ Reply.error = answer'.error
  <2>1. answer'.error \in 0 .. 3 /\ << >> \in Seq(BYTE)
    BY DEF IInv
  <2> QED
    BY <2>1 DEF Reply, Packets
<1>5. /\ out_queue \in Seq(Packets) /\ begun \in BOOLEAN /\ lock \in BOOLEAN
      /\ Len(out_queue) \in Nat
      /\ \A i \in 1 .. Len(out_queue) :
           out_queue[i].type = "BinaryData" /\ (begun => i > 1) =>
             Len(out_queue[i].data) = KB
  BY DEF Wellformed, PacketsTyped
<1>6. /\ out_queue' \in Seq(Packets) /\ Len(out_queue') = Len(out_queue) + 1
      /\ \A i \in 1 .. Len(out_queue) : out_queue'[i] = out_queue[i]
      /\ out_queue'[Len(out_queue) + 1].type = "BinaryCommand"
      /\ out_queue'[Len(out_queue) + 1].error = answer'.error
  BY <1>1, <1>4, <1>5, AppendIs
<1>7. \A i \in 1 .. Len(out_queue') : i \in 1 .. Len(out_queue) \/ i = Len(out_queue) + 1
  BY <1>5, <1>6
<1>8. PacketsTyped'
  <2>1. out_queue' # << >>
    BY <1>5, <1>6
  <2> QED
    BY <1>1, <1>5, <1>6, <1>7, <2>1 DEF PacketsTyped
<1>9. Lockstep'
  <2> SUFFICES ASSUME fresh PROVE Lockstep'
    BY <1>2 DEF Lockstep
  <2>1. /\ Len(out_queue) = 0 /\ Len(out_queue') = 1
        /\ out_queue'[1].type = "BinaryCommand" /\ out_queue'[1].error = answer'.error
    <3>1. Len(out_queue) = 0
      BY <1>3
    <3> QED
      BY <1>6, <3>1
  <2> QED
    BY <1>1, <1>2, <1>3, <2>1 DEF Lockstep
<1>10. Good' => Good /\ GoesToNext /\ answer'.error = 0
  <2> SUFFICES ASSUME Good' PROVE Good /\ GoesToNext /\ answer'.error = 0
    OBVIOUS
  <2>1. fresh /\ ~failed /\ \A i \in 1 .. Len(out_queue') : out_queue'[i].error = 0
    BY <1>2 DEF Good
  <2>2. \A i \in 1 .. Len(out_queue) : i \in 1 .. Len(out_queue')
    BY <1>5, <1>6
  <2>3. Len(out_queue) + 1 \in 1 .. Len(out_queue')
    BY <1>5, <1>6
  <2> QED
    BY <1>3, <1>6, <2>1, <2>2, <2>3 DEF Good
<1> QED
  BY <1>3, <1>8, <1>9, <1>10 DEF CarriedOut, Wellformed

(* The page goes out behind its answer. *)
LEMMA PageGoesOut ==
  ASSUME Wellformed, IInv', Retrieve,
         answer'.data \in Seq(BYTE), Len(answer'.data) = KB
  PROVE  /\ CarriedOut
         /\ fresh => /\ requests' = << >> /\ doing' = "answer"
                     /\ out_queue'[Len(out_queue')].data = answer'.data
<1>1. /\ Asked("RALLOC")
      /\ requests' = Tail(requests) /\ out_queue' = out_queue \o <<Reply, PageOfReply>>
      /\ UNCHANGED clientVars /\ begun' = begun /\ lock' = TRUE
  BY DEF Retrieve
<1>2. fresh' = fresh /\ failed' = failed /\ doing' = doing /\ next' = next
  BY <1>1 DEF clientVars
<1>3. /\ ClientTyped' /\ RequestsTyped' /\ InLine' /\ (GoesToNext \/ LaterRun)
      /\ fresh => /\ GoesToNext /\ doing = "answer" /\ next = "RALLOC"
                  /\ requests' = << >> /\ out_queue = << >> /\ ~begun
  BY <1>1, HeadGoes
<1>4. /\ Reply \in Packets /\ Reply.type = "BinaryCommand" /\ Reply.error = answer'.error
      /\ PageOfReply \in Packets /\ PageOfReply.type = "BinaryData"
      /\ PageOfReply.data = answer'.data
  <2>1. answer'.error \in 0 .. 3 /\ << >> \in Seq(BYTE)
    BY DEF IInv
  <2> QED
    BY <2>1 DEF Reply, PageOfReply, Packets
<1>5. /\ out_queue \in Seq(Packets) /\ begun \in BOOLEAN /\ lock \in BOOLEAN
      /\ Len(out_queue) \in Nat
      /\ \A i \in 1 .. Len(out_queue) :
           out_queue[i].type = "BinaryData" /\ (begun => i > 1) =>
             Len(out_queue[i].data) = KB
  BY DEF Wellformed, PacketsTyped
<1>6. /\ out_queue' \in Seq(Packets) /\ Len(out_queue') = Len(out_queue) + 2
      /\ \A i \in 1 .. Len(out_queue) : out_queue'[i] = out_queue[i]
      /\ out_queue'[Len(out_queue) + 1] = Reply
      /\ out_queue'[Len(out_queue) + 2] = PageOfReply
  <2> DEFINE a == Reply
             b == PageOfReply
  <2>1. a \in Packets /\ b \in Packets /\ out_queue' = out_queue \o <<a, b>>
    BY <1>1, <1>4
  <2> HIDE DEF a, b
  <2>2. <<a, b>> \in Seq(Packets) /\ Len(<<a, b>>) = 2
    BY <2>1
  <2>3. /\ out_queue' \in Seq(Packets) /\ Len(out_queue') = Len(out_queue) + 2
        /\ \A i \in 1 .. Len(out_queue) : out_queue'[i] = out_queue[i]
        /\ out_queue'[Len(out_queue) + 1] = a /\ out_queue'[Len(out_queue) + 2] = b
    BY <1>5, <2>1, <2>2
  <2> QED
    BY <2>3 DEF a, b
<1>7. \A i \in 1 .. Len(out_queue') :
        i \in 1 .. Len(out_queue) \/ i = Len(out_queue) + 1 \/ i = Len(out_queue) + 2
  BY <1>5, <1>6
<1>8. PacketsTyped'
  <2>1. out_queue' # << >>
    BY <1>5, <1>6
  <2> QED
    BY <1>1, <1>4, <1>5, <1>6, <1>7, <2>1 DEF PacketsTyped
<1>9. fresh => /\ Len(out_queue) = 0 /\ Len(out_queue') = 2
               /\ out_queue'[1] = Reply /\ out_queue'[2] = PageOfReply
  <2> SUFFICES ASSUME fresh
               PROVE  /\ Len(out_queue) = 0 /\ Len(out_queue') = 2
                      /\ out_queue'[1] = Reply /\ out_queue'[2] = PageOfReply
    OBVIOUS
  <2>1. Len(out_queue) = 0
    BY <1>3
  <2> QED
    BY <1>6, <2>1
<1>10. Lockstep'
  <2> SUFFICES ASSUME fresh PROVE Lockstep'
    BY <1>2 DEF Lockstep
  <2> QED
    BY <1>1, <1>2, <1>3, <1>4, <1>9 DEF Lockstep
<1>11. Good' => Good /\ GoesToNext /\ answer'.error = 0
  <2> SUFFICES ASSUME Good' PROVE Good /\ GoesToNext /\ answer'.error = 0
    OBVIOUS
  <2>1. fresh /\ ~failed /\ \A i \in 1 .. Len(out_queue') : out_queue'[i].error = 0
    BY <1>2 DEF Good
  <2>2. \A i \in 1 .. Len(out_queue) : i \in 1 .. Len(out_queue')
    BY <1>5, <1>6
  <2>3. Len(out_queue) + 1 \in 1 .. Len(out_queue')
    BY <1>5, <1>6
  <2> QED
    BY <1>3, <1>4, <1>6, <2>1, <2>2, <2>3 DEF Good
<1> QED
  BY <1>2, <1>3, <1>4, <1>8, <1>9, <1>10, <1>11 DEF CarriedOut, Wellformed

-----------------------------------------------------------------------------
(* What all commands have in common. *)

(* The first allocation, as long as there is one. *)
LEMMA FirstFacts ==
  ASSUME IInv, SmallPages, Known(1)
  PROVE  /\ 1 \in AllocId /\ 1 \in Slot /\ 1 \in Taken
         /\ memstore[1] \in Records /\ memstore[1].allocation_id = 1
         /\ PageSize(1) = KB
         /\ AllocSize(1) \in Nat /\ KB <= AllocSize(1)
         /\ memstore[1].data \in [0 .. AllocSize(1) - 1 -> BYTE]
<1>1. /\ 1 \in AllocId /\ 1 \in Slot /\ memstore[1] \in Records
      /\ memstore[1].allocation_id = 1 /\ PageSize(1) = memstore[1].page_size
      /\ memstore[1].number_pages \in Nat /\ memstore[1].number_pages > 0
      /\ PageSize(1) \in Nat /\ PageSize(1) > 0
      /\ AllocSize(1) = memstore[1].number_pages * PageSize(1)
      /\ AllocSize(1) \in Nat
      /\ memstore[1].data \in [0 .. AllocSize(1) - 1 -> BYTE]
  BY KnownFacts
<1>2. 1 \in Taken
  BY <1>1 DEF Taken
<1>3. PageSize(1) = KB
  BY <1>1, <1>2 DEF SmallPages
<1>4. KB <= AllocSize(1)
  <2> DEFINE p == memstore[1].number_pages
             z == PageSize(1)
  <2>1. p \in Nat /\ p > 0 /\ z \in Nat /\ 0 \in 0 .. p - 1
    BY <1>1
  <2> HIDE DEF p, z
  <2>2. 0 * z + z <= p * z
    BY <2>1, PagesTimesSize
  <2>3. z <= p * z
    BY <2>1, <2>2
  <2> QED
    BY <1>1, <1>3, <2>3 DEF p, z
<1> QED
  BY <1>1, <1>2, <1>3, <1>4

(* The same slots are taken and their pages are as long. *)
SameSlots ==
  /\ Taken' = Taken
  /\ \A i \in Taken : memstore'[i].page_size = memstore[i].page_size

(* Only the bytes and the stream of the first allocation change. *)
LEMMA RewriteTaken ==
  ASSUME IInv, NEW d, NEW stream, Rewrites(1, d, stream)
  PROVE  /\ SameSlots /\ Known(1) /\ Known(1)'
         /\ memstore'[1].data = d /\ memstore'[1].file_id = stream
<1> DEFINE a == [memstore[1] EXCEPT !.data = d, !.file_id = stream]
<1>1. Known(1) /\ memstore' = [memstore EXCEPT ![1] = a]
  BY DEF Rewrites, Becomes
<1>2. memstore \in [Slot -> Records] /\ 1 \in Slot /\ memstore[1] \in Records
  BY <1>1, KnownFacts DEF IInv
<1>3. /\ a.data = d /\ a.file_id = stream /\ a.page_size = memstore[1].page_size
      /\ a.allocation_id = memstore[1].allocation_id
  BY <1>2 DEF Records
<1> HIDE DEF a
<1>4. memstore'[1] = a /\ \A i \in Slot : i # 1 => memstore'[i] = memstore[i]
  BY <1>1, <1>2
<1>5. /\ \A i \in Slot : memstore'[i].allocation_id = memstore[i].allocation_id
      /\ \A i \in Slot : memstore'[i].page_size = memstore[i].page_size
  BY <1>3, <1>4
<1>6. AllocId \subseteq Slot
  BY Numbers
<1>7. SameSlots
  BY <1>5, <1>6 DEF SameSlots, Taken, Known
<1>8. Known(1)'
  BY <1>1, <1>2, <1>5 DEF Known
<1> QED
  BY <1>1, <1>3, <1>4, <1>7, <1>8

(* A step that leaves the slots as they are. *)
LEMMA SameMemory == memstore' = memstore => SameSlots /\ (Known(1)' <=> Known(1))
BY DEF SameSlots, Taken, Known

(* What is intended depends on the script alone. *)
LEMMA SameIntention ==
  files'[Script] = files[Script] => Page' = Page /\ Intended' = Intended
BY DEF Page, Intended, Before, After

StreamsStay == open' - Cardinality(Loaded') = open - Cardinality(Loaded)

(* The slots that are taken are finitely many. *)
LEMMA TakenIsFinite == IsFiniteSet(Taken) /\ Cardinality(Taken) \in Nat
<1>1. IsFiniteSet(Slot)
  BY Numbers, FS_Interval DEF Slot
<1>2. Taken \subseteq Slot
  BY Numbers DEF Taken
<1> QED
  BY <1>1, <1>2, FS_Subset, FS_CardinalityType

(* A command between CALLOC and FALLOC, whatever it answers. *)
LEMMA CommandKeeps ==
  ASSUME TestInv, CarriedOut, Kept, answer'.command # "FALLOC", SameSlots,
         files'[Script] = files[Script],
         Now.command \in Commands \ {"CALLOC", "FALLOC"},
         Now.command = "PISALLOC" /\ Known(1)' => memstore'[1].file_id = FALSE,
         Good /\ GoesToNext /\ answer'.error = 0 /\ SavedSoFar /\ Work =>
           SavedSoFar' /\ Work'
  PROVE  TestInv' /\ StreamsStay
<1>1. /\ Wellformed /\ IInv /\ SmallPages /\ Counted /\ ScriptStays /\ InGoodOrder
      /\ Wellformed' /\ IInv' /\ (GoesToNext \/ LaterRun)
  BY DEF TestInv, StoreKept, CarriedOut, Kept
<1>2. /\ Now.part \in 1 .. 3 /\ InPart(Now.command, Now.part)
      /\ Now.run \in Nat /\ Cardinality(Taken) \in Nat
  BY <1>1, NowIs, TakenIsFinite
<1>3. GoesToNext => /\ Now'.command \notin {"CALLOC", "end"} /\ Now'.run = Now.run
                    /\ Now'.command = "FALLOC" => Now.command = "PISALLOC"
  BY <1>2, NextIs DEF GoesToNext
<1>4. LaterRun => Now'.command = "CALLOC" /\ Now'.run > Now.run /\ Now'.run \in Nat
  BY DEF LaterRun
<1>5. SmallPages'
  BY <1>1 DEF SmallPages, SameSlots
<1>6. Counted'
  <2>1. (Known(1) <=> 1 \in Taken) /\ (Known(1)' <=> 1 \in Taken')
    BY DEF Known, Taken
  <2>2. Taken' = Taken /\ (Known(1)' <=> Known(1))
    BY <2>1 DEF SameSlots
  <2>3. Cardinality(Taken) <= Now.run /\ (~Known(1) => Cardinality(Taken) < Now.run)
    BY <1>1 DEF Counted, Commands
  <2>4. CASE GoesToNext
    BY <1>3, <2>2, <2>3, <2>4 DEF Counted
  <2>5. CASE LaterRun
    <3>1. Cardinality(Taken) < Now'.run /\ Cardinality(Taken) <= Now'.run
      BY <1>2, <1>4, <2>3, <2>5
    <3> QED
      BY <2>2, <3>1 DEF Counted
  <2> QED
    BY <1>1, <2>4, <2>5
<1>7. StreamClosed'
  BY <1>1, <1>3, <1>4 DEF StreamClosed
<1>8. ScriptStays'
  BY <1>1 DEF ScriptStays
<1>9. InGoodOrder'
  BY <1>1 DEF InGoodOrder, CarriedOut
<1>10. StreamsStay
  BY DEF Kept, StreamsKept, StreamsStay
<1> QED
  BY <1>1, <1>5, <1>6, <1>7, <1>8, <1>9, <1>10 DEF TestInv, StoreKept

(* A command that is refused fails the run that waits for its answer. *)
LEMMA RefusedKeeps ==
  ASSUME TestInv, Kept, answer'.command # "FALLOC", answer'.error # 0, SameSlots,
         files'[Script] = files[Script],
         NEW command \in Commands \ {"CALLOC", "FALLOC"}, Asked(command), Replied,
         command = "PISALLOC" /\ Known(1)' => memstore'[1].file_id = FALSE
  PROVE  TestInv' /\ StreamsStay
<1>1. Wellformed /\ IInv'
  BY DEF TestInv, Kept
<1>2. CarriedOut /\ Now.command = command
  BY <1>1, RepliedIs, AskedIs
<1> QED
  BY <1>2, CommandKeeps

(* Nothing is saved but by PISALLOC. *)
LEMMA SavedStays ==
  ASSUME Wellformed, SavedSoFar, files' = files, GoesToNext,
         Now.command \in Commands \ {"PISALLOC", "FALLOC"}
  PROVE  SavedSoFar'
<1>1. Intended' = Intended
  BY SameIntention
<1>2. Now.part \in 1 .. 3 /\ InPart(Now.command, Now.part)
  BY NowIs
<1>3. Now'.part = Now.part /\ Now'.command \notin {"FALLOC", "end"}
  BY <1>2, NextIs DEF GoesToNext
<1>4. \A p \in 1 .. 3 : Done(p)' <=> Done(p)
  BY <1>3 DEF Done, Commands
<1> QED
  BY <1>1, <1>4 DEF SavedSoFar

(* A script that can be loaded reaches to the place of the change. *)
LEMMA ScriptFacts ==
  ASSUME ScriptStays, files[Script] \in Seq(BYTE), files[Script] # << >>
  PROVE  Len(files[Script]) >= CHANGE_AT
<1>1. files[Script] # Missing
  BY MemstoreAssumption
<1> QED
  BY <1>1, ScriptAssumption DEF ScriptStays

-----------------------------------------------------------------------------
(* CALLOC *)

(* The first allocation is given out first. *)
LEMMA FirstFree == 1 \in FreeIds => Min(FreeIds) = 1
<1> SUFFICES ASSUME 1 \in FreeIds PROVE Min(FreeIds) = 1
  OBVIOUS
<1>1. FreeIds \subseteq Nat \ {0}
  BY Numbers DEF FreeIds, AllocId
<1>2. \A y \in FreeIds : 1 <= y
  BY <1>1
<1> DEFINE m == Min(FreeIds)
<1>3. m \in FreeIds /\ m <= 1
  BY <1>2 DEF Min
<1> HIDE DEF m
<1>4. m = 1
  BY <1>1, <1>3
<1> QED
  BY <1>4 DEF m

(* CALLOC takes a slot that was free, and the first if it is. *)
LEMMA CreateTakes ==
  ASSUME IInv, SmallPages, NEW pages \in Nat, CreateAlloc(pages, 1)
  PROVE  /\ \E id \in AllocId \ Taken : Taken' = Taken \cup {id}
         /\ SmallPages' /\ Known(1)'
         /\ ~Known(1) => \A k \in 1 .. KB : memstore'[1].data[k - 1] = 0
<1> DEFINE id == Min(FreeIds)
           a == NewAllocation(id, pages, 1)
<1>1. /\ id \in AllocId /\ id \in Slot /\ id # 0
      /\ memstore[id].allocation_id = 0
      /\ SlotOK(a, id) /\ Becomes(id, a)
  BY CreateFacts
<1>2. pages \in 1 .. MAX_PAGES
  BY DEF CreateAlloc
<1>3. /\ a.allocation_id = id /\ a.page_size = KB
      /\ \A k \in 1 .. KB : a.data[k - 1] = 0
  <2>1. KB \in Nat /\ KB > 0 /\ pages \in Nat /\ pages > 0
    BY <1>2, TestNumbers
  <2>2. 1 * KB = KB /\ pages * 1 * KB = pages * KB
    BY <2>1
  <2>3. a.allocation_id = id /\ a.page_size = KB
        /\ a.data = [i \in 0 .. pages * KB - 1 |-> 0]
    BY <2>2 DEF NewAllocation
  <2>4. pages * KB \in Nat /\ KB <= pages * KB
    <3>1. 0 \in 0 .. pages - 1 /\ 0 * KB + KB = KB
      BY <2>1
    <3>2. pages * KB \in Nat /\ 0 * KB + KB <= pages * KB
      BY <2>1, <3>1, PagesTimesSize
    <3> QED
      BY <3>1, <3>2
  <2> HIDE DEF a
  <2>5. \A k \in 1 .. KB : a.data[k - 1] = 0
    <3> DEFINE n == pages * KB
    <3>1. n \in Nat /\ KB <= n /\ a.data = [i \in 0 .. n - 1 |-> 0]
      BY <2>3, <2>4
    <3> HIDE DEF n
    <3>2. \A k \in 1 .. KB : k - 1 \in 0 .. n - 1
      BY <2>1, <3>1
    <3> QED
      BY <3>1, <3>2
  <2> QED
    BY <2>3, <2>5
<1> HIDE DEF a
<1>4. memstore \in [Slot -> Records] /\ AllocId \subseteq Slot /\ 0 \notin AllocId
  BY Numbers DEF IInv, AllocId
<1>5. memstore'[id] = a /\ \A i \in Slot : i # id => memstore'[i] = memstore[i]
  BY <1>1, <1>4 DEF Becomes
<1> HIDE DEF id
<1>6. id \notin Taken
  BY <1>1 DEF Taken, Known
<1>7. Taken' = Taken \cup {id}
  BY <1>1, <1>3, <1>4, <1>5 DEF Taken, Known
<1>8. SmallPages'
  <2>1. \A i \in Taken' : memstore'[i].page_size = KB
    BY <1>3, <1>4, <1>5, <1>7 DEF SmallPages, Taken
  <2> QED
    BY <2>1 DEF SmallPages
<1>9. CASE Known(1)
  BY <1>1, <1>6, <1>7, <1>8, <1>9 DEF Taken, Known
<1>10. CASE ~Known(1)
  <2>1. 1 \in AllocId
    BY <1>1, Numbers DEF AllocId, Slot
  <2>2. memstore[1].allocation_id \in {0, 1}
    BY <1>4, <2>1 DEF IInv, SlotOK
  <2>3. 1 \in FreeIds
    BY <1>10, <2>1, <2>2 DEF Known, FreeIds
  <2>4. id = 1
    BY <2>3, FirstFree DEF id
  <2>5. memstore'[1] = a
    BY <1>5, <2>4
  <2>6. Known(1)'
    BY <1>3, <2>1, <2>4, <2>5 DEF Known
  <2> QED
    BY <1>1, <1>3, <1>6, <1>7, <1>8, <2>5, <2>6
<1> QED
  BY <1>9, <1>10

(* CALLOC, granted or not, keeps what is to be kept. *)
LEMMA CreateStep ==
  ASSUME TestInv, Create
  PROVE  TestInv' /\ StreamsStay
<1> DEFINE pages == PAGES[Now.part]
<1>1. /\ Wellformed /\ IInv /\ SmallPages /\ Counted /\ ScriptStays /\ InGoodOrder
  BY DEF TestInv, StoreKept
<1>2. /\ Asked("CALLOC") /\ Replied
      /\ CreateAlloc(PAGES[Head(requests).part], 1)
         \/ CreateFails(PAGES[Head(requests).part], 1)
  BY DEF Create
<1>3. /\ Now.command = "CALLOC" /\ Now.part \in 1 .. 3 /\ InPart("CALLOC", Now.part)
      /\ Now.run \in Nat /\ Head(requests).part = Now.part /\ "CALLOC" \in Commands
  BY <1>1, <1>2, AskedIs
<1>4. pages \in Nat /\ (CreateAlloc(pages, 1) \/ CreateFails(pages, 1))
  BY <1>2, <1>3, TestNumbers
<1> HIDE DEF pages
<1>5. Kept /\ answer'.command = "CALLOC" /\ files' = files
  <2>1. CASE CreateAlloc(pages, 1)
    BY <1>1, <2>1, CreateKeeps DEF CreateAlloc, Answers
  <2>2. CASE CreateFails(pages, 1)
    BY <1>1, <2>2, AnsweringKeeps DEF CreateFails, Answers
  <2> QED
    BY <1>4, <2>1, <2>2
<1>6. CarriedOut /\ Wellformed' /\ (GoesToNext \/ LaterRun)
  <2>1. IInv'
    BY <1>5 DEF Kept
  <2>2. CarriedOut
    BY <1>1, <1>2, <2>1, RepliedIs
  <2> QED
    BY <2>2 DEF CarriedOut
<1>7. GoesToNext => Now'.command = "PILALLOC" /\ Now'.run = Now.run /\ Now'.part = Now.part
  BY <1>3, NextIs DEF GoesToNext
<1>8. LaterRun => Now'.command = "CALLOC" /\ Now'.run > Now.run /\ Now'.run \in Nat
  BY DEF LaterRun
<1>9. /\ SmallPages' /\ Counted'
      /\ answer'.error = 0 /\ ~Known(1) => \A k \in 1 .. KB : memstore'[1].data[k - 1] = 0
  <2>1. /\ Cardinality(Taken) < Now.run /\ Cardinality(Taken) \in Nat
        /\ IsFiniteSet(Taken)
    BY <1>1, <1>3, TakenIsFinite DEF Counted
  <2>2. CASE CreateAlloc(pages, 1)
    <3>1. /\ \E id \in AllocId \ Taken : Taken' = Taken \cup {id}
          /\ SmallPages' /\ Known(1)'
          /\ ~Known(1) => \A k \in 1 .. KB : memstore'[1].data[k - 1] = 0
      BY <1>1, <1>4, <2>2, CreateTakes
    <3>2. PICK id \in AllocId \ Taken : Taken' = Taken \cup {id}
      BY <3>1
    <3>3. Cardinality(Taken') = Cardinality(Taken) + 1
      BY <2>1, <3>2, FS_AddElement
    <3>4. Counted'
      <4> DEFINE c == Cardinality(Taken)
                 d == Cardinality(Taken')
                 r == Now.run
                 q == Now'.run
      <4>1. c \in Nat /\ c < r /\ r \in Nat /\ d = c + 1
        BY <1>3, <2>1, <3>3
      <4>2. (GoesToNext => q = r) /\ (LaterRun => q > r /\ q \in Nat)
        BY <1>7, <1>8
      <4> HIDE DEF c, d, r, q
      <4>3. d <= q /\ (LaterRun => d < q)
        BY <1>6, <4>1, <4>2
      <4> QED
        BY <1>6, <1>7, <1>8, <3>1, <4>3 DEF Counted, d, q
    <3> QED
      BY <3>1, <3>4
  <2>3. CASE CreateFails(pages, 1)
    <3>1. memstore' = memstore /\ answer'.error = 2
      BY <2>3 DEF CreateFails, Answers
    <3>2. Taken' = Taken /\ SmallPages'
      BY <1>1, <3>1, SameMemory DEF SmallPages, SameSlots
    <3>3. Cardinality(Taken') < Now'.run /\ Cardinality(Taken') <= Now'.run
      BY <1>3, <1>6, <1>7, <1>8, <2>1, <3>2
    <3> QED
      BY <3>1, <3>2, <3>3 DEF Counted
  <2> QED
    BY <1>4, <2>2, <2>3
<1>10. StreamClosed' /\ ScriptStays'
  BY <1>1, <1>5, <1>6, <1>7, <1>8 DEF StreamClosed, ScriptStays
<1>11. InGoodOrder'
  <2> SUFFICES ASSUME Good, GoesToNext, answer'.error = 0
               PROVE  SavedSoFar' /\ Work'
    BY <1>6 DEF InGoodOrder, CarriedOut
  <2>1. SavedSoFar /\ Work
    BY <1>1 DEF InGoodOrder
  <2>2. SavedSoFar'
    BY <1>1, <1>3, <1>5, <2>1, SavedStays
  <2>3. Now.part > 1 => ~Known(1)
    BY <1>3, <2>1 DEF Work
  <2>4. Work'
    BY <1>7, <1>9, <2>3 DEF Work
  <2> QED
    BY <2>2, <2>4
<1>12. StreamsStay
  BY <1>5 DEF Kept, StreamsKept, StreamsStay
<1> QED
  BY <1>5, <1>6, <1>9, <1>10, <1>11, <1>12 DEF Kept, TestInv, StoreKept

-----------------------------------------------------------------------------
(* PILALLOC *)

(* A script that is loaded begins the allocation: over zeros it makes a     *)
(* page of it, over other bytes as much as there is of it.                  *)
LEMMA LoadBegins ==
  ASSUME IInv, SmallPages, ScriptStays, LoadAlloc(1, Script)
  PROVE  /\ files[Script] \in Seq(BYTE)
         /\ Begins(memstore'[1].data, CHANGE_AT, Page)
         /\ (\A k \in 1 .. KB : memstore[1].data[k - 1] = 0) =>
              Begins(memstore'[1].data, KB, Page)
<1> DEFINE s == files[Script]
           b == BeforeLoad(1)
           m == Len(s)
           n == AllocSize(1)
           d == memstore'[1].data
<1>1. /\ Rewrites(1, CopiedIn(b, 0, s), TRUE)
      /\ s \in Seq(BYTE) /\ m \in 1 .. n /\ Known(1)
  BY TestNumbers, LoadRewrites DEF Rewrites
<1>2. d = CopiedIn(b, 0, s)
  BY <1>1, RewriteTaken
<1>3. /\ n \in Nat /\ KB \in Nat /\ KB <= n /\ b \in [0 .. n - 1 -> BYTE]
      /\ memstore[1].data \in [0 .. n - 1 -> BYTE]
      /\ b \in {memstore[1].data, Cleared(memstore[1].data)}
  BY <1>1, FirstFacts, BeforeLoadType, TestNumbers
<1>4. CHANGE_AT \in Nat /\ CHANGE_AT <= KB /\ CHANGE_AT <= m
  <2>1. s # << >>
    BY <1>1
  <2>2. Len(files[Script]) >= CHANGE_AT
    BY <1>1, <2>1, ScriptFacts
  <2> QED
    BY <2>2, TestNumbers
<1>5. \A k \in 1 .. KB : Page[k] = IF k <= m THEN s[k] ELSE 0
  BY <1>1, PageIs
<1>6. (\A k \in 1 .. KB : memstore[1].data[k - 1] = 0) =>
        \A k \in 1 .. KB : b[k - 1] = 0
  <2>1. \A k \in 1 .. KB : k - 1 \in DOMAIN memstore[1].data
    BY <1>3
  <2>2. \A k \in 1 .. KB : Cleared(memstore[1].data)[k - 1] = 0
    BY <2>1 DEF Cleared
  <2> QED
    BY <1>3, <2>2, Zenon
<1> HIDE DEF b
<1>7. \A k \in 1 .. KB : d[k - 1] = IF k <= m THEN s[k] ELSE b[k - 1]
  <2> SUFFICES ASSUME NEW k \in 1 .. KB
               PROVE  d[k - 1] = IF k <= m THEN s[k] ELSE b[k - 1]
    OBVIOUS
  <2>1. k - 1 \in DOMAIN b
    BY <1>3
  <2>2. d[k - 1] = IF k - 1 \in 0 .. 0 + m - 1 THEN s[k - 1 - 0 + 1] ELSE b[k - 1]
    BY <1>2, <2>1 DEF CopiedIn
  <2>3. (k - 1 \in 0 .. 0 + m - 1) <=> k <= m
    BY <1>1, <1>3
  <2>4. k - 1 - 0 + 1 = k
    BY <1>3
  <2> QED
    BY <2>2, <2>3, <2>4
<1> HIDE DEF d
<1>8. \A k \in 1 .. CHANGE_AT : k \in 1 .. KB /\ k <= m
  BY <1>1, <1>3, <1>4
<1>9. Begins(d, CHANGE_AT, Page)
  BY <1>5, <1>7, <1>8 DEF Begins
<1>10. (\A k \in 1 .. KB : b[k - 1] = 0) => Begins(d, KB, Page)
  BY <1>5, <1>7 DEF Begins
<1> QED
  BY <1>1, <1>6, <1>9, <1>10 DEF d

(* PILALLOC, whatever it answers, keeps what is to be kept. *)
LEMMA LoadStep ==
  ASSUME TestInv, Load
  PROVE  TestInv' /\ StreamsStay
<1>1. /\ Asked("PILALLOC") /\ Replied
      /\ \/ LoadAlloc(1, Script) \/ LoadUnfit(1, Script) \/ LoadNotOpened(1, Script)
         \/ LoadRefused(1)
  BY DEF Load
<1>2. /\ Wellformed /\ IInv /\ SmallPages /\ ScriptStays /\ InGoodOrder /\ Script \in FILE
  BY TestNumbers DEF TestInv, StoreKept
<1>3. /\ Now.command = "PILALLOC" /\ Now.part \in 1 .. 3 /\ InPart("PILALLOC", Now.part)
      /\ "PILALLOC" \in Commands
  BY <1>1, <1>2, AskedIs
<1>4. GoesToNext => /\ Now'.command \in {"RALLOC", "IALLOC", "XALLOC"}
                    /\ Now'.part = Now.part
                    /\ Now'.command \in {"IALLOC", "XALLOC"} => Now.part > 1
  <2>1. Now.part = 1 \/ Now.part = 2 \/ Now.part = 3
    BY <1>3
  <2> QED
    BY <1>3, <2>1, NextIs DEF GoesToNext
<1>5. CASE LoadAlloc(1, Script)
  <2>1. /\ Kept /\ answer'.command = "PILALLOC" /\ files' = files
    BY <1>2, <1>5, LoadKeeps DEF LoadAlloc, Answers
  <2>2. Rewrites(1, CopiedIn(BeforeLoad(1), 0, files[Script]), TRUE)
    BY <1>2, <1>5, LoadRewrites
  <2>3. SameSlots /\ Known(1)'
    BY <1>2, <2>2, RewriteTaken
  <2>4. CarriedOut
    BY <1>1, <1>2, <2>1, RepliedIs DEF Kept
  <2>5. ASSUME GoesToNext, SavedSoFar, Work
        PROVE  SavedSoFar' /\ Work'
    <3>1. SavedSoFar'
      BY <1>2, <1>3, <2>1, <2>5, SavedStays
    <3>2. /\ files[Script] \in Seq(BYTE)
          /\ Begins(memstore'[1].data, CHANGE_AT, Page)
          /\ (\A k \in 1 .. KB : memstore[1].data[k - 1] = 0) =>
               Begins(memstore'[1].data, KB, Page)
      BY <1>2, <1>5, LoadBegins
    <3>3. Now'.command \in {"IALLOC", "XALLOC"} => Begins(memstore'[1].data, KB, Page)
      BY <1>3, <1>4, <2>5, <3>2 DEF Work
    <3>4. Page' = Page
      BY <2>1, SameIntention
    <3>5. Begins(memstore[1].data, CHANGE_AT, Page)'
      BY <3>2, <3>4 DEF Begins
    <3>6. Now'.command \in {"IALLOC", "XALLOC"} => Begins(memstore[1].data, KB, Page)'
      BY <3>3, <3>4 DEF Begins
    <3>7. Work'
      BY <1>4, <2>1, <2>3, <2>5, <3>2, <3>5, <3>6 DEF Work
    <3> QED
      BY <3>1, <3>7
  <2> QED
    BY <1>3, <2>1, <2>3, <2>4, <2>5, CommandKeeps
<1>6. CASE LoadUnfit(1, Script) \/ LoadNotOpened(1, Script) \/ LoadRefused(1)
  <2>1. /\ Kept /\ answer'.command = "PILALLOC" /\ answer'.error # 0 /\ files' = files
    <3>1. CASE LoadUnfit(1, Script)
      <4>1. Kept
        BY <1>2, <3>1, LoadUnfitKeeps
      <4>2. /\ files' = files
            /\ answer'.command = "PILALLOC"
            /\ answer'.error = IF files[Script] = << >> THEN 2 ELSE 3
        BY <3>1 DEF LoadUnfit, Answers
      <4>3. answer'.error # 0
        BY <4>2
      <4> QED
        BY <4>1, <4>2, <4>3
    <3>2. CASE LoadNotOpened(1, Script)
      <4>1. Kept
        BY <1>2, <3>2, LoadNotOpenedKeeps
      <4>2. files' = files /\ answer'.command = "PILALLOC" /\ answer'.error = 2
        BY <3>2 DEF LoadNotOpened, Answers
      <4> QED
        BY <4>1, <4>2
    <3>3. CASE LoadRefused(1)
      BY <1>2, <3>3, AnsweringKeeps DEF LoadRefused, Answers
    <3> QED
      BY <1>6, <3>1, <3>2, <3>3
  <2>2. SameSlots
    <3>1. CASE LoadUnfit(1, Script)
      BY <1>2, <3>1, LoadUnfitRewrites, RewriteTaken
    <3>2. CASE LoadNotOpened(1, Script)
      BY <1>2, <3>2, LoadNotOpenedRewrites, RewriteTaken
    <3>3. CASE LoadRefused(1)
      BY <3>3, SameMemory DEF LoadRefused
    <3> QED
      BY <1>6, <3>1, <3>2, <3>3
  <2> QED
    BY <1>1, <1>3, <2>1, <2>2, RefusedKeeps
<1> QED
  BY <1>1, <1>5, <1>6

-----------------------------------------------------------------------------
(* The commands in the middle: RALLOC and SALLOC, IALLOC, XALLOC. *)

(* A page that is edited is a page. *)
LEMMA EditedIs ==
  ASSUME NEW page \in Seq(BYTE), Len(page) = KB
  PROVE  /\ Edited(page) \in Seq(BYTE) /\ Len(Edited(page)) = KB
         /\ \A k \in 1 .. CHANGE_AT + Len(CHANGE) :
              Edited(page)[k] = IF k <= CHANGE_AT THEN page[k] ELSE CHANGE[k - CHANGE_AT]
<1> DEFINE m == Len(CHANGE)
           e == Edited(page)
<1>1. /\ KB \in Nat /\ CHANGE_AT \in Nat /\ m \in Nat /\ CHANGE_AT + m < KB
      /\ CHANGE \in Seq(BYTE) /\ 0 \in BYTE
  BY TestNumbers, Numbers
<1>2. DOMAIN page = 1 .. KB /\ DOMAIN CHANGE = 1 .. m
  BY <1>1
<1>3. \A k \in 1 .. m : CHANGE[k] \in BYTE
  BY <1>1
<1>4. \A k \in 1 .. KB : page[k] \in BYTE
  BY <1>1
<1> HIDE DEF m
<1>5. e = [k \in 1 .. KB |-> IF k - CHANGE_AT \in 1 .. m THEN CHANGE[k - CHANGE_AT]
                             ELSE IF k = CHANGE_AT + m + 2 THEN 0 ELSE page[k]]
  BY <1>2 DEF Edited, m
<1> HIDE DEF e
<1>6. e \in [1 .. KB -> BYTE]
  BY <1>1, <1>3, <1>4, <1>5
<1>7. e \in Seq(BYTE) /\ Len(e) = KB
  BY <1>1, <1>6
<1>8. ASSUME NEW k \in 1 .. CHANGE_AT + m
      PROVE  e[k] = IF k <= CHANGE_AT THEN page[k] ELSE CHANGE[k - CHANGE_AT]
  <2>1. /\ k \in 1 .. KB /\ k # CHANGE_AT + m + 2
        /\ (k - CHANGE_AT \in 1 .. m) <=> ~(k <= CHANGE_AT)
    BY <1>1
  <2> QED
    BY <1>5, <2>1
<1> QED
  BY <1>7, <1>8 DEF e, m

(* The page that RALLOC brings, edited, begins with what is to be saved.    *)
LEMMA RetrieveStep ==
  ASSUME TestInv, Retrieve
  PROVE  TestInv' /\ StreamsStay
<1> DEFINE page == Bytes(memstore[1].data, 0, KB)
<1>1. Asked("RALLOC") /\ RetrieveAlloc(1, 0)
  BY DEF Retrieve
<1>2. Wellformed /\ IInv /\ SmallPages
  BY DEF TestInv, StoreKept
<1>3. Known(1) /\ memstore' = memstore /\ files' = files /\ open' = open
  BY <1>1 DEF RetrieveAlloc, HasPage
<1>4. /\ PageSize(1) = KB /\ AllocSize(1) \in Nat /\ KB <= AllocSize(1) /\ KB \in Nat
      /\ memstore[1].data \in [0 .. AllocSize(1) - 1 -> BYTE]
  BY <1>2, <1>3, FirstFacts, TestNumbers
<1>5. answer'.data = page /\ answer'.command = "RALLOC"
  <2>1. 0 * PageSize(1) = 0
    BY <1>4
  <2> QED
    BY <1>1, <1>4, <2>1 DEF RetrieveAlloc, Answers
<1>6. Kept
  BY <1>1, <1>2, AnsweringKeeps
<1>7. page = [k \in 1 .. KB |-> memstore[1].data[k - 1]]
  BY DEF Bytes
<1>8. page \in Seq(BYTE) /\ Len(page) = KB
  <2>1. \A k \in 1 .. KB : memstore[1].data[k - 1] \in BYTE
    BY <1>4
  <2>2. page \in [1 .. KB -> BYTE]
    BY <1>7, <2>1
  <2> QED
    BY <1>4, <2>2
<1> HIDE DEF page
<1>9. SameSlots /\ Known(1)'
  BY <1>3, SameMemory
<1>10. /\ CarriedOut
       /\ fresh => /\ requests' = << >> /\ doing' = "answer"
                   /\ out_queue'[Len(out_queue')].data = page
  <2>1. IInv'
    BY <1>6 DEF Kept
  <2> QED
    BY <1>2, <1>5, <1>8, <2>1, PageGoesOut
<1>11. Now.command = "RALLOC" /\ Now.part \in 1 .. 3 /\ InPart("RALLOC", Now.part)
       /\ "RALLOC" \in Commands
  BY <1>1, <1>2, AskedIs
<1>12. ASSUME Good, GoesToNext, SavedSoFar, Work
       PROVE  SavedSoFar' /\ Work'
  <2>1. fresh
    BY <1>12 DEF Good
  <2>2. InHand' = Edited(page)
    BY <1>10, <2>1 DEF InHand
  <2>3. \A k \in 1 .. CHANGE_AT + Len(CHANGE) :
          Edited(page)[k] = IF k <= CHANGE_AT THEN page[k] ELSE CHANGE[k - CHANGE_AT]
    BY <1>8, EditedIs
  <2>4. Now'.command = "SALLOC"
    BY <1>11, <1>12, NextIs DEF GoesToNext
  <2>5. SavedSoFar'
    BY <1>2, <1>3, <1>11, <1>12, SavedStays
  <2>6. files[Script] \in Seq(BYTE) /\ Begins(memstore[1].data, CHANGE_AT, Page)
    BY <1>11, <1>12 DEF Work
  <2>7. \A k \in 1 .. SAVE[1] : InHand'[k] = Intended[1][k]
    <3> SUFFICES ASSUME NEW k \in 1 .. SAVE[1] PROVE Edited(page)[k] = Intended[1][k]
      BY <2>2
    <3>1. /\ Intended[1][k] = IF k <= CHANGE_AT THEN Page[k] ELSE CHANGE[k - CHANGE_AT]
      BY <2>6, IntendedIs
    <3>2. 1 \in 1 .. 3
      OBVIOUS
    <3>3. /\ SAVE[1] \in Nat /\ SAVE[1] <= CHANGE_AT + Len(CHANGE) /\ CHANGE_AT \in Nat
          /\ Len(CHANGE) \in Nat /\ CHANGE_AT + Len(CHANGE) < KB /\ KB \in Nat
      BY <3>2, TestNumbers
    <3>4. k \in 1 .. CHANGE_AT + Len(CHANGE) /\ k \in 1 .. KB
          /\ (k <= CHANGE_AT => k \in 1 .. CHANGE_AT)
      BY <3>3
    <3>5. Edited(page)[k] = IF k <= CHANGE_AT THEN page[k] ELSE CHANGE[k - CHANGE_AT]
      BY <2>3, <3>4
    <3>6. k <= CHANGE_AT => page[k] = Page[k]
      BY <1>7, <2>6, <3>4 DEF Begins
    <3> QED
      BY <3>1, <3>5, <3>6
  <2>8. Intended' = Intended
    BY <1>3, SameIntention
  <2>9. (\A k \in 1 .. SAVE[1] : InHand[k] = Intended[1][k])'
    BY <2>7, <2>8
  <2>10. Work'
    BY <1>3, <1>9, <2>4, <2>6, <2>9 DEF Work
  <2> QED
    BY <2>5, <2>10
<1> QED
  BY <1>3, <1>5, <1>6, <1>9, <1>10, <1>11, <1>12, CommandKeeps

(* No page follows a RALLOC that is refused. *)
LEMMA RetrieveNothingStep ==
  ASSUME TestInv, RetrieveNothing
  PROVE  TestInv' /\ StreamsStay
<1>1. Asked("RALLOC") /\ RetrieveRefused(1, 0) /\ Replied
  BY DEF RetrieveNothing
<1>2. /\ memstore' = memstore /\ files' = files
      /\ answer'.command = "RALLOC" /\ answer'.error # 0
  BY <1>1 DEF RetrieveRefused, Answers
<1>3. Kept
  BY <1>1, AnsweringKeeps DEF TestInv, StoreKept
<1>4. SameSlots
  BY <1>2, SameMemory
<1>5. "RALLOC" \in Commands \ {"CALLOC", "FALLOC"}
  BY DEF Commands
<1> QED
  BY <1>1, <1>2, <1>3, <1>4, <1>5, RefusedKeeps

(* A command of the middle that rewrites the allocation with what is to be  *)
(* saved.                                                                   *)
LEMMA EditKeeps ==
  ASSUME TestInv, Kept, NEW command \in {"SALLOC", "IALLOC", "XALLOC"},
         answer'.command = command, Asked(command), Replied,
         NEW d, Rewrites(1, d, memstore[1].file_id), files' = files,
         Good => Begins(d, SAVE[Now.part], Intended[Now.part])
  PROVE  TestInv' /\ StreamsStay
<1>1. Wellformed /\ IInv /\ IInv'
  BY DEF TestInv, StoreKept, Kept
<1>2. SameSlots /\ Known(1)' /\ memstore'[1].data = d
  BY <1>1, RewriteTaken
<1>3. CarriedOut
  BY <1>1, RepliedIs
<1>4. /\ Now.command = command /\ Now.part \in 1 .. 3 /\ InPart(command, Now.part)
      /\ command \in Commands
  BY <1>1, AskedIs
<1>5. ASSUME Good, GoesToNext, SavedSoFar, Work
      PROVE  SavedSoFar' /\ Work'
  <2>1. Now'.command = "PISALLOC" /\ Now'.part = Now.part
    BY <1>4, <1>5, NextIs DEF GoesToNext
  <2>2. SavedSoFar'
    BY <1>1, <1>4, <1>5, SavedStays
  <2>3. Intended' = Intended
    BY SameIntention
  <2>4. Begins(memstore[1].data, SAVE[Now.part], Intended[Now.part])'
    BY <1>2, <1>5, <2>1, <2>3 DEF Begins
  <2>5. files[Script] \in Seq(BYTE)
    BY <1>4, <1>5 DEF Work
  <2>6. Work'
    BY <1>2, <2>1, <2>4, <2>5 DEF Work
  <2> QED
    BY <2>2, <2>6
<1> QED
  BY <1>2, <1>3, <1>4, <1>5, CommandKeeps

(* A command of the middle that is refused. *)
LEMMA EditRefusedKeeps ==
  ASSUME TestInv, Kept, NEW command \in {"SALLOC", "IALLOC", "XALLOC"},
         answer'.command = command, Asked(command), Replied,
         answer'.error # 0, memstore' = memstore, files' = files
  PROVE  TestInv' /\ StreamsStay
<1>1. SameSlots
  BY SameMemory
<1>2. command \in Commands \ {"CALLOC", "FALLOC"}
  BY DEF Commands
<1> QED
  BY <1>1, <1>2, RefusedKeeps

(* SALLOC puts the edited page where it came from. *)
LEMMA StorePageStep ==
  ASSUME TestInv, StorePage
  PROVE  TestInv' /\ StreamsStay
<1> DEFINE page == requests[1].page
           d == CopiedIn(memstore[1].data, 0, page)
           n == AllocSize(1)
<1>1. /\ Asked("SALLOC") /\ Replied
      /\ StoreAlloc(1, 0, Head(requests).page) \/ StoreRefused(1, 0)
  BY DEF StorePage
<1>2. Wellformed /\ RequestsTyped /\ IInv /\ SmallPages /\ InGoodOrder
  BY DEF TestInv, StoreKept, Wellformed
<1>3. /\ requests # << >> /\ Len(requests) \in Nat /\ Len(requests) > 0
      /\ Head(requests) = requests[1] /\ Now = requests[1]
      /\ Now.command = "SALLOC" /\ Now.part = 1
  BY <1>1, <1>2, AskedIs DEF InPart
<1>4. page \in Seq(BYTE) /\ InHand = page
  <2>1. requests[1] \in Requests
    BY <1>2, <1>3 DEF RequestsTyped
  <2> QED
    BY <1>3, <2>1 DEF Requests, InHand
<1>5. StoreAlloc(1, 0, page) \/ StoreRefused(1, 0)
  BY <1>1, <1>3
<1> HIDE DEF page
<1>6. CASE StoreAlloc(1, 0, page)
  <2>1. Kept /\ files' = files /\ answer'.command = "SALLOC"
    BY <1>2, <1>4, <1>6, StoreKeeps DEF StoreAlloc, Answers
  <2>2. /\ PageSize(1) = KB /\ n \in Nat /\ KB <= n /\ KB \in Nat
        /\ memstore[1].data \in [0 .. n - 1 -> BYTE]
    BY <1>2, <1>6, FirstFacts, TestNumbers DEF StoreAlloc, HasPage
  <2>3. Rewrites(1, d, memstore[1].file_id) /\ Len(page) = KB
    <3>1. 0 * PageSize(1) = 0
      BY <2>2
    <3> QED
      BY <1>2, <1>4, <1>6, <2>2, <3>1, StoreRewrites
  <2>4. ASSUME Good
        PROVE  Begins(d, SAVE[Now.part], Intended[Now.part])
    <3>1. \A k \in 1 .. SAVE[1] : page[k] = Intended[1][k]
      BY <1>2, <1>3, <1>4, <2>4 DEF InGoodOrder, Work
    <3>2. SAVE[1] \in Nat /\ SAVE[1] <= KB
      <4>1. 1 \in 1 .. 3
        OBVIOUS
      <4> QED
        BY <4>1, TestNumbers
    <3>3. \A k \in 1 .. SAVE[1] : d[k - 1] = page[k]
      <4> SUFFICES ASSUME NEW k \in 1 .. SAVE[1] PROVE d[k - 1] = page[k]
        OBVIOUS
      <4>1. k - 1 \in DOMAIN memstore[1].data /\ k - 1 \in 0 .. 0 + Len(page) - 1
            /\ k - 1 - 0 + 1 = k
        BY <2>2, <2>3, <3>2
      <4> QED
        BY <4>1 DEF CopiedIn
    <3> QED
      BY <1>3, <3>1, <3>3 DEF Begins
  <2> HIDE DEF d
  <2> QED
    BY <1>1, <2>1, <2>3, <2>4, EditKeeps
<1>7. CASE StoreRefused(1, 0)
  <2>1. Kept
    BY <1>2, <1>7, AnsweringKeeps
  <2>2. /\ memstore' = memstore /\ files' = files
        /\ answer'.command = "SALLOC" /\ answer'.error # 0
    BY <1>7 DEF StoreRefused, Answers
  <2> QED
    BY <1>1, <2>1, <2>2, EditRefusedKeeps
<1> QED
  BY <1>5, <1>6, <1>7

(* IALLOC puts the insertion between what was before and what was behind.   *)
LEMMA InsertStep ==
  ASSUME TestInv, Insert
  PROVE  TestInv' /\ StreamsStay
<1> DEFINE at == INSERT_AT
           m == Len(INSERT)
           c == memstore[1].data
           n == AllocSize(1)
           u == MovedUp(c, at, m)
           d == CopiedIn(u, at, INSERT)
<1>1. /\ Asked("IALLOC") /\ Replied
      /\ InsertAlloc(1, at, INSERT) \/ InsertRefused(1, at, m)
  BY DEF Insert
<1>2. Wellformed /\ IInv /\ SmallPages /\ InGoodOrder
  BY DEF TestInv, StoreKept
<1>3. Now.command = "IALLOC" /\ Now.part = 2
  BY <1>1, <1>2, AskedIs DEF InPart
<1>4. INSERT \in Seq(BYTE) /\ m \in Nat /\ at \in Nat /\ KB \in Nat
  BY TestNumbers
<1>5. CASE InsertAlloc(1, at, INSERT)
  <2>1. Kept /\ files' = files /\ answer'.command = "IALLOC"
    BY <1>2, <1>4, <1>5, InsertKeeps DEF InsertAlloc, Answers
  <2>2. n \in Nat /\ KB <= n /\ c \in [0 .. n - 1 -> BYTE]
    BY <1>2, <1>5, FirstFacts DEF InsertAlloc, Inside
  <2>3. Rewrites(1, d, memstore[1].file_id)
    BY <1>2, <1>4, <1>5, InsertRewrites
  <2>4. ASSUME Good
        PROVE  Begins(d, SAVE[Now.part], Intended[Now.part])
    <3>1. files[Script] \in Seq(BYTE) /\ \A k \in 1 .. KB : c[k - 1] = Page[k]
      BY <1>2, <1>3, <2>4 DEF InGoodOrder, Work, Begins
    <3>2. SAVE[2] \in Nat /\ SAVE[2] <= KB
      <4>1. 2 \in 1 .. 3
        OBVIOUS
      <4> QED
        BY <4>1, TestNumbers
    <3>3. \A k \in 1 .. SAVE[2] :
            Intended[2][k] = IF k <= at THEN Page[k]
                             ELSE IF k <= at + m THEN INSERT[k - at] ELSE Page[k - m]
      BY <3>1, IntendedIs
    <3> HIDE DEF c, n, m
    <3>4. ASSUME NEW k \in 1 .. SAVE[2] PROVE d[k - 1] = Intended[2][k]
      <4>1. k \in 1 .. KB /\ k - 1 \in 0 .. n - 1 /\ k - 1 \in DOMAIN c
        BY <1>4, <2>2, <3>2
      <4>2. u[k - 1] = IF k - 1 >= at + m THEN c[k - 1 - m] ELSE c[k - 1]
        BY <4>1 DEF MovedUp
      <4>3. DOMAIN u = DOMAIN c
        BY DEF MovedUp
      <4> HIDE DEF u
      <4>4. d[k - 1] = IF k - 1 \in at .. at + m - 1 THEN INSERT[k - 1 - at + 1]
                       ELSE u[k - 1]
        BY <4>1, <4>3 DEF CopiedIn, m
      <4>5. CASE k <= at
        <5>1. k - 1 \notin at .. at + m - 1 /\ ~(k - 1 >= at + m)
          BY <1>4, <4>1, <4>5
        <5> QED
          BY <3>1, <3>3, <4>1, <4>2, <4>4, <4>5, <5>1
      <4>6. CASE k > at /\ k <= at + m
        <5>1. k - 1 \in at .. at + m - 1 /\ k - 1 - at + 1 = k - at /\ ~(k <= at)
          BY <1>4, <4>1, <4>6
        <5> QED
          BY <3>3, <4>4, <4>6, <5>1
      <4>7. CASE k > at + m
        <5>1. /\ k - 1 \notin at .. at + m - 1 /\ k - 1 >= at + m
              /\ k - m \in 1 .. KB /\ k - 1 - m = k - m - 1
              /\ ~(k <= at) /\ ~(k <= at + m)
          BY <1>4, <4>1, <4>7
        <5>2. c[k - m - 1] = Page[k - m]
          BY <3>1, <5>1
        <5> QED
          BY <3>3, <4>2, <4>4, <5>1, <5>2
      <4> QED
        BY <1>4, <4>1, <4>5, <4>6, <4>7
    <3> QED
      BY <1>3, <3>4 DEF Begins
  <2> HIDE DEF d
  <2> QED
    BY <1>1, <2>1, <2>3, <2>4, EditKeeps
<1>6. CASE InsertRefused(1, at, m)
  <2>1. Kept
    BY <1>2, <1>6, AnsweringKeeps
  <2>2. /\ memstore' = memstore /\ files' = files /\ answer'.command = "IALLOC"
        /\ answer'.error = IF Beyond(1, at, m) THEN 3 ELSE 1
    BY <1>6 DEF InsertRefused, Answers
  <2>3. answer'.error # 0
    BY <2>2
  <2> QED
    BY <1>1, <2>1, <2>2, <2>3, EditRefusedKeeps
<1> QED
  BY <1>1, <1>5, <1>6

(* XALLOC puts what was behind the cut in its place. *)
LEMMA CutStep ==
  ASSUME TestInv, Cut
  PROVE  TestInv' /\ StreamsStay
<1> DEFINE at == CUT_AT
           m == CUT
           c == memstore[1].data
           n == AllocSize(1)
           d == MovedDown(c, at, m, n)
<1>1. /\ Asked("XALLOC") /\ Replied
      /\ CutAlloc(1, at, m) \/ CutRefused(1, at, m)
  BY DEF Cut
<1>2. Wellformed /\ IInv /\ SmallPages /\ InGoodOrder
  BY DEF TestInv, StoreKept
<1>3. Now.command = "XALLOC" /\ Now.part = 3
  BY <1>1, <1>2, AskedIs DEF InPart
<1>4. m \in Nat /\ at \in Nat /\ KB \in Nat
  BY TestNumbers
<1>5. CASE CutAlloc(1, at, m)
  <2>1. Kept /\ files' = files /\ answer'.command = "XALLOC"
    BY <1>2, <1>4, <1>5, CutKeeps DEF CutAlloc, Answers
  <2>2. n \in Nat /\ KB <= n /\ c \in [0 .. n - 1 -> BYTE]
    BY <1>2, <1>5, FirstFacts DEF CutAlloc, Inside
  <2>3. Rewrites(1, d, memstore[1].file_id)
    BY <1>2, <1>4, <1>5, CutRewrites
  <2>4. ASSUME Good
        PROVE  Begins(d, SAVE[Now.part], Intended[Now.part])
    <3>1. files[Script] \in Seq(BYTE) /\ \A k \in 1 .. KB : c[k - 1] = Page[k]
      BY <1>2, <1>3, <2>4 DEF InGoodOrder, Work, Begins
    <3>2. SAVE[3] \in Nat /\ SAVE[3] + m <= KB
      <4>1. 3 \in 1 .. 3
        OBVIOUS
      <4> QED
        BY <4>1, TestNumbers
    <3>3. \A k \in 1 .. SAVE[3] :
            Intended[3][k] = IF k <= at THEN Page[k] ELSE Page[k + m]
      BY <3>1, IntendedIs
    <3> HIDE DEF c, n
    <3>4. ASSUME NEW k \in 1 .. SAVE[3] PROVE d[k - 1] = Intended[3][k]
      <4>1. /\ k \in 1 .. KB /\ k + m \in 1 .. KB /\ k - 1 \in 0 .. n - 1 /\ k - 1 \in DOMAIN c
            /\ k - 1 + m < n /\ k - 1 + m = k + m - 1
            /\ k - 1 < at <=> k <= at
        BY <1>4, <2>2, <3>2
      <4>2. d[k - 1] = IF k - 1 < at THEN c[k - 1]
                       ELSE IF k - 1 + m < n THEN c[k - 1 + m] ELSE 0
        BY <4>1 DEF MovedDown
      <4>3. c[k - 1] = Page[k]
        BY <3>1, <4>1
      <4>4. PICK j \in 1 .. KB : j = k + m
        BY <4>1
      <4>5. c[j - 1] = Page[j] /\ k - 1 + m = j - 1
        BY <1>4, <3>1, <4>1, <4>4
      <4> QED
        BY <3>3, <4>1, <4>2, <4>3, <4>4, <4>5
    <3> QED
      BY <1>3, <3>4 DEF Begins
  <2> HIDE DEF d
  <2> QED
    BY <1>1, <2>1, <2>3, <2>4, EditKeeps
<1>6. CASE CutRefused(1, at, m)
  <2>1. Kept
    BY <1>2, <1>6, AnsweringKeeps
  <2>2. /\ memstore' = memstore /\ files' = files /\ answer'.command = "XALLOC"
        /\ answer'.error = IF Beyond(1, at, m) THEN 2 ELSE 1
    BY <1>6 DEF CutRefused, Answers
  <2>3. answer'.error # 0
    BY <2>2
  <2> QED
    BY <1>1, <2>1, <2>2, <2>3, EditRefusedKeeps
<1> QED
  BY <1>1, <1>5, <1>6

-----------------------------------------------------------------------------
(* PISALLOC *)

(* The part of the allocation that is saved is in its file, and the files   *)
(* of the parts before are as they were.                                    *)
LEMMA SavingSaves ==
  ASSUME Wellformed, ScriptStays, IInv, Now.command = "PISALLOC", SavedSoFar, Work,
         GoesToNext,
         files' = [files EXCEPT ![Saved[Now.part]] =
                     Bytes(memstore[1].data, 0, SAVE[Now.part])]
  PROVE  SavedSoFar' /\ Work'
<1> DEFINE q == Now.part
           n == SAVE[q]
           s == Intended[q]
<1>1. /\ q \in 1 .. 3 /\ n \in Nat /\ Saved[q] \in FILE /\ Saved[q] # Script
      /\ \A p \in 1 .. 3 : Saved[p] \in FILE
      /\ \A p \in 1 .. 3 : Saved[p] = Saved[q] => p = q
      /\ InPart("PISALLOC", q) /\ "PISALLOC" \in Commands
  <2>1. q \in 1 .. 3 /\ InPart("PISALLOC", q)
    BY NowIs
  <2> QED
    BY <2>1, TestNumbers DEF Commands
<1>2. files[Script] \in Seq(BYTE) /\ Begins(memstore[1].data, n, s)
  BY DEF Work
<1>3. s \in Seq(BYTE) /\ n <= Len(s)
  BY <1>1, <1>2, IntendedIs
<1>4. Bytes(memstore[1].data, 0, n) = SubSeq(s, 1, n)
  BY <1>1, <1>2, <1>3, SavedBytes
<1>5. files \in [FILE -> {Missing} \cup Seq(BYTE)] /\ Script \in FILE
  BY TestNumbers DEF IInv
<1>6. Now'.command = "FALLOC" /\ Now'.part = q
  BY <1>1, NextIs DEF GoesToNext
<1> HIDE DEF q
<1>7. /\ files'[Saved[q]] = SubSeq(s, 1, n) /\ files'[Script] = files[Script]
      /\ \A p \in 1 .. 3 : p # q => files'[Saved[p]] = files[Saved[p]]
  BY <1>1, <1>4, <1>5 DEF q
<1>8. Intended' = Intended
  BY <1>7, SameIntention
<1>9. \A p \in 1 .. 3 : Done(p)' => p = q \/ Done(p)
  BY <1>6 DEF Done, q
<1>10. SavedSoFar'
  <2> SUFFICES ASSUME NEW p \in 1 .. 3, Done(p)'
               PROVE  files'[Saved[p]] = SubSeq(Intended[p], 1, SAVE[p])
    BY <1>8 DEF SavedSoFar
  <2>1. CASE p = q
    BY <1>7, <2>1
  <2>2. CASE p # q
    BY <1>7, <1>9, <2>2 DEF SavedSoFar
  <2> QED
    BY <2>1, <2>2
<1>11. Work'
  BY <1>6 DEF Work
<1> QED
  BY <1>10, <1>11

(* PISALLOC, whatever it answers, keeps what is to be kept. *)
LEMMA SaveStep ==
  ASSUME TestInv, Save
  PROVE  TestInv' /\ StreamsStay
<1> DEFINE f == Saved[Now.part]
           n == SAVE[Now.part]
<1>1. /\ Asked("PISALLOC") /\ Replied
      /\ \/ SaveAlloc(1, Saved[Head(requests).part], SAVE[Head(requests).part])
         \/ SaveNotOpened(1, SAVE[Head(requests).part])
         \/ SaveRefused(1, SAVE[Head(requests).part])
  BY DEF Save
<1>2. Wellformed /\ IInv /\ ScriptStays
  BY DEF TestInv, StoreKept
<1>3. /\ Head(requests).part = Now.part /\ Now.command = "PISALLOC" /\ Now.part \in 1 .. 3
      /\ "PISALLOC" \in Commands \ {"CALLOC", "FALLOC"}
  BY <1>1, <1>2, AskedIs DEF Commands
<1>4. SaveAlloc(1, f, n) \/ SaveNotOpened(1, n) \/ SaveRefused(1, n)
  BY <1>1, <1>3
<1>5. f \in FILE /\ f # Script /\ n \in Nat /\ n > 0
  BY <1>3, TestNumbers
<1>6. files \in [FILE -> {Missing} \cup Seq(BYTE)] /\ Script \in FILE
  BY <1>2, TestNumbers DEF IInv
<1>7. Known(1) /\ memstore' = [memstore EXCEPT ![1].file_id = FALSE] =>
        SameSlots /\ memstore'[1].file_id = FALSE
  BY <1>2, SaveRewrites, RewriteTaken
<1> HIDE DEF f, n
<1>8. CASE SaveAlloc(1, f, n)
  <2>1. Kept
    BY <1>2, <1>5, <1>8, SaveKeeps
  <2>2. /\ Known(1) /\ memstore' = [memstore EXCEPT ![1].file_id = FALSE]
        /\ answer'.command = "PISALLOC"
        /\ \E s : files' = [files EXCEPT ![f] = s]
        /\ answer'.error = 0 => files' = [files EXCEPT ![f] = Bytes(memstore[1].data, 0, n)]
    BY <1>8 DEF SaveAlloc, Answers
  <2>3. files'[Script] = files[Script]
    BY <1>5, <1>6, <2>2
  <2>4. CarriedOut
    BY <1>1, <1>2, <2>1, RepliedIs DEF Kept
  <2>5. ASSUME GoesToNext, answer'.error = 0, SavedSoFar, Work
        PROVE  SavedSoFar' /\ Work'
    <3>1. files' = [files EXCEPT ![f] = Bytes(memstore[1].data, 0, n)]
      BY <2>2, <2>5
    <3> QED
      BY <1>2, <1>3, <2>5, <3>1, SavingSaves DEF f, n
  <2> QED
    BY <1>3, <1>7, <2>1, <2>2, <2>3, <2>4, <2>5, CommandKeeps
<1>9. CASE SaveNotOpened(1, n)
  <2>1. Kept
    BY <1>2, <1>9, SaveNotOpenedKeeps
  <2>2. /\ Known(1) /\ memstore' = [memstore EXCEPT ![1].file_id = FALSE]
        /\ answer'.command = "PISALLOC" /\ answer'.error # 0 /\ files' = files
    BY <1>9 DEF SaveNotOpened, Answers
  <2> QED
    BY <1>1, <1>3, <1>7, <2>1, <2>2, RefusedKeeps
<1>10. CASE SaveRefused(1, n)
  <2>1. Kept
    BY <1>2, <1>10, AnsweringKeeps
  <2>2. /\ ~Known(1) /\ memstore' = memstore
        /\ answer'.command = "PISALLOC" /\ answer'.error # 0 /\ files' = files
    BY <1>5, <1>10 DEF SaveRefused, Answers
  <2>3. SameSlots /\ ~Known(1)'
    BY <2>2, SameMemory
  <2> QED
    BY <1>1, <1>3, <2>1, <2>2, <2>3, RefusedKeeps
<1> QED
  BY <1>4, <1>8, <1>9, <1>10

-----------------------------------------------------------------------------
(* FALLOC *)

(* FALLOC frees the first allocation, which has no stream. *)
LEMMA FreeTakes ==
  ASSUME IInv, SmallPages, FreeAlloc(1)
  PROVE  /\ 1 \in Taken /\ Taken' = Taken \ {1} /\ ~Known(1)' /\ SmallPages'
<1>1. 1 \in Slot /\ memstore[1].allocation_id = 1 /\ memstore' = [memstore EXCEPT ![1] = FreeSlot]
  BY DEF FreeAlloc
<1>2. memstore \in [Slot -> Records] /\ AllocId \subseteq Slot /\ FreeSlot.allocation_id = 0
  BY Numbers, FreeSlotOK DEF IInv
<1>3. /\ memstore'[1].allocation_id = 0
      /\ \A i \in Slot : i # 1 => memstore'[i] = memstore[i]
  BY <1>1, <1>2
<1>4. 1 \in Taken
  BY <1>1 DEF Taken, Known, AllocId
<1>5. Taken' = Taken \ {1} /\ ~Known(1)'
  BY <1>2, <1>3 DEF Taken, Known
<1>6. SmallPages'
  BY <1>2, <1>3, <1>5 DEF SmallPages, Taken
<1> QED
  BY <1>4, <1>5, <1>6

(* FALLOC ends a part; that of the last part ends the run. *)
LEMMA FreeStep ==
  ASSUME TestInv, Free
  PROVE  TestInv' /\ StreamsStay
<1>1. Asked("FALLOC") /\ Replied /\ (FreeAlloc(1) \/ FreeRefused(1))
  BY DEF Free
<1>2. /\ Wellformed /\ IInv /\ SmallPages /\ Counted /\ StreamClosed /\ ScriptStays
      /\ InGoodOrder
  BY DEF TestInv, StoreKept
<1>3. /\ Now.command = "FALLOC" /\ Now.part \in 1 .. 3 /\ InPart("FALLOC", Now.part)
      /\ Now.run \in Nat /\ "FALLOC" \in Commands
  BY <1>1, <1>2, AskedIs
<1>4. Kept /\ files' = files
  <2>1. CASE FreeAlloc(1)
    BY <1>2, <2>1, FreeKeeps DEF FreeAlloc
  <2>2. CASE FreeRefused(1)
    BY <1>2, <2>2, AnsweringKeeps DEF FreeRefused
  <2> QED
    BY <1>1, <2>1, <2>2
<1>5. CarriedOut /\ Wellformed' /\ (GoesToNext \/ LaterRun)
  <2>1. IInv'
    BY <1>4 DEF Kept
  <2>2. CarriedOut
    BY <1>1, <1>2, <2>1, RepliedIs
  <2> QED
    BY <2>2 DEF CarriedOut
<1>6. GoesToNext => /\ Now'.run = Now.run
                    /\ Now.part = 3 => Now'.command = "end" /\ Now'.part = 3
                    /\ Now.part < 3 => Now'.command = "CALLOC" /\ Now'.part = Now.part + 1
  BY <1>3, NextIs DEF GoesToNext
<1>7. LaterRun => Now'.command = "CALLOC" /\ Now'.run > Now.run /\ Now'.run \in Nat
  BY DEF LaterRun
<1>8. Now'.command \in {"CALLOC", "end"} /\ Now'.run \in Nat /\ Now'.run >= Now.run
  BY <1>3, <1>5, <1>6, <1>7
<1>9. StreamClosed' /\ ScriptStays'
  BY <1>2, <1>4, <1>8 DEF StreamClosed, ScriptStays
<1>10. SmallPages' /\ Counted' /\ (answer'.error = 0 => ~Known(1)')
  <2>1. /\ Cardinality(Taken) <= Now.run
        /\ IsFiniteSet(Taken) /\ Cardinality(Taken) \in Nat
    BY <1>2, TakenIsFinite DEF Counted
  <2>2. CASE FreeAlloc(1)
    <3>1. 1 \in Taken /\ Taken' = Taken \ {1} /\ ~Known(1)' /\ SmallPages'
      BY <1>2, <2>2, FreeTakes
    <3>2. Cardinality(Taken') = Cardinality(Taken) - 1
      BY <2>1, <3>1, FS_RemoveElement
    <3>3. Cardinality(Taken') < Now'.run /\ Cardinality(Taken') <= Now'.run
      BY <1>3, <1>8, <2>1, <3>2
    <3> QED
      BY <3>1, <3>3 DEF Counted
  <2>3. CASE FreeRefused(1)
    <3>1. memstore' = memstore /\ answer'.error = 1 /\ ~Known(1)
      BY <2>3, Numbers DEF FreeRefused, Answers, Known
    <3>2. SameSlots
      BY <3>1, SameMemory
    <3>3. SmallPages'
      BY <1>2, <3>2 DEF SmallPages, SameSlots
    <3>4. Cardinality(Taken) < Now.run
      BY <1>2, <1>3, <3>1 DEF Counted
    <3>5. Cardinality(Taken') < Now'.run /\ Cardinality(Taken') <= Now'.run
      BY <1>3, <1>8, <2>1, <3>2, <3>4 DEF SameSlots
    <3> QED
      BY <3>1, <3>3, <3>5 DEF Counted
  <2> QED
    BY <1>1, <2>2, <2>3
<1>11. InGoodOrder'
  <2> SUFFICES ASSUME Good, GoesToNext, answer'.error = 0
               PROVE  SavedSoFar' /\ Work'
    BY <1>5 DEF InGoodOrder, CarriedOut
  <2>1. SavedSoFar
    BY <1>2 DEF InGoodOrder
  <2>2. \A p \in 1 .. 3 : Done(p)' => Done(p)
    <3> DEFINE q == Now.part
               r == Now'.part
    <3>1. q \in 1 .. 3 /\ (q = 3 => r = 3) /\ (q < 3 => r = q + 1 /\ Now'.command = "CALLOC")
      BY <1>3, <1>6
    <3> HIDE DEF q, r
    <3>2. \A p \in 1 .. 3 : p < r => p <= q
      BY <3>1
    <3>3. \A p \in 1 .. 3 : p = r /\ Now'.command # "CALLOC" => p = q
      BY <3>1
    <3>4. \A p \in 1 .. 3 : p <= q => p < q \/ p = q
      BY <3>1
    <3> QED
      BY <1>3, <3>2, <3>3, <3>4 DEF Done, q, r
  <2>3. Intended' = Intended
    BY <1>4, SameIntention
  <2>4. SavedSoFar'
    BY <1>4, <2>1, <2>2, <2>3 DEF SavedSoFar
  <2>5. Work'
    BY <1>8, <1>10 DEF Work
  <2> QED
    BY <2>4, <2>5
<1>12. StreamsStay
  <2>1. CASE FreeAlloc(1)
    <3>1. answer'.id = 1 /\ Known(1)
      BY <2>1 DEF FreeAlloc, Answers, Known, AllocId
    <3>2. 1 \notin Loaded
      BY <1>2, <1>3, <3>1 DEF StreamClosed, Loaded
    <3> QED
      BY <1>4, <3>1, <3>2 DEF Kept, StreamsKept, StreamsStay
  <2>2. CASE FreeRefused(1)
    <3>1. memstore' = memstore /\ open' = open
      BY <2>2 DEF FreeRefused
    <3>2. Loaded' = Loaded
      BY <3>1 DEF Loaded
    <3> QED
      BY <3>1, <3>2 DEF StreamsStay
  <2> QED
    BY <1>1, <2>1, <2>2
<1> QED
  BY <1>4, <1>5, <1>9, <1>10, <1>11, <1>12 DEF Kept, TestInv, StoreKept

-----------------------------------------------------------------------------
(* What does nothing to the allocations: the test itself, and what the      *)
(* server does not carry out.                                               *)

(* The store is left alone, and the test is where it was or a later run     *)
(* begins.                                                                  *)
LEMMA StoreStays ==
  ASSUME TestInv, Wellformed', UNCHANGED vars,
         \/ Alike(Now', Now)
         \/ Now'.run \in Nat /\ Now'.run > Now.run /\ Now'.command # "FALLOC"
  PROVE  StoreKept' /\ StreamsStay
<1>1. memstore' = memstore /\ files' = files /\ open' = open /\ answer' = answer
  BY DEF vars
<1>2. /\ Wellformed /\ IInv /\ SmallPages /\ Counted /\ StreamClosed /\ ScriptStays
  BY DEF TestInv, StoreKept
<1>3. Now.run \in Nat /\ Cardinality(Taken) \in Nat
  BY <1>2, NowIs, TakenIsFinite
<1>4. SameSlots /\ (Known(1)' <=> Known(1)) /\ Loaded' = Loaded
  BY <1>1, SameMemory DEF Loaded
<1>5. IInv'
  BY <1>2, StutterHolds
<1>6. SmallPages' /\ ScriptStays'
  BY <1>1, <1>2, <1>4 DEF SmallPages, SameSlots, ScriptStays
<1>7. Counted'
  <2>1. Cardinality(Taken') = Cardinality(Taken) /\ Cardinality(Taken) <= Now.run
    BY <1>2, <1>4 DEF SameSlots, Counted
  <2>2. CASE Alike(Now', Now)
    BY <1>2, <1>4, <2>1, <2>2 DEF Alike, Counted
  <2>3. CASE Now'.run \in Nat /\ Now'.run > Now.run
    <3>1. Cardinality(Taken') < Now'.run /\ Cardinality(Taken') <= Now'.run
      BY <1>3, <2>1, <2>3
    <3> QED
      BY <3>1 DEF Counted
  <2> QED
    BY <2>2, <2>3
<1>8. StreamClosed'
  BY <1>1, <1>2, <1>4 DEF StreamClosed, Alike
<1>9. StreamsStay
  BY <1>1, <1>4 DEF StreamsStay
<1> QED
  BY <1>5, <1>6, <1>7, <1>8, <1>9 DEF StoreKept

(* And the run that is alone with the server has its page in hand still.    *)
LEMMA OrderStays ==
  ASSUME InGoodOrder, UNCHANGED vars,
         Good' => /\ Good /\ Alike(Now', Now)
                  /\ Now.command = "SALLOC" => InHand' = InHand
  PROVE  InGoodOrder'
<1> SUFFICES ASSUME Good' PROVE SavedSoFar' /\ Work'
  BY DEF InGoodOrder
<1>1. memstore' = memstore /\ files' = files
  BY DEF vars
<1>2. /\ Now'.command = Now.command /\ Now'.part = Now.part
      /\ Now.command = "SALLOC" => InHand' = InHand
  BY DEF Alike
<1>3. Page' = Page /\ Intended' = Intended /\ (Known(1)' <=> Known(1))
  BY <1>1, SameIntention DEF Known
<1>4. SavedSoFar /\ Work
  BY DEF InGoodOrder
<1>5. SavedSoFar'
  BY <1>1, <1>2, <1>3, <1>4 DEF SavedSoFar, Done
<1>6. Work'
  BY <1>1, <1>2, <1>3, <1>4 DEF Work, Begins
<1> QED
  BY <1>5, <1>6

(* With no command sent or taken, and none to come but that which came.     *)
LEMMA NoneMoves ==
  ASSUME Wellformed, requests' = requests, Alike(Coming', Coming)
  PROVE  RequestsTyped' /\ InLine' /\ Alike(Now', Now)
<1>1. RequestsTyped /\ InLine
  BY DEF Wellformed
<1>2. 0 \in 0 .. Len(requests) /\ Len(requests) \in Nat
  BY <1>1 DEF RequestsTyped
<1>3. /\ Len(requests') = Len(requests) - 0
      /\ \A i \in 1 .. Len(requests) - 0 : requests'[i] = requests[i + 0]
  BY <1>2
<1>4. InLine' /\ Alike(Now', Ask(0 + 1))
  BY <1>1, <1>2, <1>3, LineMoves
<1>5. RequestsTyped'
  BY <1>1 DEF RequestsTyped
<1> QED
  BY <1>4, <1>5 DEF Now

(* A packet is read, or a part of it. *)
LEMMA PacketLeaves ==
  ASSUME PacketsTyped, out_queue # << >>, lock' = lock, begun' \in BOOLEAN,
         \/ out_queue' = out_queue /\ begun'
         \/ out_queue' = Tail(out_queue) /\ (begun' => Len(out_queue) > 1)
  PROVE  PacketsTyped'
<1>1. /\ out_queue \in Seq(Packets) /\ lock \in BOOLEAN /\ Len(out_queue) \in Nat
      /\ \A i \in 1 .. Len(out_queue) :
           out_queue[i].type = "BinaryData" /\ (begun => i > 1) =>
             Len(out_queue[i].data) = KB
  BY DEF PacketsTyped
<1>2. CASE out_queue' = out_queue /\ begun'
  BY <1>1, <1>2 DEF PacketsTyped
<1>3. CASE out_queue' = Tail(out_queue) /\ (begun' => Len(out_queue) > 1)
  <2>1. /\ out_queue' \in Seq(Packets) /\ Len(out_queue') = Len(out_queue) - 1
        /\ \A i \in 1 .. Len(out_queue) - 1 : out_queue'[i] = out_queue[i + 1]
    BY <1>1, <1>3, TailIs
  <2>2. \A i \in 1 .. Len(out_queue') : /\ i + 1 \in 1 .. Len(out_queue) /\ i + 1 > 1
                                        /\ out_queue'[i] = out_queue[i + 1]
    BY <1>1, <2>1
  <2>3. begun' => out_queue' # << >>
    <3>1. begun' => Len(out_queue) > 1
      BY <1>3, Zenon
    <3>2. Len(out_queue) > 1 => out_queue' # << >>
      <4>1. Len(out_queue) > 1 => Len(out_queue') # 0
        BY <1>1, <2>1
      <4> QED
        BY <4>1
    <3> QED
      BY <3>1, <3>2, Zenon
  <2> QED
    BY <1>1, <2>1, <2>2, <2>3 DEF PacketsTyped
<1> QED
  BY <1>2, <1>3

(* The test goes on, in answer to which packet ever. *)
LEMMA GoingOn ==
  ASSUME ClientTyped, doing # "send", GoesOn, runs' = runs, fresh' = fresh,
         failed' \in BOOLEAN, buffer' \in Seq(BYTE), Len(buffer') \in {0, KB},
         next = "RALLOC" => Len(buffer') = KB
  PROVE  ClientTyped' /\ Alike(Coming', Coming)
<1>1. /\ next \in Commands /\ part \in 1 .. 3 /\ InPart(next, part)
      /\ fresh \in BOOLEAN /\ runs \in 0 .. MaxRuns
  BY DEF ClientTyped
<1>2. /\ doing' = "send" /\ next' = NextCommand(next, part) /\ part' = NextPart(next, part)
  BY DEF GoesOn
<1>3. /\ next' \in Commands \cup {"end"} /\ part' \in 1 .. 3 /\ InPart(next', part')
      /\ next' = "SALLOC" => next = "RALLOC"
  BY <1>1, <1>2, NextIs
<1>4. ClientTyped'
  BY <1>1, <1>2, <1>3 DEF ClientTyped
<1>5. Alike(Coming', Coming)
  BY <1>2 DEF Coming, Request, Alike
<1> QED
  BY <1>4, <1>5

(* After the answer to RALLOC the test waits for the page. *)
LEMMA AnswerIsRead ==
  ASSUME ClientTyped, doing = "answer", AfterAnswer, failed' \in BOOLEAN
  PROVE  /\ ClientTyped' /\ Alike(Coming', Coming)
         /\ requests' = requests /\ UNCHANGED vars /\ lock' = lock /\ fresh' = fresh
         /\ next = "RALLOC" => doing' = "page" /\ next' = next
         /\ next # "RALLOC" => doing' = "send"
<1>1. /\ buffer' = buffer /\ fresh' = fresh /\ runs' = runs /\ UNCHANGED vars
      /\ requests' = requests /\ lock' = lock
  BY DEF AfterAnswer
<1>2. CASE next = "RALLOC"
  <2>1. doing' = "page" /\ part' = part /\ next' = next
    BY <1>2 DEF AfterAnswer
  <2>2. ClientTyped'
    BY <1>1, <1>2, <2>1 DEF ClientTyped
  <2>3. Coming' = Coming
    BY <1>1, <2>1 DEF Coming
  <2> QED
    BY <1>1, <1>2, <2>1, <2>2, <2>3 DEF Alike
<1>3. CASE next # "RALLOC"
  <2>1. GoesOn
    BY <1>3 DEF AfterAnswer
  <2>2. buffer' \in Seq(BYTE) /\ Len(buffer') \in {0, KB}
    BY <1>1 DEF ClientTyped
  <2>3. ClientTyped' /\ Alike(Coming', Coming)
    BY <1>1, <1>3, <2>1, <2>2, GoingOn
  <2> QED
    BY <1>1, <1>3, <2>1, <2>3 DEF GoesOn
<1> QED
  BY <1>2, <1>3

(* What is next of a queue that has the packet that is waited for. *)
LEMMA ComesIs ==
  ASSUME PacketsTyped, NEW type, Comes(type)
  PROVE  /\ ~begun /\ out_queue # << >> /\ Len(out_queue) \in Nat /\ Len(out_queue) > 0
         /\ out_queue[1].type = type /\ Head(out_queue) = out_queue[1]
         /\ out_queue[1] \in Packets
         /\ Len(Tail(out_queue)) = Len(out_queue) - 1
         /\ \A i \in 1 .. Len(out_queue) - 1 : Tail(out_queue)[i] = out_queue[i + 1]
BY TailIs DEF PacketsTyped, Comes

(* The answer is read, and fails the run if it is an error.                 *)
LEMMA ReadAnswerStep ==
  ASSUME TestInv, ReadAnswer
  PROVE  TestInv' /\ StreamsStay
<1>1. /\ doing = "answer" /\ Comes("BinaryCommand") /\ AfterAnswer
      /\ failed' = (failed \/ Head(out_queue).error # 0)
      /\ out_queue' = Tail(out_queue) /\ begun' = begun
  BY DEF ReadAnswer
<1>2. /\ Wellformed /\ ClientTyped /\ RequestsTyped /\ PacketsTyped /\ Lockstep
      /\ InGoodOrder
  BY DEF TestInv, Wellformed
<1>3. failed \in BOOLEAN /\ failed' \in BOOLEAN
  BY <1>1, <1>2 DEF ClientTyped
<1>4. /\ ClientTyped' /\ Alike(Coming', Coming)
      /\ requests' = requests /\ UNCHANGED vars /\ lock' = lock /\ fresh' = fresh
      /\ next = "RALLOC" => doing' = "page" /\ next' = next
      /\ next # "RALLOC" => doing' = "send"
  BY <1>1, <1>2, <1>3, AnswerIsRead
<1>5. RequestsTyped' /\ InLine' /\ Alike(Now', Now)
  BY <1>2, <1>4, NoneMoves
<1>6. /\ ~begun /\ out_queue # << >> /\ Len(out_queue) \in Nat /\ Len(out_queue) > 0
      /\ Head(out_queue) = out_queue[1] /\ Len(out_queue') = Len(out_queue) - 1
      /\ \A i \in 1 .. Len(out_queue) - 1 : out_queue'[i] = out_queue[i + 1]
  BY <1>1, <1>2, ComesIs
<1>7. PacketsTyped'
  <2>1. begun' \in BOOLEAN /\ ~begun'
    BY <1>1, <1>2, <1>6 DEF PacketsTyped
  <2> QED
    BY <1>1, <1>2, <1>4, <1>6, <2>1, PacketLeaves
<1>8. fresh => /\ requests = << >> /\ (Len(out_queue) = 1 \/ Len(out_queue) = 2)
               /\ Len(out_queue) = 1 => (next = "RALLOC" => out_queue[1].error # 0)
               /\ Len(out_queue) = 2 => next = "RALLOC" /\ out_queue[2].type = "BinaryData"
  BY <1>1, <1>2, <1>6 DEF Lockstep
<1>9. Lockstep'
  <2> SUFFICES ASSUME fresh PROVE Lockstep'
    BY <1>4 DEF Lockstep
  <2>1. CASE Len(out_queue) = 1
    <3>1. out_queue' = << >>
      BY <1>6, <1>7, <2>1 DEF PacketsTyped
    <3> QED
      BY <1>1, <1>3, <1>4, <1>6, <1>8, <2>1, <3>1 DEF Lockstep
  <2>2. CASE Len(out_queue) = 2
    <3>1. Len(out_queue') = 1 /\ out_queue'[1] = out_queue[2]
      BY <1>6, <2>2
    <3> QED
      BY <1>1, <1>4, <1>6, <1>8, <2>2, <3>1 DEF Lockstep
  <2> QED
    BY <1>8, <2>1, <2>2
<1>10. Wellformed'
  BY <1>4, <1>5, <1>7, <1>9 DEF Wellformed
<1>11. ASSUME Good'
       PROVE  Good /\ (Now.command = "SALLOC" => InHand' = InHand)
  <2>1. /\ fresh /\ ~failed /\ out_queue[1].error = 0
        /\ \A i \in 1 .. Len(out_queue') : out_queue'[i].error = 0
    BY <1>1, <1>3, <1>4, <1>6, <1>11 DEF Good
  <2>2. ASSUME NEW i \in 1 .. Len(out_queue) PROVE out_queue[i].error = 0
    <3>1. CASE i = 1
      BY <2>1, <3>1
    <3>2. CASE i # 1
      <4>1. i - 1 \in 1 .. Len(out_queue') /\ i - 1 \in 1 .. Len(out_queue) - 1
        BY <1>6, <3>2
      <4>2. out_queue'[i - 1] = out_queue[i - 1 + 1] /\ i - 1 + 1 = i
        BY <1>6, <4>1
      <4> QED
        BY <2>1, <4>1, <4>2
    <3> QED
      BY <3>1, <3>2
  <2>3. Good
    BY <2>1, <2>2 DEF Good
  <2>4. ASSUME Now.command = "SALLOC" PROVE InHand' = InHand
    <3>1. requests = << >> /\ requests' = << >>
      BY <1>4, <1>8, <2>1
    <3>2. Coming.command = "SALLOC"
      BY <1>2, <2>4, <3>1, NowIs
    <3>3. /\ next \in Commands /\ part \in 1 .. 3 /\ InPart(next, part)
          /\ Coming.command = NextCommand(next, part)
      BY <1>1, <1>2, ComingIs DEF ClientTyped
    <3>4. next = "RALLOC"
      BY <3>2, <3>3, NextIs
    <3>5. Len(out_queue) = 2
      BY <1>8, <2>1, <3>4
    <3>6. Len(out_queue') = 1 /\ out_queue'[1] = out_queue[2]
      BY <1>6, <3>5
    <3> QED
      BY <1>1, <1>4, <3>1, <3>4, <3>5, <3>6 DEF InHand
  <2> QED
    BY <2>3, <2>4
<1>12. StoreKept' /\ StreamsStay
  BY <1>4, <1>5, <1>10, StoreStays
<1>13. InGoodOrder'
  BY <1>2, <1>4, <1>5, <1>11, OrderStays
<1> QED
  BY <1>10, <1>12, <1>13 DEF TestInv

(* The page is read, and edited in the response buffer.                     *)
LEMMA ReadPageStep ==
  ASSUME TestInv, ReadPage
  PROVE  TestInv' /\ StreamsStay
<1>1. /\ doing = "page" /\ Comes("BinaryData") /\ GoesOn
      /\ buffer' = Edited(Head(out_queue).data)
      /\ out_queue' = Tail(out_queue) /\ begun' = begun
      /\ failed' = failed /\ fresh' = fresh /\ runs' = runs /\ UNCHANGED vars
      /\ requests' = requests /\ lock' = lock
  BY DEF ReadPage
<1>2. /\ Wellformed /\ ClientTyped /\ RequestsTyped /\ PacketsTyped /\ Lockstep
      /\ InGoodOrder /\ failed \in BOOLEAN /\ doing' = "send"
  BY <1>1 DEF TestInv, Wellformed, ClientTyped, GoesOn
<1>3. /\ ~begun /\ out_queue # << >> /\ Len(out_queue) \in Nat /\ Len(out_queue) > 0
      /\ Head(out_queue) = out_queue[1] /\ Len(out_queue') = Len(out_queue) - 1
      /\ out_queue[1] \in Packets /\ out_queue[1].type = "BinaryData"
  BY <1>1, <1>2, ComesIs
<1>4. buffer' \in Seq(BYTE) /\ Len(buffer') = KB
  <2>1. out_queue[1].data \in Seq(BYTE)
    BY <1>3 DEF Packets
  <2>2. Len(out_queue[1].data) = KB
    BY <1>2, <1>3 DEF PacketsTyped
  <2> QED
    BY <1>1, <1>3, <2>1, <2>2, EditedIs
<1>5. ClientTyped' /\ Alike(Coming', Coming)
  BY <1>1, <1>2, <1>4, GoingOn
<1>6. RequestsTyped' /\ InLine' /\ Alike(Now', Now)
  BY <1>1, <1>2, <1>5, NoneMoves
<1>7. PacketsTyped'
  <2>1. begun' \in BOOLEAN /\ ~begun'
    BY <1>1, <1>2, <1>3 DEF PacketsTyped
  <2> QED
    BY <1>1, <1>2, <1>3, <2>1, PacketLeaves
<1>8. fresh => requests = << >> /\ Len(out_queue) = 1 /\ out_queue' = << >>
  <2> SUFFICES ASSUME fresh
               PROVE  requests = << >> /\ Len(out_queue) = 1 /\ out_queue' = << >>
    OBVIOUS
  <2>1. requests = << >> /\ Len(out_queue) = 1
    BY <1>1, <1>2, <1>3 DEF Lockstep
  <2>2. out_queue' = << >>
    BY <1>3, <1>7, <2>1 DEF PacketsTyped
  <2> QED
    BY <2>1, <2>2
<1>9. Lockstep'
  BY <1>1, <1>2, <1>3, <1>8 DEF Lockstep
<1>10. Wellformed'
  BY <1>5, <1>6, <1>7, <1>9 DEF Wellformed
<1>11. ASSUME Good'
       PROVE  Good /\ InHand' = InHand
  <2>1. fresh /\ ~failed
    BY <1>1, <1>11 DEF Good
  <2>2. InHand = Edited(out_queue[1].data)
    BY <1>1, <1>8, <2>1 DEF InHand
  <2>3. InHand' = buffer'
    BY <1>1, <1>2, <1>8, <2>1 DEF InHand
  <2>4. out_queue[1].error = 0
    BY <1>3 DEF Packets
  <2> QED
    BY <1>1, <1>3, <1>8, <2>1, <2>2, <2>3, <2>4 DEF Good
<1>12. StoreKept' /\ StreamsStay
  BY <1>1, <1>6, <1>10, StoreStays
<1>13. InGoodOrder'
  BY <1>1, <1>2, <1>6, <1>11, OrderStays
<1> QED
  BY <1>10, <1>12, <1>13 DEF TestInv

(* What is taken for an answer or a page is none only behind what an        *)
(* earlier run has left.                                                    *)
LEMMA MisreadIs ==
  ASSUME Wellformed, NEW type,
         type = IF doing = "answer" THEN "BinaryCommand" ELSE "BinaryData",
         doing # "send", Misread(type), lock' = lock
  PROVE  ~fresh /\ PacketsTyped'
<1>1. PacketsTyped /\ ClientTyped /\ Lockstep
  BY DEF Wellformed
<1>2. /\ out_queue # << >> /\ ~(out_queue # << >> /\ ~begun /\ Head(out_queue).type = type)
      /\ \/ begun' = TRUE /\ out_queue' = out_queue
         \/ begun /\ begun' = FALSE /\ out_queue' = Tail(out_queue)
         \/ begun /\ Len(out_queue) > 1 /\ out_queue' = Tail(out_queue) /\ begun' = begun
  BY DEF Misread, Comes
<1>3. Len(out_queue) \in Nat /\ Len(out_queue) > 0 /\ Head(out_queue) = out_queue[1]
  BY <1>1, <1>2, TailIs DEF PacketsTyped
<1>4. ~fresh
  <2> SUFFICES ASSUME fresh PROVE FALSE
    OBVIOUS
  <2>1. ~begun /\ out_queue[1].type # type
    BY <1>1, <1>2, <1>3 DEF Lockstep
  <2>2. CASE doing = "answer"
    <3>1. out_queue[1].type = "BinaryCommand"
      BY <1>1, <1>2, <2>2 DEF Lockstep
    <3> QED
      BY <2>1, <2>2, <3>1
  <2>3. CASE doing = "page"
    <3>1. out_queue[1].type = "BinaryData"
      BY <1>1, <1>2, <2>3 DEF Lockstep
    <3> QED
      BY <2>1, <2>3, <3>1
  <2> QED
    BY <1>1, <2>2, <2>3 DEF ClientTyped
<1>5. begun \in BOOLEAN /\ begun' \in BOOLEAN
  BY <1>1, <1>2 DEF PacketsTyped
<1>6. PacketsTyped'
  <2>1. CASE begun' = TRUE /\ out_queue' = out_queue
    BY <1>1, <1>2, <1>5, <2>1, PacketLeaves
  <2>2. CASE begun' = FALSE /\ out_queue' = Tail(out_queue)
    BY <1>1, <1>2, <1>5, <2>2, PacketLeaves
  <2>3. CASE Len(out_queue) > 1 /\ out_queue' = Tail(out_queue)
    BY <1>1, <1>2, <1>5, <2>3, PacketLeaves
  <2> QED
    BY <1>2, <2>1, <2>2, <2>3, Zenon
<1> QED
  BY <1>4, <1>6

(* Of a run that found something under way nothing is said but its place.   *)
LEMMA AstrayKeeps ==
  ASSUME TestInv, ~fresh, fresh' = fresh, ClientTyped', PacketsTyped',
         requests' = requests, Alike(Coming', Coming), UNCHANGED vars
  PROVE  TestInv' /\ StreamsStay
<1>1. RequestsTyped' /\ InLine' /\ Alike(Now', Now)
  BY NoneMoves DEF TestInv
<1>2. Lockstep' /\ InGoodOrder'
  BY DEF Lockstep, InGoodOrder, Good
<1>3. Wellformed'
  BY <1>1, <1>2 DEF Wellformed
<1> QED
  BY <1>1, <1>2, <1>3, StoreStays DEF TestInv

(* Six bytes of something else are taken for the answer. *)
LEMMA MisreadAnswerStep ==
  ASSUME TestInv, MisreadAnswer
  PROVE  TestInv' /\ StreamsStay
<1>1. /\ doing = "answer" /\ Misread("BinaryCommand") /\ AfterAnswer /\ failed' = failed
  BY DEF MisreadAnswer
<1>2. Wellformed /\ ClientTyped /\ failed' \in BOOLEAN
  BY <1>1 DEF TestInv, Wellformed, ClientTyped
<1>3. /\ ClientTyped' /\ Alike(Coming', Coming)
      /\ requests' = requests /\ UNCHANGED vars /\ lock' = lock /\ fresh' = fresh
  BY <1>1, <1>2, AnswerIsRead
<1>4. ~fresh /\ PacketsTyped'
  BY <1>1, <1>2, <1>3, MisreadIs
<1> QED
  BY <1>3, <1>4, AstrayKeeps

(* And for the page: then a page of nothing is edited. *)
LEMMA MisreadPageStep ==
  ASSUME TestInv, MisreadPage
  PROVE  TestInv' /\ StreamsStay
<1>1. /\ doing = "page" /\ Misread("BinaryData") /\ GoesOn
      /\ buffer' = Edited(NoPage)
      /\ failed' = failed /\ fresh' = fresh /\ runs' = runs /\ UNCHANGED vars
      /\ requests' = requests /\ lock' = lock
  BY DEF MisreadPage
<1>2. Wellformed /\ ClientTyped /\ failed' \in BOOLEAN
  BY <1>1 DEF TestInv, Wellformed, ClientTyped
<1>3. buffer' \in Seq(BYTE) /\ Len(buffer') = KB
  <2>1. KB \in Nat /\ 0 \in BYTE
    BY Numbers
  <2>2. NoPage \in Seq(BYTE) /\ Len(NoPage) = KB
    BY <2>1 DEF NoPage
  <2> QED
    BY <1>1, <2>2, EditedIs
<1>4. ClientTyped' /\ Alike(Coming', Coming)
  BY <1>1, <1>2, <1>3, GoingOn
<1>5. ~fresh /\ PacketsTyped'
  BY <1>1, <1>2, MisreadIs
<1> QED
  BY <1>1, <1>4, <1>5, AstrayKeeps

(* Broken off or not: the lock runs out, whatever it has counted. *)
LEMMA LockEndsStep ==
  ASSUME TestInv, LockEnds
  PROVE  TestInv' /\ StreamsStay
<1>1. /\ lock' = FALSE /\ UNCHANGED clientVars /\ UNCHANGED vars
      /\ requests' = requests /\ out_queue' = out_queue /\ begun' = begun
  BY DEF LockEnds
<1>2. /\ part' = part /\ next' = next /\ doing' = doing /\ buffer' = buffer
      /\ failed' = failed /\ fresh' = fresh /\ runs' = runs
  BY <1>1 DEF clientVars
<1>3. Wellformed /\ ClientTyped /\ PacketsTyped /\ Lockstep /\ InGoodOrder
  BY DEF TestInv, Wellformed
<1>4. Coming' = Coming
  BY <1>2 DEF Coming, Request
<1>5. RequestsTyped' /\ InLine' /\ Alike(Now', Now)
  BY <1>1, <1>3, <1>4, NoneMoves DEF Alike
<1>6. ClientTyped' /\ PacketsTyped' /\ Lockstep'
  BY <1>1, <1>2, <1>3 DEF ClientTyped, PacketsTyped, Lockstep
<1>7. Wellformed'
  BY <1>5, <1>6 DEF Wellformed
<1>8. InHand' = InHand /\ (Good' => Good)
  BY <1>1, <1>2 DEF InHand, Good
<1>9. StoreKept' /\ StreamsStay
  BY <1>1, <1>5, <1>7, StoreStays
<1>10. InGoodOrder'
  BY <1>1, <1>3, <1>5, <1>8, OrderStays
<1> QED
  BY <1>7, <1>9, <1>10 DEF TestInv

(* Commands that were cut are dropped; what comes behind them is of a later *)
(* run, and no FALLOC.                                                      *)
LEMMA DiscardStep ==
  ASSUME TestInv, Discard
  PROVE  TestInv' /\ StreamsStay
<1>1. /\ requests # << >> /\ ~Head(requests).whole
      /\ UNCHANGED clientVars /\ UNCHANGED vars
      /\ out_queue' = out_queue /\ begun' = begun /\ lock' = lock
  BY DEF Discard
<1>2. /\ Wellformed /\ ClientTyped /\ RequestsTyped /\ PacketsTyped /\ InLine /\ Lockstep
      /\ requests \in Seq(Requests)
  BY DEF TestInv, Wellformed, RequestsTyped
<1>3. PICK n \in 1 .. Len(requests) :
        /\ \A i \in 2 .. n :
             requests[i].command \in {"CALLOC", "PILALLOC", "RALLOC", "SALLOC"}
        /\ requests' = SubSeq(requests, n + 1, Len(requests))
  BY DEF Discard
<1>4. /\ Len(requests) \in Nat /\ n \in Nat /\ n >= 1 /\ n <= Len(requests)
      /\ n \in 0 .. Len(requests) /\ Head(requests) = requests[1] /\ Now = requests[1]
  BY <1>1, <1>2, TailIs, NowIs
<1>5. /\ part' = part /\ next' = next /\ doing' = doing /\ buffer' = buffer
      /\ failed' = failed /\ fresh' = fresh /\ runs' = runs
  BY <1>1 DEF clientVars
<1>6. /\ requests' \in Seq(Requests) /\ Len(requests') = Len(requests) - n
      /\ \A i \in 1 .. Len(requests) - n : requests'[i] = requests[i + n]
  BY <1>2, <1>3, <1>4, RestIs
<1>7. RequestsTyped'
  <2>1. \A i \in 1 .. Len(requests') : i + n \in 1 .. Len(requests)
                                       /\ requests'[i] = requests[i + n]
    BY <1>4, <1>6
  <2> QED
    BY <1>2, <1>6, <2>1 DEF RequestsTyped
<1>8. InLine' /\ Alike(Now', Ask(n + 1))
  <2>1. Alike(Coming', Coming)
    BY <1>5 DEF Coming, Request, Alike
  <2> QED
    BY <1>2, <1>4, <1>6, <2>1, LineMoves
<1>9. ~fresh
  <2>1. Len(requests) > 0
    BY <1>4
  <2> QED
    BY <1>1, <1>2, <1>4, <2>1 DEF Lockstep
<1>10. ClientTyped' /\ PacketsTyped' /\ Lockstep'
  BY <1>1, <1>2, <1>5, <1>9 DEF ClientTyped, PacketsTyped, Lockstep
<1>11. Wellformed'
  BY <1>7, <1>8, <1>10 DEF Wellformed
<1>12. Ask(n + 1).run \in Nat
  <2>1. CASE n + 1 <= Len(requests)
    <3>1. requests[n + 1] \in Requests
      BY <1>2, <1>4, <2>1
    <3>2. requests[n + 1].run \in Nat
      BY <3>1 DEF Requests
    <3> QED
      BY <2>1, <3>2 DEF Ask
  <2>2. CASE ~(n + 1 <= Len(requests))
    BY <1>2, <2>2, ComingIs DEF Ask
  <2> QED
    BY <2>1, <2>2
<1>13. Ask(n + 1).run > Now.run
  <2>1. 1 \in 1 .. Len(requests) /\ n + 1 \in 1 .. Len(requests) + 1 /\ 1 < n + 1
    BY <1>4
  <2>2. Later(Ask(1), Ask(n + 1)) /\ Now.run \in Nat
    BY <1>2, <2>1, NowIs DEF InLine
  <2> QED
    BY <1>1, <1>4, <1>12, <2>2 DEF Later, Now
<1>14. Ask(n + 1).command # "FALLOC"
  <2>1. Follows(Ask(n), Ask(n + 1)) /\ Ask(n) = requests[n]
    BY <1>2, <1>4 DEF InLine, Ask
  <2>2. CASE n = 1
    BY <1>1, <1>4, <2>1, <2>2 DEF Follows
  <2>3. CASE n # 1
    <3>1. n \in 2 .. n /\ n \in 1 .. Len(requests)
      BY <1>4, <2>3
    <3>2. requests[n].command \in {"CALLOC", "PILALLOC", "RALLOC", "SALLOC"}
      BY <1>3, <3>1
    <3>3. requests[n] \in Requests /\ InPart(requests[n].command, requests[n].part)
      BY <1>2, <3>1 DEF RequestsTyped
    <3>4. requests[n].command \in Commands /\ requests[n].part \in 1 .. 3
      BY <3>3 DEF Requests
    <3>5. NextCommand(requests[n].command, requests[n].part) # "FALLOC"
      BY <3>2, <3>3, <3>4, NextIs
    <3> QED
      BY <2>1, <3>5 DEF Follows
  <2> QED
    BY <2>2, <2>3
<1>15. StoreKept' /\ StreamsStay
  <2>1. Now'.run \in Nat /\ Now'.run > Now.run /\ Now'.command # "FALLOC"
    BY <1>8, <1>12, <1>13, <1>14 DEF Alike
  <2> QED
    BY <1>1, <1>11, <2>1, StoreStays
<1>16. InGoodOrder'
  BY <1>5, <1>9 DEF InGoodOrder, Good
<1> QED
  BY <1>11, <1>15, <1>16 DEF TestInv

-----------------------------------------------------------------------------
(* A command is sent, and the test is run again. *)

(* What is sent is a command as it should be. *)
LEMMA RequestIs ==
  ASSUME ClientTyped, doing = "send", next # "end", NEW whole \in BOOLEAN
  PROVE  /\ Request(whole) \in Requests
         /\ Request(whole).command = next /\ Request(whole).part = part
         /\ Request(whole).run = runs /\ Request(whole).whole = whole
         /\ next = "SALLOC" => Request(whole).page = buffer /\ Len(Request(whole).page) = KB
         /\ Alike(Request(whole), Coming)
<1>1. /\ next \in Commands /\ part \in 1 .. 3 /\ runs \in Nat /\ buffer \in Seq(BYTE)
      /\ next = "SALLOC" => Len(buffer) = KB
      /\ << >> \in Seq(BYTE)
  BY TestNumbers DEF ClientTyped
<1> QED
  BY <1>1 DEF Request, Requests, Coming, Alike

(* What is sent comes last in line. *)
LEMMA SendStep ==
  ASSUME TestInv, Send
  PROVE  TestInv' /\ StreamsStay
<1>1. /\ doing = "send" /\ next # "end"
      /\ requests' = Append(requests, Request(TRUE))
      /\ doing' = "answer" /\ buffer' = << >>
      /\ part' = part /\ next' = next /\ failed' = failed /\ fresh' = fresh /\ runs' = runs
      /\ UNCHANGED vars /\ out_queue' = out_queue /\ begun' = begun /\ lock' = lock
  BY DEF Send
<1>2. /\ Wellformed /\ ClientTyped /\ RequestsTyped /\ PacketsTyped /\ InLine /\ Lockstep
      /\ InGoodOrder /\ requests \in Seq(Requests)
  BY DEF TestInv, Wellformed, RequestsTyped
<1> DEFINE q == Request(TRUE)
<1>3. /\ q \in Requests /\ q.command = next /\ q.part = part /\ q.run = runs /\ q.whole
      /\ next = "SALLOC" => q.page = buffer /\ Len(q.page) = KB
      /\ q = Coming
  BY <1>1, <1>2, RequestIs, ComingIs
<1>q. requests' = Append(requests, q)
  BY <1>1
<1> HIDE DEF q
<1>4. PICK k \in Nat : k = Len(requests)
  BY <1>2
<1>5. /\ requests' \in Seq(Requests) /\ Len(requests') = k + 1
      /\ \A i \in 1 .. k : requests'[i] = requests[i]
      /\ requests'[k + 1] = q
  BY <1>2, <1>3, <1>4, <1>q, AppendIs
<1>6. \A i \in 1 .. k + 1 : i \in 1 .. k \/ i = k + 1
  OBVIOUS
<1>7. next \in Commands /\ part \in 1 .. 3 /\ InPart(next, part) /\ runs \in Nat
  BY <1>1, <1>2, TestNumbers DEF ClientTyped
<1>8. ClientTyped'
  <2>1. << >> \in Seq(BYTE) /\ Len(<< >>) = 0
    OBVIOUS
  <2> QED
    BY <1>1, <1>2, <2>1 DEF ClientTyped
<1>9. RequestsTyped'
  BY <1>2, <1>3, <1>4, <1>5, <1>6, <1>7 DEF RequestsTyped
<1>10. /\ Coming'.command = NextCommand(next, part) /\ Coming'.part = NextPart(next, part)
       /\ Coming'.run = runs
  BY <1>1 DEF Coming
<1>11. \A i \in 1 .. k + 1 : Ask(i)' = Ask(i)
  <2> SUFFICES ASSUME NEW i \in 1 .. k + 1 PROVE Ask(i)' = Ask(i)
    OBVIOUS
  <2>1. CASE i \in 1 .. k
    BY <1>4, <1>5, <2>1 DEF Ask
  <2>2. CASE i = k + 1
    BY <1>3, <1>4, <1>5, <2>2 DEF Ask
  <2> QED
    BY <1>6, <2>1, <2>2
<1>12. Ask(k + 1 + 1)' = Coming' /\ Ask(k + 1) = q
  BY <1>3, <1>4, <1>5 DEF Ask
<1>13. InLine'
  <2>1. ASSUME NEW i \in 1 .. k + 1 PROVE Follows(Ask(i)', Ask(i + 1)')
    <3>1. CASE i \in 1 .. k
      <4>1. i + 1 \in 1 .. k + 1
        BY <3>1
      <4>2. Follows(Ask(i), Ask(i + 1))
        BY <1>2, <1>4, <3>1 DEF InLine
      <4> QED
        BY <1>11, <4>1, <4>2
    <3>2. CASE i = k + 1
      <4>1. Ask(i)' = q /\ Ask(i + 1)' = Coming'
        BY <1>11, <1>12, <3>2
      <4>2. Follows(q, Coming')
        BY <1>3, <1>10 DEF Follows
      <4> QED
        BY <4>1, <4>2
    <3> QED
      BY <1>6, <3>1, <3>2
  <2>2. ASSUME NEW i \in 1 .. k + 1, NEW j \in 1 .. k + 2, i < j
        PROVE  Later(Ask(i)', Ask(j)')
    <3>1. CASE i \in 1 .. k /\ j \in 1 .. k + 1
      <4>1. Later(Ask(i), Ask(j))
        BY <1>2, <1>4, <2>2, <3>1 DEF InLine
      <4> QED
        BY <1>11, <3>1, <4>1
    <3>2. CASE i \in 1 .. k /\ j = k + 2
      <4>1. Later(Ask(i), Ask(k + 1))
        BY <1>2, <1>4, <3>2 DEF InLine
      <4>2. Ask(j)' = Coming' /\ k + 2 = k + 1 + 1 /\ Ask(i)' = Ask(i)
        BY <1>11, <1>12, <3>2
      <4> QED
        BY <1>3, <1>10, <1>12, <4>1, <4>2 DEF Later
    <3>3. CASE i = k + 1
      <4>1. j = k + 1 + 1
        BY <2>2, <3>3
      <4>2. Ask(i)' = q /\ Ask(j)' = Coming'
        BY <1>11, <1>12, <3>3, <4>1
      <4> QED
        BY <1>3, <1>7, <1>10, <4>2 DEF Later
    <3> QED
      BY <1>6, <2>2, <3>1, <3>2, <3>3
  <2> QED
    BY <1>4, <1>5, <2>1, <2>2 DEF InLine
<1>14. PacketsTyped'
  BY <1>1, <1>2 DEF PacketsTyped
<1>15. fresh => requests = << >> /\ k = 0 /\ out_queue = << >> /\ ~begun
  BY <1>1, <1>2, <1>4 DEF Lockstep
<1>16. Lockstep'
  <2> SUFFICES ASSUME fresh PROVE Lockstep'
    BY <1>1 DEF Lockstep
  <2>1. Len(requests') = 1 /\ requests'[1] = q
    BY <1>5, <1>15
  <2> QED
    BY <1>1, <1>3, <1>15, <2>1 DEF Lockstep
<1>17. Wellformed'
  BY <1>8, <1>9, <1>13, <1>14, <1>16 DEF Wellformed
<1>18. Alike(Now', Now)
  BY <1>11 DEF Now, Alike
<1>19. StoreKept' /\ StreamsStay
  BY <1>1, <1>17, <1>18, StoreStays
<1>20. ASSUME Good'
       PROVE  Good /\ (Now.command = "SALLOC" => InHand' = InHand)
  <2>1. Good /\ fresh
    BY <1>1, <1>20 DEF Good
  <2>2. ASSUME Now.command = "SALLOC" PROVE InHand' = InHand
    <3>1. Now = q
      BY <1>12, <1>15, <2>1 DEF Now
    <3>2. q.page = buffer
      BY <1>3, <2>2, <3>1
    <3>3. requests' # << >> /\ requests'[1] = q
      BY <1>5, <1>15, <2>1
    <3> QED
      BY <1>1, <1>15, <2>1, <3>2, <3>3 DEF InHand
  <2> QED
    BY <2>1, <2>2
<1>21. InGoodOrder'
  BY <1>1, <1>2, <1>18, <1>20, OrderStays
<1> QED
  BY <1>17, <1>19, <1>21 DEF TestInv

(* The last of some commands, cut. *)
LEMMA CutIs ==
  ASSUME NEW s \in Seq(Requests), NEW n \in 1 .. Len(s)
  PROVE  LET t == [s EXCEPT ![n].whole = FALSE] IN
         /\ t \in Seq(Requests) /\ Len(t) = Len(s)
         /\ \A i \in 1 .. Len(s) : i # n => t[i] = s[i]
         /\ Alike(t[n], s[n]) /\ t[n].page = s[n].page
<1> DEFINE r == [s[n] EXCEPT !.whole = FALSE]
           t == [s EXCEPT ![n] = r]
<1>1. s[n] \in Requests
  OBVIOUS
<1>2. r \in Requests /\ Alike(r, s[n]) /\ r.page = s[n].page
  BY <1>1 DEF Requests, Alike
<1>3. [s EXCEPT ![n].whole = FALSE] = t
  OBVIOUS
<1> HIDE DEF r
<1>4. /\ t \in Seq(Requests) /\ Len(t) = Len(s) /\ t[n] = r
      /\ \A i \in 1 .. Len(s) : i # n => t[i] = s[i]
  BY <1>2
<1> QED
  BY <1>2, <1>3, <1>4

(* The commands that are left of those of the runs before are in line, and  *)
(* the first of the new run is behind them.                                 *)
LEMMA RunsInLine ==
  ASSUME Wellformed, Run
  PROVE  /\ RequestsTyped' /\ InLine' /\ Coming'.command = "CALLOC" /\ Coming'.part = 1
         /\ \/ Alike(Now', Now)
            \/ Now'.run \in Nat /\ Now'.run > Now.run /\ Now'.command # "FALLOC"
         /\ requests' = << >> => Now' = Coming'
<1> DEFINE sent == IF doing = "send" /\ next # "end"
                      THEN Append(requests, Request(FALSE)) ELSE requests
<1>1. /\ part' = 1 /\ next' = "CALLOC" /\ doing' = "send" /\ runs' = runs + 1
      /\ \E n \in 0 .. Len(sent) :
           \/ requests' = SubSeq(sent, 1, n)
           \/ n > 0 /\ requests' = [SubSeq(sent, 1, n) EXCEPT ![n].whole = FALSE]
  BY DEF Run
<1>2. /\ ClientTyped /\ RequestsTyped /\ InLine /\ requests \in Seq(Requests)
      /\ runs \in Nat
  BY TestNumbers DEF Wellformed, ClientTyped, RequestsTyped
<1>3. PICK k \in Nat : k = Len(requests)
  BY <1>2
<1>4. /\ \A i \in 1 .. k : Ask(i) = requests[i]
      /\ Ask(k + 1) = Coming
  BY <1>3 DEF Ask
<1>5. /\ sent \in Seq(Requests) /\ Len(sent) \in Nat /\ Len(sent) <= k + 1
      /\ \A i \in 1 .. Len(sent) :
           /\ Alike(sent[i], Ask(i)) /\ (i <= k => sent[i] = Ask(i))
           /\ InPart(sent[i].command, sent[i].part)
           /\ sent[i].command = "SALLOC" => Len(sent[i].page) = KB
  <2>1. \A i \in 1 .. k : /\ Alike(requests[i], Ask(i)) /\ requests[i] = Ask(i)
                          /\ InPart(requests[i].command, requests[i].part)
                          /\ requests[i].command = "SALLOC" => Len(requests[i].page) = KB
    BY <1>2, <1>3, <1>4 DEF RequestsTyped, Alike
  <2>2. CASE doing = "send" /\ next # "end"
    <3> DEFINE q == Request(FALSE)
    <3>1. /\ q \in Requests /\ q.command = next /\ q.part = part
          /\ next = "SALLOC" => Len(q.page) = KB
          /\ Alike(q, Coming) /\ InPart(next, part)
      BY <1>2, <2>2, RequestIs DEF ClientTyped
    <3>2. sent = Append(requests, q)
      BY <2>2
    <3> HIDE DEF q, sent
    <3>3. /\ sent \in Seq(Requests) /\ Len(sent) = k + 1
          /\ \A i \in 1 .. k : sent[i] = requests[i]
          /\ sent[k + 1] = q
      BY <1>2, <1>3, <3>1, <3>2, AppendIs
    <3>4. \A i \in 1 .. k + 1 : i \in 1 .. k \/ (i = k + 1 /\ ~(i <= k))
      OBVIOUS
    <3>5. ASSUME NEW i \in 1 .. k + 1
          PROVE  /\ Alike(sent[i], Ask(i)) /\ (i <= k => sent[i] = Ask(i))
                 /\ InPart(sent[i].command, sent[i].part)
                 /\ sent[i].command = "SALLOC" => Len(sent[i].page) = KB
      <4>1. CASE i \in 1 .. k
        BY <2>1, <3>3, <4>1
      <4>2. CASE i = k + 1 /\ ~(i <= k)
        BY <1>4, <3>1, <3>3, <4>2
      <4> QED
        BY <3>4, <4>1, <4>2
    <3> QED
      BY <3>3, <3>5
  <2>3. CASE ~(doing = "send" /\ next # "end")
    <3>1. sent = requests
      BY <2>3
    <3> HIDE DEF sent
    <3> QED
      BY <1>2, <1>3, <2>1, <3>1
  <2> QED
    BY <2>2, <2>3
<1> HIDE DEF sent
<1>6. PICK n \in Nat :
        /\ n <= Len(sent)
        /\ \/ requests' = SubSeq(sent, 1, n)
           \/ n > 0 /\ requests' = [SubSeq(sent, 1, n) EXCEPT ![n].whole = FALSE]
  BY <1>1, <1>5
<1>7. /\ requests' \in Seq(Requests) /\ Len(requests') = n
      /\ \A i \in 1 .. n : /\ Alike(requests'[i], sent[i]) /\ requests'[i].page = sent[i].page
                           /\ i < n => requests'[i] = sent[i]
  <2> DEFINE s == SubSeq(sent, 1, n)
  <2>1. s \in Seq(Requests) /\ Len(s) = n /\ \A i \in 1 .. n : s[i] = sent[i]
    BY <1>5, <1>6, FirstOnesAre
  <2> HIDE DEF s
  <2>2. CASE requests' = s
    BY <2>1, <2>2 DEF Alike
  <2>3. CASE n > 0 /\ requests' = [s EXCEPT ![n].whole = FALSE]
    <3>1. n \in 1 .. Len(s)
      BY <2>1, <2>3
    <3>2. /\ requests' \in Seq(Requests) /\ Len(requests') = Len(s)
          /\ \A i \in 1 .. Len(s) : i # n => requests'[i] = s[i]
          /\ Alike(requests'[n], s[n]) /\ requests'[n].page = s[n].page
      BY <2>1, <2>3, <3>1, CutIs
    <3>3. \A i \in 1 .. n : (i # n => Alike(requests'[i], s[i]) /\ requests'[i].page = s[i].page)
                            /\ (i < n => i # n)
      BY <2>1, <3>2 DEF Alike
    <3> QED
      BY <2>1, <3>2, <3>3
  <2> QED
    BY <1>6, <2>2, <2>3 DEF s
<1>8. \A i \in 1 .. n : i \in 1 .. Len(sent) /\ i \in 1 .. k + 1 /\ (i < n => i \in 1 .. k)
  BY <1>5, <1>6
<1>9. RequestsTyped'
  BY <1>5, <1>7, <1>8 DEF RequestsTyped, Alike
<1>10. /\ Coming'.command = "CALLOC" /\ Coming'.part = 1 /\ Coming'.run = runs + 1
  BY <1>1 DEF Coming, Request
<1>11. /\ \A i \in 1 .. n : Ask(i)' = requests'[i]
       /\ Ask(n + 1)' = Coming'
  BY <1>7 DEF Ask
<1>12. \A i \in 1 .. n : Alike(Ask(i)', Ask(i)) /\ (i < n => Ask(i)' = Ask(i))
  <2>1. \A i \in 1 .. n : /\ Alike(requests'[i], sent[i]) /\ Alike(sent[i], Ask(i))
                          /\ i < n => requests'[i] = sent[i] /\ sent[i] = Ask(i)
    BY <1>5, <1>7, <1>8
  <2> QED
    BY <1>11, <2>1 DEF Alike
<1>13. \A i \in 1 .. n : Ask(i).run <= runs /\ Ask(i).run \in Nat
  <2> SUFFICES ASSUME NEW i \in 1 .. n PROVE Ask(i).run <= runs /\ Ask(i).run \in Nat
    OBVIOUS
  <2>1. CASE i \in 1 .. k
    <3>1. i \in 1 .. Len(requests) /\ k + 1 \in 1 .. Len(requests) + 1 /\ i < k + 1
      BY <1>3, <2>1
    <3>2. Later(Ask(i), Ask(k + 1))
      BY <1>2, <3>1 DEF InLine
    <3>3. requests[i] \in Requests
      BY <1>2, <3>1
    <3>4. Ask(i).run \in Nat
      BY <1>4, <2>1, <3>3 DEF Requests
    <3>5. Coming.run = runs
      BY <1>2, ComingIs
    <3> QED
      BY <1>4, <3>2, <3>4, <3>5 DEF Later
  <2>2. CASE i = k + 1
    BY <1>2, <1>4, <2>2, ComingIs
  <2>3. i \in 1 .. k \/ i = k + 1
    BY <1>8
  <2> QED
    BY <2>1, <2>2, <2>3
<1>14. ASSUME NEW i \in 1 .. n PROVE Follows(Ask(i)', Ask(i + 1)')
  <2>1. CASE i = n
    <3>1. Ask(i + 1)' = Coming' /\ Ask(i)'.run = Ask(i).run
      BY <1>11, <1>12, <2>1 DEF Alike
    <3>2. Coming'.run > Ask(i)'.run
      BY <1>2, <1>10, <1>13, <3>1
    <3> QED
      BY <1>10, <3>1, <3>2 DEF Follows
  <2>2. CASE i # n
    <3>1. i < n /\ i + 1 \in 1 .. n /\ i \in 1 .. k
      BY <1>8, <2>2
    <3>2. Follows(Ask(i), Ask(i + 1))
      BY <1>2, <1>3, <3>1 DEF InLine
    <3>3. Ask(i)' = Ask(i) /\ Alike(Ask(i + 1)', Ask(i + 1))
      BY <1>12, <3>1
    <3> QED
      BY <3>2, <3>3 DEF Follows, Alike
  <2> QED
    BY <2>1, <2>2
<1>15. ASSUME NEW i \in 1 .. n, NEW j \in 1 .. n + 1, i < j
       PROVE  Later(Ask(i)', Ask(j)')
  <2>1. CASE j = n + 1
    <3>1. Ask(j)'.run = runs + 1 /\ Ask(i)'.run = Ask(i).run
      BY <1>10, <1>11, <1>12, <2>1 DEF Alike
    <3> QED
      BY <1>2, <1>13, <3>1 DEF Later
  <2>2. CASE j # n + 1
    <3>1. j \in 1 .. n /\ i < n
      BY <1>15, <2>2
    <3>2. i \in 1 .. k /\ j \in 1 .. k + 1
      BY <1>8, <3>1
    <3>3. Later(Ask(i), Ask(j))
      BY <1>2, <1>3, <1>15, <3>2 DEF InLine
    <3>4. Ask(i)' = Ask(i) /\ Alike(Ask(j)', Ask(j))
      BY <1>12, <3>1
    <3> QED
      BY <3>3, <3>4 DEF Later, Alike
  <2> QED
    BY <2>1, <2>2
<1>16. InLine'
  BY <1>7, <1>14, <1>15 DEF InLine
<1>17. \/ Alike(Now', Now)
       \/ Now'.run \in Nat /\ Now'.run > Now.run /\ Now'.command # "FALLOC"
  <2>1. CASE n = 0
    <3>1. Now' = Coming'
      BY <1>11, <2>1 DEF Now
    <3>2. Now.run \in Nat /\ Now.run <= runs
      BY NowIs
    <3> QED
      BY <1>2, <1>10, <3>1, <3>2
  <2>2. CASE n # 0
    <3>1. 1 \in 1 .. n
      BY <2>2
    <3> QED
      BY <1>12, <3>1 DEF Now
  <2> QED
    BY <2>1, <2>2
<1>18. requests' = << >> => Now' = Coming'
  <2>1. requests' = << >> => n = 0
    BY <1>7
  <2> QED
    BY <1>11, <2>1 DEF Now
<1> QED
  BY <1>9, <1>10, <1>16, <1>17, <1>18

(* Nothing that a run leaves behind disturbs the next, if that finds none   *)
(* of it under way.                                                         *)
LEMMA RunStep ==
  ASSUME TestInv, Run
  PROVE  TestInv' /\ StreamsStay
<1>1. /\ runs < MaxRuns /\ runs' = runs + 1 /\ part' = 1 /\ next' = "CALLOC"
      /\ doing' = "send" /\ failed' = FALSE /\ UNCHANGED vars /\ buffer' = buffer
      /\ lock' = lock
      /\ fresh' = (requests' = << >> /\ out_queue' = << >> /\ ~lock)
  BY DEF Run
<1>2. PICK n \in 0 .. Len(out_queue) :
        /\ out_queue' = SubSeq(out_queue, n + 1, Len(out_queue))
        /\ begun' \in {begun /\ n = 0, out_queue' # << >>}
  BY DEF Run
<1>3. Wellformed /\ ClientTyped /\ PacketsTyped
  BY DEF TestInv, Wellformed
<1>4. /\ RequestsTyped' /\ InLine' /\ Coming'.command = "CALLOC" /\ Coming'.part = 1
      /\ \/ Alike(Now', Now)
         \/ Now'.run \in Nat /\ Now'.run > Now.run /\ Now'.command # "FALLOC"
      /\ requests' = << >> => Now' = Coming'
  BY <1>3, RunsInLine
<1>5. ClientTyped'
  <2>1. runs' \in 0 .. MaxRuns
    BY <1>1, <1>3, TestNumbers DEF ClientTyped
  <2>2. buffer' \in Seq(BYTE) /\ Len(buffer') \in {0, KB} /\ failed' \in BOOLEAN
        /\ fresh' \in BOOLEAN
    BY <1>1, <1>3 DEF ClientTyped
  <2>3. part' \in 1 .. 3 /\ next' \in Commands \cup {"end"} /\ InPart(next', part')
    BY <1>1 DEF Commands, InPart
  <2> QED
    BY <1>1, <2>1, <2>2, <2>3 DEF ClientTyped
<1>6. /\ out_queue \in Seq(Packets) /\ begun \in BOOLEAN /\ lock \in BOOLEAN
      /\ Len(out_queue) \in Nat /\ (begun => out_queue # << >>)
      /\ \A i \in 1 .. Len(out_queue) :
           out_queue[i].type = "BinaryData" /\ (begun => i > 1) =>
             Len(out_queue[i].data) = KB
  BY <1>3 DEF PacketsTyped
<1>7. /\ out_queue' \in Seq(Packets) /\ Len(out_queue') = Len(out_queue) - n
      /\ \A i \in 1 .. Len(out_queue) - n : out_queue'[i] = out_queue[i + n]
  BY <1>2, <1>6, RestIs
<1>8. begun' \in BOOLEAN /\ (begun' => out_queue' # << >>)
  <2>1. n = 0 => Len(out_queue') = Len(out_queue)
    BY <1>6, <1>7
  <2>2. n = 0 /\ out_queue # << >> => out_queue' # << >>
    BY <1>6, <2>1
  <2>3. CASE begun' = (begun /\ n = 0)
    BY <1>6, <2>2, <2>3
  <2>4. CASE begun' = (out_queue' # << >>)
    BY <2>4
  <2> QED
    BY <1>2, <2>3, <2>4
<1>9. PacketsTyped'
  <2>1. ASSUME NEW i \in 1 .. Len(out_queue'), out_queue'[i].type = "BinaryData",
               begun' => i > 1
        PROVE  Len(out_queue'[i].data) = KB
    <3>1. i + n \in 1 .. Len(out_queue) /\ out_queue'[i] = out_queue[i + n]
      BY <1>6, <1>7
    <3>2. begun => i + n > 1
      <4>1. CASE n = 0
        <5>1. begun => begun'
          <6>1. out_queue # << >> => out_queue' # << >>
            <7>1. Len(out_queue') = Len(out_queue)
              BY <1>6, <1>7, <4>1
            <7> QED
              BY <1>6, <7>1
          <6> QED
            BY <1>2, <1>6, <4>1, <6>1
        <5>2. i + n = i
          BY <4>1
        <5> QED
          BY <2>1, <5>1, <5>2
      <4>2. CASE n # 0
        BY <3>1, <4>2
      <4> QED
        BY <4>1, <4>2
    <3> QED
      BY <1>6, <2>1, <3>1, <3>2
  <2> QED
    BY <1>1, <1>6, <1>7, <1>8, <2>1 DEF PacketsTyped
<1>10. Lockstep'
  BY <1>1, <1>8 DEF Lockstep
<1>11. Wellformed'
  BY <1>4, <1>5, <1>9, <1>10 DEF Wellformed
<1>12. StoreKept' /\ StreamsStay
  BY <1>1, <1>4, <1>11, StoreStays
<1>13. InGoodOrder'
  <2> SUFFICES ASSUME fresh' PROVE SavedSoFar' /\ Work'
    BY DEF InGoodOrder, Good
  <2>1. Now'.command = "CALLOC" /\ Now'.part = 1
    BY <1>1, <1>4
  <2>2. \A p \in 1 .. 3 : ~Done(p)'
    BY <2>1 DEF Done
  <2>3. SavedSoFar'
    BY <2>2 DEF SavedSoFar
  <2>4. Work'
    BY <2>1 DEF Work
  <2> QED
    BY <2>3, <2>4
<1> QED
  BY <1>11, <1>12, <1>13 DEF TestInv

-----------------------------------------------------------------------------
(* The theorems. *)

(* Before the first run nothing is allocated, whatever streams others lost  *)
(* and left unread.                                                         *)
LEMMA TestInitHolds == TestInit => TestInv
<1> SUFFICES ASSUME TestInit PROVE TestInv
  OBVIOUS
<1>1. /\ memstore = [i \in Slot |-> FreeSlot] /\ files \in FIRST_FILES
      /\ open \in 0 .. MAX_OPEN
      /\ answer = [command |-> "none", id |-> 0, error |-> 0, data |-> << >>]
      /\ part = 3 /\ next = "end" /\ doing = "send" /\ buffer = << >> /\ failed = FALSE
      /\ fresh = FALSE /\ runs = 0 /\ requests = << >>
      /\ \/ out_queue = << >>
         \/ out_queue = <<[type |-> "BinaryData", error |-> 0, data |-> << >>]>>
      /\ begun = (out_queue # << >>) /\ lock \in {FALSE, begun}
  BY DEF TestInit, NoAllocations
<1>2. \A i \in Slot : memstore[i] = FreeSlot
  BY <1>1
<1>3. IInv
  <2>1. memstore \in [Slot -> Records] /\ \A i \in Slot : SlotOK(memstore[i], i)
    BY <1>1, FreeSlotOK
  <2>2. Loaded = {}
    BY <1>2, FreeSlotOK DEF Loaded
  <2>3. Cardinality(Loaded) = 0
    BY <2>2, FS_EmptySet
  <2>4. files \in [FILE -> {Missing} \cup Seq(BYTE)]
    BY <1>1, MemstoreAssumption
  <2>5. open \in 0 .. MAX_OPEN /\ Cardinality(Loaded) <= open
    BY <1>1, <2>3, Numbers
  <2> QED
    BY <1>1, <2>1, <2>4, <2>5, Numbers DEF IInv
<1>4. ClientTyped
  <2>1. MaxRuns \in Nat /\ << >> \in Seq(BYTE) /\ Len(<< >>) = 0
    BY TestNumbers
  <2>2. InPart("end", 3)
    BY DEF InPart
  <2>3. buffer \in Seq(BYTE) /\ Len(buffer) = 0
    BY <1>1, <2>1
  <2>4. runs \in 0 .. MaxRuns
    BY <1>1, <2>1
  <2>5. next \in Commands \cup {"end"} /\ InPart(next, part) /\ part \in 1 .. 3
    BY <1>1, <2>2
  <2>6. /\ doing = "send" /\ next # "RALLOC" /\ next # "SALLOC"
        /\ failed \in BOOLEAN /\ fresh \in BOOLEAN
    BY <1>1
  <2> QED
    BY <2>3, <2>4, <2>5, <2>6 DEF ClientTyped
<1>5. Len(requests) = 0 /\ requests \in Seq(Requests)
  BY <1>1
<1>6. RequestsTyped /\ InLine
  BY <1>5 DEF RequestsTyped, InLine
<1>7. PacketsTyped
  <2>1. CASE out_queue = << >>
    <3>1. out_queue \in Seq(Packets) /\ Len(out_queue) = 0
      BY <2>1
    <3>2. begun = FALSE /\ lock = FALSE
      BY <1>1, <2>1
    <3>3. \A i \in 1 .. Len(out_queue) : FALSE
      BY <3>1
    <3>4. begun \in BOOLEAN /\ lock \in BOOLEAN /\ ~begun
      BY <3>2
    <3> QED
      BY <3>1, <3>3, <3>4 DEF PacketsTyped
  <2>2. CASE out_queue # << >>
    <3> DEFINE r == [type |-> "BinaryData", error |-> 0, data |-> << >>]
    <3>1. r \in Packets /\ out_queue = <<r>>
      BY <1>1, <2>2 DEF Packets
    <3> HIDE DEF r
    <3>2. out_queue \in Seq(Packets) /\ Len(out_queue) = 1
      BY <3>1
    <3>3. begun = TRUE /\ lock \in BOOLEAN
      BY <1>1, <2>2
    <3>4. \A i \in 1 .. Len(out_queue) : ~(begun => i > 1)
      BY <3>2, <3>3
    <3> QED
      BY <2>2, <3>2, <3>3, <3>4 DEF PacketsTyped
  <2> QED
    BY <2>1, <2>2
<1>8. Wellformed /\ InGoodOrder
  BY <1>1, <1>4, <1>6, <1>7 DEF Wellformed, Lockstep, InGoodOrder, Good
<1>9. Now.command = "end" /\ Now.run = 0
  BY <1>1, <1>5 DEF Now, Ask, Coming, Request
<1>10. Taken = {}
  <2>1. \A i \in AllocId : ~Known(i)
    BY <1>2, FreeSlotOK, Numbers DEF Known, AllocId
  <2> QED
    BY <2>1 DEF Taken
<1>11. SmallPages
  BY <1>10 DEF SmallPages
<1>12. Counted
  <2>1. Cardinality(Taken) = 0
    BY <1>10, FS_EmptySet
  <2> QED
    BY <1>9, <2>1 DEF Counted
<1>13. StreamClosed /\ ScriptStays
  BY <1>1, <1>9 DEF StreamClosed, ScriptStays
<1> QED
  BY <1>3, <1>8, <1>11, <1>12, <1>13 DEF TestInv, StoreKept

(* Every step keeps the invariant and the streams. *)
LEMMA TestStepKeeps == TestInv /\ [TestNext]_testVars => TestInv' /\ StreamsStay
<1> SUFFICES ASSUME TestInv, [TestNext]_testVars
             PROVE  TestInv' /\ StreamsStay
  OBVIOUS
<1>1. CASE Run
  BY <1>1, RunStep
<1>2. CASE Test
  BY <1>2, SendStep, ReadAnswerStep, MisreadAnswerStep, ReadPageStep, MisreadPageStep
     DEF Test
<1>3. CASE Serve
  BY <1>3, CreateStep, LoadStep, RetrieveStep, RetrieveNothingStep, StorePageStep,
     InsertStep, CutStep, SaveStep, FreeStep, DiscardStep, LockEndsStep DEF Serve
<1>4. CASE UNCHANGED testVars
  <2>1. /\ UNCHANGED clientVars /\ UNCHANGED vars
        /\ requests' = requests /\ out_queue' = out_queue /\ begun' = begun /\ lock' = lock
    BY <1>4 DEF testVars, serverVars
  <2>2. /\ part' = part /\ next' = next /\ doing' = doing /\ buffer' = buffer
        /\ failed' = failed /\ fresh' = fresh /\ runs' = runs
    BY <2>1 DEF clientVars
  <2>3. Wellformed /\ ClientTyped /\ PacketsTyped /\ Lockstep /\ InGoodOrder
    BY DEF TestInv, Wellformed
  <2>4. Coming' = Coming
    BY <2>2 DEF Coming, Request
  <2>5. RequestsTyped' /\ InLine' /\ Alike(Now', Now)
    BY <2>1, <2>3, <2>4, NoneMoves DEF Alike
  <2>6. ClientTyped' /\ PacketsTyped' /\ Lockstep'
    BY <2>1, <2>2, <2>3 DEF ClientTyped, PacketsTyped, Lockstep
  <2>7. Wellformed'
    BY <2>5, <2>6 DEF Wellformed
  <2>8. InHand' = InHand /\ (Good' => Good)
    BY <2>1, <2>2 DEF InHand, Good
  <2>9. StoreKept' /\ StreamsStay
    BY <2>1, <2>5, <2>7, StoreStays
  <2>10. InGoodOrder'
    BY <2>1, <2>3, <2>5, <2>8, OrderStays
  <2> QED
    BY <2>7, <2>9, <2>10 DEF TestInv
<1> QED
  BY <1>1, <1>2, <1>3, <1>4 DEF TestNext

(* However often the test is broken off and run again. *)
THEOREM TestInvariance == TestSpec => []TestInv
<1>1. TestInv /\ [TestNext]_testVars => TestInv'
  BY TestStepKeeps
<1> QED
  BY <1>1, TestInitHolds, PTL DEF TestSpec

(* The store keeps its types under the test, and the test its own: the      *)
(* response buffer holds nothing or a page of a kilobyte, so that SALLOC    *)
(* never sends more or less than one, whatever was taken for the page.      *)
THEOREM TestTypeCorrect == TestSpec => []TestTypeOK
<1>1. TestInv => TestTypeOK
  <2> SUFFICES ASSUME TestInv PROVE TestTypeOK
    OBVIOUS
  <2>1. IInv /\ ClientTyped /\ RequestsTyped /\ PacketsTyped
    BY DEF TestInv, StoreKept, Wellformed
  <2>2. TypeOK
    BY <2>1, InvariantHasTypes
  <2>3. ASSUME NEW i \in DOMAIN requests
        PROVE  /\ requests[i].command \in Commands /\ requests[i].part \in 1 .. 3
               /\ requests[i].command = "SALLOC" => Len(requests[i].page) = KB
    <3>1. i \in 1 .. Len(requests) /\ requests[i] \in Requests
      BY <2>1 DEF RequestsTyped
    <3> QED
      BY <2>1, <3>1 DEF RequestsTyped, Requests
  <2>4. ASSUME NEW i \in DOMAIN out_queue
        PROVE  out_queue[i].type \in {"BinaryCommand", "BinaryData"}
    <3>1. out_queue[i] \in Packets
      BY <2>1 DEF PacketsTyped
    <3> QED
      BY <3>1 DEF Packets
  <2> QED
    BY <2>1, <2>2, <2>3, <2>4 DEF ClientTyped, PacketsTyped, TestTypeOK
<1> QED
  BY <1>1, TestInvariance, PTL

(* A run that found nothing under way, reaches its end and has read no      *)
(* error has saved the script with its three changes, wherever the runs     *)
(* before it were broken off and whatever they left in the allocations: for *)
(* every size of page, script, change, insertion and cut.                   *)
THEOREM RunsSaveTheirChanges == TestSpec => []RunSavesItsChanges
<1>1. TestInv => RunSavesItsChanges
  <2> SUFFICES ASSUME TestInv, next = "end", fresh, ~failed, NEW p \in 1 .. 3
               PROVE  files[Saved[p]] = SubSeq(Intended[p], 1, SAVE[p])
    BY DEF RunSavesItsChanges
  <2>1. Wellformed /\ ClientTyped /\ Lockstep /\ InGoodOrder
    BY DEF TestInv, Wellformed
  <2>2. doing = "send" /\ part = 3
    BY <2>1 DEF ClientTyped, InPart
  <2>3. requests = << >> /\ out_queue = << >>
    BY <2>1, <2>2 DEF Lockstep
  <2>4. Now = Coming /\ Coming.command = "end" /\ Coming.part = 3
    BY <2>1, <2>2, <2>3, NowIs, ComingIs
  <2>5. Good
    <3>1. Len(out_queue) = 0
      BY <2>3
    <3> QED
      BY <3>1 DEF Good
  <2>6. SavedSoFar
    BY <2>1, <2>5 DEF InGoodOrder
  <2>7. Done(p)
    BY <2>4 DEF Done
  <2> QED
    BY <2>6, <2>7 DEF SavedSoFar
<1> QED
  BY <1>1, TestInvariance, PTL

(* Each run leaves at most one allocation behind, and no run loses a stream,*)
(* wherever they are broken off and however late their commands are carried *)
(* out.                                                                     *)
THEOREM RunsLeaveOneAllocationEach == TestSpec => LeavesOneAllocationARun
<1>1. TestInv => Cardinality({i \in AllocId : Known(i)}) <= runs
  <2> SUFFICES ASSUME TestInv PROVE Cardinality(Taken) <= runs
    BY DEF Taken
  <2>1. Wellformed /\ IInv /\ Cardinality(Taken) <= Now.run
    BY DEF TestInv, StoreKept, Counted
  <2>2. Now.run \in Nat /\ runs \in Nat /\ Now.run <= runs /\ Cardinality(Taken) \in Nat
    BY <2>1, NowIs, TakenIsFinite
  <2> QED
    BY <2>1, <2>2
<1>2. TestInv /\ [TestNext]_testVars =>
        [open' - Cardinality(Loaded') = open - Cardinality(Loaded)]_testVars
  BY TestStepKeeps DEF StreamsStay
<1> QED
  BY <1>1, <1>2, TestInvariance, PTL DEF TestSpec, LeavesOneAllocationARun

=============================================================================
