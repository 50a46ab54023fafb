------------------------------ MODULE Memstore ------------------------------
(***************************************************************************)
(* The memory commands of the MCP server (command_memory.c) on the memory  *)
(* store (memstore_manager.c): each action is one command with its data at *)
(* hand, from the checks of its parameters to its answer.  How the data    *)
(* comes and the answer goes is McpLoop's.                                 *)
(*                                                                         *)
(* memstore[i].file_size is written and never read: it is left out.        *)
(***************************************************************************)
EXTENDS Integers, Sequences, FiniteSetsExt

CONSTANTS
  MAX_MEMORY_ALLOCATIONS,   (* slots, slot 0 never allocated: 21            *)
  MAX_PAGES,                (* pages of an allocation: 9999                 *)
  MAX_PAGE_KB,              (* kilobytes of a page: 32                      *)
  KB,                       (* bytes of a kilobyte: 1024, one or two here   *)
  MEMORY,                   (* bytes that calloc can have given out         *)
  BYTE,
  FILE,                     (* file names                                   *)
  Missing,                  (* what a file that is not there contains       *)
  FIRST_FILES,              (* what may be in the files at the start        *)
  DATA,                     (* what clients store and insert                *)
  FILE_SIZE,                (* how much clients ask to be saved             *)
  MAX_OPEN                  (* streams the process may have open            *)

ASSUME MemstoreAssumption ==
  /\ MAX_MEMORY_ALLOCATIONS \in Nat \ {0}
  /\ MEMORY \in Nat /\ MAX_PAGES \in Nat /\ MAX_PAGE_KB \in Nat /\ KB \in Nat \ {0}
  /\ 0 \in BYTE /\ DATA \subseteq Seq(BYTE)
  /\ FILE_SIZE \subseteq Nat /\ MAX_OPEN \in Nat
  /\ Missing \notin Seq(BYTE)
  /\ FIRST_FILES \subseteq [FILE -> {Missing} \cup Seq(BYTE)]

VARIABLES
  memstore,   (* the slots                                                  *)
  files,      (* what is in each file, or Missing                           *)
  open,       (* streams the process has open                               *)
  answer      (* the answer to the last command                             *)

vars == <<memstore, files, open, answer>>

Slot    == 0 .. MAX_MEMORY_ALLOCATIONS - 1
AllocId == Slot \ {0}

NoData   == [i \in {} |-> 0]
FreeSlot == [allocation_id |-> 0, number_pages |-> 0, page_size |-> 0,
             file_id |-> FALSE, data |-> NoData]

(* memstore_init, at the start and from memstore_reset. *)
NoAllocations == [i \in Slot |-> FreeSlot]

Answers(command, id, error, data) ==
  answer' = [command |-> command, id |-> id, error |-> error, data |-> data]

Init ==
  /\ memstore = NoAllocations
  /\ files \in FIRST_FILES
  /\ open = 0
  /\ answer = [command |-> "none", id |-> 0, error |-> 0, data |-> << >>]

-----------------------------------------------------------------------------

Known(id) == id \in AllocId /\ memstore[id].allocation_id = id

AllocSize(id) ==
  IF Known(id) THEN memstore[id].page_size * memstore[id].number_pages ELSE 0

PageSize(id) == IF Known(id) THEN memstore[id].page_size ELSE 0

MemoryInUse == MapThenSumSet(AllocSize, AllocId)

(* faulty variant: the search begins after the first *)
FreeIdsButFirst == {i \in AllocId \ {1} : memstore[i].allocation_id = 0}

FreeIds == {i \in AllocId : memstore[i].allocation_id = 0}

(* C arrays begin at 0, sequences at 1. *)
Bytes(data, from, n) == [i \in 1 .. n |-> data[from + i - 1]]

SetData(id, data) == memstore' = [memstore EXCEPT ![id].data = data]

-----------------------------------------------------------------------------
(* CALLOC *)

NewAllocation(id, pages, kb) ==
  [allocation_id |-> id, number_pages |-> pages, page_size |-> kb * KB,
   file_id |-> FALSE, data |-> [i \in 0 .. pages * kb * KB - 1 |-> 0]]

CreateAlloc(pages, kb) ==
  /\ pages \in 1 .. MAX_PAGES /\ kb \in 1 .. MAX_PAGE_KB
  /\ FreeIds # {} /\ MemoryInUse + pages * kb * KB <= MEMORY
  /\ LET id == Min(FreeIds) IN
       /\ memstore' = [memstore EXCEPT ![id] = NewAllocation(id, pages, kb)]
       /\ Answers("CALLOC", id, 0, << >>)
  /\ UNCHANGED <<files, open>>

(* No free slot, or calloc fails, as it may at any time. *)
CreateFails(pages, kb) ==
  /\ pages \in 1 .. MAX_PAGES /\ kb \in 1 .. MAX_PAGE_KB
  /\ Answers("CALLOC", 0, 2, << >>)
  /\ UNCHANGED <<memstore, files, open>>

CreateRefused(pages, kb) ==
  /\ pages \notin 1 .. MAX_PAGES \/ kb \notin 1 .. MAX_PAGE_KB
  /\ Answers("CALLOC", 0, 1, << >>)
  /\ UNCHANGED <<memstore, files, open>>

-----------------------------------------------------------------------------
(* FALLOC: slot 0 passes the test too.  The stream of a loaded file is not  *)
(* closed.                                                                  *)

(* faulty variant: the slot is free but not reset *)
FreeAllocNotReset(id) ==
  /\ id \in Slot /\ memstore[id].allocation_id = id
  /\ memstore' = [memstore EXCEPT ![id].allocation_id = 0]
  /\ Answers("FALLOC", id, 0, << >>)
  /\ UNCHANGED <<files, open>>

FreeAlloc(id) ==
  /\ id \in Slot /\ memstore[id].allocation_id = id
  /\ memstore' = [memstore EXCEPT ![id] = FreeSlot]
  /\ Answers("FALLOC", id, 0, << >>)
  /\ UNCHANGED <<files, open>>

FreeRefused(id) ==
  /\ ~(id \in Slot /\ memstore[id].allocation_id = id)
  /\ Answers("FALLOC", 0, 1, << >>)
  /\ UNCHANGED <<memstore, files, open>>

-----------------------------------------------------------------------------
(* RALLOC and SALLOC; data of another length than the page's is dropped     *)
(* without an answer (McpLoop).                                             *)

HasPage(id, page) == Known(id) /\ page \in 0 .. memstore[id].number_pages - 1

RetrieveAlloc(id, page) ==
  /\ HasPage(id, page)
  /\ Answers("RALLOC", id, 0,
             Bytes(memstore[id].data, page * PageSize(id), PageSize(id)))
  /\ UNCHANGED <<memstore, files, open>>

RetrieveRefused(id, page) ==
  /\ ~HasPage(id, page)
  /\ Answers("RALLOC", 0, 1, << >>)
  /\ UNCHANGED <<memstore, files, open>>

(* memcpy of s to data[at] on *)
CopiedIn(data, at, s) ==
  [i \in DOMAIN data |-> IF i \in at .. at + Len(s) - 1 THEN s[i - at + 1] ELSE data[i]]

StoreAlloc(id, page, s) ==
  /\ HasPage(id, page)
  /\ Len(s) = PageSize(id)
  /\ SetData(id, CopiedIn(memstore[id].data, page * PageSize(id), s))
  /\ Answers("SALLOC", id, 0, << >>)
  /\ UNCHANGED <<files, open>>

StoreRefused(id, page) ==
  /\ ~HasPage(id, page)
  /\ Answers("SALLOC", 0, 1, << >>)
  /\ UNCHANGED <<memstore, files, open>>

-----------------------------------------------------------------------------
(* IALLOC and XALLOC.  A range beyond the allocation is one error; one that *)
(* ends exactly with it, an empty one, or none of the allocation at all, is *)
(* another, that of memstore_insert_data and memstore_cut_data.             *)

Beyond(id, at, n) == at + n > AllocSize(id)
Inside(id, at, n) == Known(id) /\ n > 0 /\ at + n < AllocSize(id)

(* faulty variant: memcpy for the memmove, the bytes already moved are     *)
(* moved again                                                              *)
MovedUpAgain(data, at, n) ==
  [i \in DOMAIN data |-> IF i >= at + n THEN data[at + ((i - at) % n)] ELSE data[i]]

(* memmove of the bytes from "at" on, n up; the last n are lost *)
MovedUp(data, at, n) ==
  [i \in DOMAIN data |-> IF i >= at + n THEN data[i - n] ELSE data[i]]

(* memmove of the bytes beyond at + n down to "at", and memset of the last n *)
MovedDown(data, at, n, size) ==
  [i \in DOMAIN data |-> IF i < at THEN data[i]
                         ELSE IF i + n < size THEN data[i + n] ELSE 0]

InsertAlloc(id, at, s) ==
  /\ Inside(id, at, Len(s))
  /\ SetData(id, CopiedIn(MovedUp(memstore[id].data, at, Len(s)), at, s))
  /\ Answers("IALLOC", id, 0, << >>)
  /\ UNCHANGED <<files, open>>

InsertRefused(id, at, n) ==
  /\ ~Inside(id, at, n)
  /\ Answers("IALLOC", 0, IF Beyond(id, at, n) THEN 3 ELSE 1, << >>)
  /\ UNCHANGED <<memstore, files, open>>

CutAlloc(id, at, n) ==
  /\ Inside(id, at, n)
  /\ SetData(id, MovedDown(memstore[id].data, at, n, AllocSize(id)))
  /\ Answers("XALLOC", id, 0, << >>)
  /\ UNCHANGED <<files, open>>

CutRefused(id, at, n) ==
  /\ ~Inside(id, at, n)
  /\ Answers("XALLOC", 0, IF Beyond(id, at, n) THEN 2 ELSE 1, << >>)
  /\ UNCHANGED <<memstore, files, open>>

-----------------------------------------------------------------------------
(* PILALLOC.  The stream of an earlier load is closed and the allocation    *)
(* cleared before the file is opened; a failure after it is opened clears   *)
(* the allocation too.  Only a load that succeeds keeps its stream.         *)

Held(id) == IF memstore[id].file_id THEN 1 ELSE 0

Cleared(data) == [i \in DOMAIN data |-> 0]

CanOpen(id) == open - Held(id) < MAX_OPEN

(* What the file is read into. *)
BeforeLoad(id) ==
  IF memstore[id].file_id THEN Cleared(memstore[id].data) ELSE memstore[id].data

LoadAlloc(id, f) ==
  /\ Known(id) /\ CanOpen(id) /\ files[f] # Missing
  /\ Len(files[f]) \in 1 .. AllocSize(id)
  /\ memstore' = [memstore EXCEPT ![id].file_id = TRUE,
                                  ![id].data = CopiedIn(BeforeLoad(id), 0, files[f])]
  /\ open' = open - Held(id) + 1
  /\ Answers("PILALLOC", id, 0, << >>)
  /\ UNCHANGED files

(* faulty variant: a file that does not fit is read as far as it fits, and  *)
(* what is read is left there                                               *)
LoadUnfitPartly(id, f) ==
  /\ Known(id) /\ CanOpen(id) /\ files[f] # Missing
  /\ Len(files[f]) \notin 1 .. AllocSize(id)
  /\ memstore' = [memstore EXCEPT ![id].file_id = FALSE,
                                  ![id].data = CopiedIn(@, 0, files[f])]
  /\ open' = open - Held(id)
  /\ Answers("PILALLOC", 0, IF files[f] = << >> THEN 2 ELSE 3, << >>)
  /\ UNCHANGED files

(* The file does not fit (error 3) or is empty: fread returns nothing.      *)
LoadUnfit(id, f) ==
  /\ Known(id) /\ CanOpen(id) /\ files[f] # Missing
  /\ Len(files[f]) \notin 1 .. AllocSize(id)
  /\ memstore' = [memstore EXCEPT ![id].file_id = FALSE, ![id].data = Cleared(@)]
  /\ open' = open - Held(id)
  /\ Answers("PILALLOC", 0, IF files[f] = << >> THEN 2 ELSE 3, << >>)
  /\ UNCHANGED files

LoadNotOpened(id, f) ==
  /\ Known(id) /\ (files[f] = Missing \/ ~CanOpen(id))
  /\ memstore' = [memstore EXCEPT ![id].file_id = FALSE, ![id].data = BeforeLoad(id)]
  /\ open' = open - Held(id)
  /\ Answers("PILALLOC", 0, 2, << >>)
  /\ UNCHANGED files

LoadRefused(id) ==
  /\ ~Known(id)
  /\ Answers("PILALLOC", 0, 2, << >>)
  /\ UNCHANGED <<memstore, files, open>>

-----------------------------------------------------------------------------
(* PISALLOC.  The file is opened, and so emptied, before the size asked for *)
(* is looked at.                                                            *)

(* faulty variant: the stream of an earlier load is forgotten *)
SaveAllocOverStream(id, f, size) ==
  /\ Known(id) /\ size \in 1 .. AllocSize(id) /\ CanOpen(id)
  /\ memstore' = [memstore EXCEPT ![id].file_id = FALSE]
  /\ files' = [files EXCEPT ![f] = Bytes(memstore[id].data, 0, size)]
  /\ Answers("PISALLOC", id, 0, << >>)
  /\ UNCHANGED open

SaveAlloc(id, f, size) ==
  /\ Known(id) /\ size > 0 /\ CanOpen(id)
  /\ memstore' = [memstore EXCEPT ![id].file_id = FALSE]
  /\ open' = open - Held(id)
  /\ IF size <= AllocSize(id)
       THEN /\ files' = [files EXCEPT ![f] = Bytes(memstore[id].data, 0, size)]
            /\ Answers("PISALLOC", id, 0, << >>)
       ELSE /\ files' = [files EXCEPT ![f] = << >>]
            /\ Answers("PISALLOC", 0, 2, << >>)

SaveNotOpened(id, size) ==
  /\ Known(id) /\ size > 0 /\ ~CanOpen(id)
  /\ memstore' = [memstore EXCEPT ![id].file_id = FALSE]
  /\ open' = open - Held(id)
  /\ Answers("PISALLOC", 0, 2, << >>)
  /\ UNCHANGED files

SaveRefused(id, size) ==
  /\ ~(Known(id) /\ size > 0)
  /\ Answers("PISALLOC", 0, 2, << >>)
  /\ UNCHANGED <<memstore, files, open>>

-----------------------------------------------------------------------------
(* RESET: memstore_reset closes the streams of the slots. *)

Loaded == {i \in Slot : memstore[i].file_id}

Reset ==
  /\ memstore' = NoAllocations
  /\ open' = open - Cardinality(Loaded)
  /\ Answers("RESET", 0, 0, << >>)
  /\ UNCHANGED files

-----------------------------------------------------------------------------

(* What clients ask for, in range and just out of it. *)
Id    == 0 .. MAX_MEMORY_ALLOCATIONS
Size  == 0 .. MAX_PAGES * MAX_PAGE_KB * KB
Span  == {r \in Size \X Size : r[1] + r[2] \in Size}    (* where and how long *)

Next ==
  \/ \E pages \in 0 .. MAX_PAGES + 1, kb \in 0 .. MAX_PAGE_KB + 1 :
       \/ CreateAlloc(pages, kb) \/ CreateFails(pages, kb) \/ CreateRefused(pages, kb)
  \/ \E id \in Id : FreeAlloc(id) \/ FreeRefused(id)
  \/ \E id \in Id, page \in 0 .. MAX_PAGES :
       \/ RetrieveAlloc(id, page) \/ RetrieveRefused(id, page)
       \/ StoreRefused(id, page)
       \/ \E s \in DATA : StoreAlloc(id, page, s)
  \/ \E id \in Id, r \in Span :
       \/ \E s \in DATA : Len(s) = r[2] /\ InsertAlloc(id, r[1], s)
       \/ InsertRefused(id, r[1], r[2])
       \/ CutAlloc(id, r[1], r[2]) \/ CutRefused(id, r[1], r[2])
  \/ \E id \in Id, f \in FILE :
       \/ LoadAlloc(id, f) \/ LoadUnfit(id, f) \/ LoadNotOpened(id, f)
       \/ \E size \in FILE_SIZE : SaveAlloc(id, f, size)
  \/ \E id \in Id, size \in FILE_SIZE : SaveNotOpened(id, size) \/ SaveRefused(id, size)
  \/ \E id \in Id : LoadRefused(id)
  \/ Reset

Spec == Init /\ [][Next]_vars

-----------------------------------------------------------------------------

TypeOK ==
  /\ \A i \in Slot :
       LET a == memstore[i] IN
       /\ a.allocation_id \in {0, i}
       /\ a.allocation_id = 0 => a = FreeSlot
       /\ a.allocation_id # 0 =>
            /\ a.number_pages \in 1 .. MAX_PAGES
            /\ a.page_size \in {kb * KB : kb \in 1 .. MAX_PAGE_KB}
            /\ a.data \in [0 .. a.number_pages * a.page_size - 1 -> BYTE]
  /\ files \in [FILE -> {Missing} \cup Seq(BYTE)]
  /\ open \in 0 .. MAX_OPEN
  /\ answer.id \in Slot /\ answer.error \in 0 .. 3

Contents ==
  [id \in {i \in AllocId : Known(i)} |-> Bytes(memstore[id].data, 0, AllocSize(id))]

Store == INSTANCE PageStore WITH ALLOC_ID <- AllocId, contents <- Contents

(* A command that is answered without an error has done to the allocations, *)
(* seen as sequences, what was asked for, with the indices and lengths that *)
(* were asked for, and to none but the one it names; what RALLOC hands out  *)
(* and PISALLOC writes is the part of the sequence asked for.               *)
Splices ==
  LET done(command) == answer'.command = command /\ answer'.error = 0 IN
  /\ done("CALLOC") =>
       \A pages \in 1 .. MAX_PAGES, kb \in 1 .. MAX_PAGE_KB :
         CreateAlloc(pages, kb) => Store!Create(answer'.id, pages * kb * KB)
  /\ done("FALLOC") /\ answer'.id # 0 => Store!Free(answer'.id)
  /\ done("RALLOC") =>
       \A id \in AllocId, page \in 0 .. MAX_PAGES - 1 :
         RetrieveAlloc(id, page) =>
           answer'.data = SubSeq(Contents[id], page * PageSize(id) + 1,
                                 (page + 1) * PageSize(id))
  /\ done("SALLOC") =>
       \A id \in AllocId, page \in 0 .. MAX_PAGES - 1, s \in DATA :
         StoreAlloc(id, page, s) => Store!Overwrite(id, page * PageSize(id), s)
  /\ done("IALLOC") =>
       \A id \in AllocId, at \in Size, s \in DATA :
         InsertAlloc(id, at, s) => Store!Insert(id, at, s)
  /\ done("XALLOC") =>
       \A id \in AllocId, r \in Span :
         CutAlloc(id, r[1], r[2]) => Store!Cut(id, r[1], r[2])
  /\ done("PILALLOC") =>
       \A id \in AllocId, f \in FILE :
         LoadAlloc(id, f) => Store!Load(id, files[f])
  /\ done("PISALLOC") =>
       /\ Contents' = Contents
       /\ \A id \in AllocId, f \in FILE, size \in FILE_SIZE :
            SaveAlloc(id, f, size) => files'[f] = SubSeq(Contents[id], 1, size)

CommandsSplice == [][Splices]_vars

(* A command that is answered with an error leaves every allocation as it   *)
(* was; only a load that fails may clear the one it was for.                *)
RefusalsKeepContents ==
  [][answer'.error # 0 =>
       \/ Contents' = Contents
       \/ /\ answer'.command = "PILALLOC"
          /\ \E id \in AllocId : Store!Clear(id)]_vars

(* No command loses a stream but FALLOC of a loaded allocation, and none    *)
(* closes one that is not its own.                                          *)
StreamsLostByFreeOnly ==
  [][\/ open' - Cardinality(Loaded') = open - Cardinality(Loaded)
     \/ /\ answer'.command = "FALLOC" /\ answer'.id \in Loaded
        /\ open' - Cardinality(Loaded') = open - Cardinality(Loaded) + 1]_vars

=============================================================================
