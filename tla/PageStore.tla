------------------------------ MODULE PageStore -----------------------------
(***************************************************************************)
(* What the memory commands of the MCP server promise a client: a store of *)
(* allocations, each a sequence of bytes of a fixed length, changed by     *)
(* splicing.  An allocation is created zeroed; a page is overwritten;      *)
(* bytes are inserted, the end of the allocation falling off, or cut,      *)
(* zeros coming in at the end; a file is loaded over the beginning.        *)
(***************************************************************************)
EXTENDS Integers, Sequences, Functions

CONSTANT ALLOC_ID     (* what an allocation can be called *)

VARIABLE contents     (* the bytes of the allocations there are *)

Zeros(n) == [i \in 1 .. n |-> 0]

First(s, n) == SubSeq(s, 1, n)
From(s, n)  == SubSeq(s, n + 1, Len(s))    (* all but the first n *)

Allocated == DOMAIN contents

Init == contents = << >>

Create(id, size) ==
  /\ id \in ALLOC_ID \ Allocated
  /\ contents' = [i \in Allocated \cup {id} |->
                    IF i = id THEN Zeros(size) ELSE contents[i]]

Free(id) ==
  /\ id \in Allocated
  /\ contents' = Restrict(contents, Allocated \ {id})

Becomes(id, s) ==
  /\ id \in Allocated
  /\ contents' = [contents EXCEPT ![id] = s]

(* s over what is there, from the byte after the first "at" on.             *)
Overwrite(id, at, s) ==
  /\ at + Len(s) <= Len(contents[id])
  /\ Becomes(id, First(contents[id], at) \o s \o From(contents[id], at + Len(s)))

Insert(id, at, s) ==
  /\ at + Len(s) <= Len(contents[id])
  /\ Becomes(id, First(First(contents[id], at) \o s \o From(contents[id], at),
                       Len(contents[id])))

Cut(id, at, n) ==
  /\ at + n <= Len(contents[id])
  /\ Becomes(id, First(contents[id], at) \o From(contents[id], at + n) \o Zeros(n))

(* A file is loaded over what is there or into a cleared allocation.        *)
Load(id, s) ==
  \/ Overwrite(id, 0, s)
  \/ /\ Len(s) <= Len(contents[id])
     /\ Becomes(id, s \o Zeros(Len(contents[id]) - Len(s)))

Clear(id) == Becomes(id, Zeros(Len(contents[id])))

Reset == contents' = << >>

=============================================================================
