--------------------------------- MODULE Cmm --------------------------------
(***************************************************************************)
(* The configuration memory of src/lib/cmm: one shared segment, cut into   *)
(* blocks that are each a header (type, next, prev, size) and its bytes,   *)
(* best-fit allocation that splits a block when another header fits in the *)
(* rest, and a free that merges with the next block and then with the      *)
(* previous one.  Memory is kept cell by cell, so that a header that a      *)
(* merge has left behind is still there, stale, until something else is    *)
(* written over it, as in the segment itself.                              *)
(*                                                                         *)
(* Every operation runs between plcmutex_lock and plcmutex_unlock, and is  *)
(* one step here; what happens after the unlock (the memset of a new       *)
(* block) is a step of its own, and so is a death inside.                  *)
(***************************************************************************)
EXTENDS Integers, Sequences, FiniteSetsExt

CONSTANTS
  Segments,    \* records [size, reqs]: the cells of a confmap, and the sizes that
               \* its users ask of cmm_block_alloc
  Words,       \* what a user may write at the head of a cell: read as a type
  MayDie       \* whether processes die inside an operation

HEADER == 1    \* cells of a header

ASSUME CmmConstants ==
  /\ \A s \in Segments : s.size \in Nat /\ s.size > HEADER /\ s.reqs \subseteq Nat \ {0}
  /\ Words \subseteq {"free", "used"}
  /\ MayDie \in BOOLEAN

VARIABLES
  confmap_size,\* of the cmm_t, without the cmm_t itself
  last_block,  \* of the cmm_t
  mem,         \* [1..confmap_size -> cell]: a header, or a cell of user data
  live,        \* the blocks handed out: records [addr, n, val]
  reqs,        \* the sizes that are asked for
  died         \* whether a process has died inside an operation

cmmvars == <<confmap_size, last_block, mem, live, reqs, died>>

First == 1                                    \* first_block: never changed
Cell(t, n, p, s) == [type |-> t, next |-> n, prev |-> p, size |-> s]
Datum(v) == Cell(v, 0, 0, 0)
Cells(addr, n) == addr + HEADER .. addr + HEADER + n - 1

\* The blocks, as every loop over the list finds them.
BlocksFrom(m) ==
  LET from[b \in 0..confmap_size] == IF b = 0 THEN <<>> ELSE <<b>> \o from[m[b].next]
  IN  from[First]
Blocks == BlocksFrom(mem)
InList(addr) == \E i \in DOMAIN Blocks : Blocks[i] = addr

\* cmm_setup: a single free block.
CmmInit ==
  /\ \E s \in Segments : confmap_size = s.size /\ reqs = s.reqs
  /\ mem = [c \in 1..confmap_size |->
              IF c = First THEN Cell("free", 0, 0, confmap_size - HEADER) ELSE Datum("zero")]
  /\ last_block = First
  /\ live = {}
  /\ died = FALSE

-----------------------------------------------------------------------------
Fits(n) == {i \in DOMAIN Blocks : mem[Blocks[i]].type = "free" /\ mem[Blocks[i]].size >= n}

\* The smallest free block that is large enough, the first of several.
BestFit(n) ==
  Blocks[Min({i \in Fits(n) : \A j \in Fits(n) : mem[Blocks[i]].size <= mem[Blocks[j]].size})]

SplitsIfFits(b, n) == mem[b].size >= n          \* mutant: the header is forgotten
Splits(b, n) == mem[b].size > n + HEADER

SplitNoHeader(m, b, n) ==                       \* mutant: the rest keeps a header too many
  LET rest == b + HEADER + n
  IN  [m EXCEPT ![rest] = Cell("free", m[b].next, b, m[b].size - n),
                ![b].size = n,
                ![b].next = rest]

\* The rest of a split block becomes a block; its successor's prev is not set.
Split(m, b, n) ==
  LET rest == b + HEADER + n
  IN  [m EXCEPT ![rest] = Cell("free", m[b].next, b, m[b].size - n - HEADER),
                ![b].size = n,
                ![b].next = rest]

Relast(b, n) == IF Splits(b, n) /\ last_block = b THEN b + HEADER + n ELSE last_block

\* The new block's bytes are not cleared before the lock is released.
Alloc(n) ==
  /\ Fits(n) # {}
  /\ LET b == BestFit(n)
         m == IF Splits(b, n) THEN Split(mem, b, n) ELSE mem
     IN  /\ mem' = [m EXCEPT ![b].type = "used"]
         /\ live' = live \cup {[addr |-> b, n |-> n, val |-> "dirty"]}
         /\ last_block' = Relast(b, n)
  /\ UNCHANGED <<confmap_size, reqs, died>>

\* The process dies in cmm_block_alloc: the block has shrunk and its rest is
\* not yet linked, or all is linked and only the type is missing.
AllocDies(n) ==
  /\ MayDie /\ Fits(n) # {}
  /\ LET b == BestFit(n)
         m == Split(mem, b, n)
     IN  /\ Splits(b, n)
         /\ \/ mem' = [m EXCEPT ![b].next = mem[b].next] /\ last_block' = last_block
            \/ mem' = m /\ last_block' \in {last_block, Relast(b, n)}
  /\ died' = TRUE
  /\ UNCHANGED <<confmap_size, reqs, live>>

\* memset of the bytes asked for.
Clear(r) ==
  /\ r \in live /\ r.val = "dirty"
  /\ mem' = [c \in 1..confmap_size |-> IF c \in Cells(r.addr, r.n) THEN Datum("zero") ELSE mem[c]]
  /\ live' = (live \ {r}) \cup {[r EXCEPT !.val = "zero"]}
  /\ UNCHANGED <<confmap_size, reqs, last_block, died>>

\* A user writes into its block.
Write(r, v) ==
  /\ r \in live /\ r.val # "dirty"
  /\ mem' = [c \in 1..confmap_size |-> IF c \in Cells(r.addr, r.n) THEN Datum(v) ELSE mem[c]]
  /\ live' = (live \ {r}) \cup {[r EXCEPT !.val = v]}
  /\ UNCHANGED <<confmap_size, reqs, last_block, died>>

\* Sizes are capped: a larger one only ever stands in a stale header, whose
\* size is not read, or in a list that has left the segment.
Capped(size) == IF size > confmap_size THEN confmap_size ELSE size

\* cmm_merge_free_blocks: the survivor's next, then its size; the prev of the
\* block after them and last_block stay.
Link(m, b, gone) == [m EXCEPT ![b].next = m[gone].next]
Merge(m, b, gone) == [Link(m, b, gone) EXCEPT ![b].size = Capped(@ + m[gone].size + HEADER)]

CanMerge(m, b, gone) ==
  b # 0 /\ gone # 0 /\ m[b].type = "free" /\ m[gone].type = "free"

MergeNextUnchecked(m, b) ==                     \* mutant: whatever the next block is
  IF m[b].next # 0 THEN Merge(m, b, m[b].next) ELSE m
MergeNext(m, b) == IF CanMerge(m, b, m[b].next) THEN Merge(m, b, m[b].next) ELSE m
MergePrev(m, b) == IF CanMerge(m, m[b].prev, b) THEN Merge(m, m[b].prev, b) ELSE m

\* cmm_block_free; a block that is not found in the list is refused.
Free(r) ==
  /\ r \in live /\ InList(r.addr)
  /\ mem' = MergePrev(MergeNext([mem EXCEPT ![r.addr].type = "free"], r.addr), r.addr)
  /\ live' = live \ {r}
  /\ UNCHANGED <<confmap_size, reqs, last_block, died>>

\* The process dies in cmm_block_free, after one of its stores.
FreeDies(r) ==
  /\ MayDie /\ r \in live /\ InList(r.addr)
  /\ LET b == r.addr
         marked == [mem EXCEPT ![b].type = "free"]
         joined == MergeNext(marked, b)
     IN  \/ mem' = marked
         \/ CanMerge(marked, b, marked[b].next) /\ mem' = Link(marked, b, marked[b].next)
         \/ mem' = joined
         \/ CanMerge(joined, joined[b].prev, b) /\ mem' = Link(joined, joined[b].prev, b)
  /\ live' = live \ {r}
  /\ died' = TRUE
  /\ UNCHANGED <<confmap_size, reqs, last_block>>

\* A list that runs over the end of the segment is not followed any further:
\* the next operations would fault.
InSegment == \A i \in DOMAIN Blocks : Blocks[i] + mem[Blocks[i]].size <= confmap_size

CmmNext ==
  /\ InSegment
  /\ \/ \E n \in reqs : Alloc(n) \/ AllocDies(n)
     \/ \E r \in live : Clear(r) \/ Free(r) \/ FreeDies(r) \/ \E v \in Words : Write(r, v)

CmmSpec == CmmInit /\ [][CmmNext]_cmmvars

-----------------------------------------------------------------------------
CmmTypeOK ==
  /\ mem \in [1..confmap_size -> [type : {"free", "used", "zero"}, next : 0..confmap_size,
                             prev : 0..confmap_size, size : 0..confmap_size]]
  /\ last_block \in 1..confmap_size
  /\ died \in BOOLEAN
  /\ live \subseteq [addr : 1..confmap_size, n : reqs, val : {"dirty", "zero"} \cup Words]

Extent(b) == b .. b + HEADER + mem[b].size - 1

\* The list covers the memory: each block begins where the one before it ends.
Tiled ==
  /\ \A i \in 1..Len(Blocks) - 1 : Blocks[i + 1] = Blocks[i] + HEADER + mem[Blocks[i]].size
  /\ LET b == Blocks[Len(Blocks)] IN b + HEADER + mem[b].size - 1 = confmap_size

PrevExact == \A i \in 2..Len(Blocks) : mem[Blocks[i]].prev = Blocks[i - 1]

\* Every block handed out is a used block of the list, large enough, nobody
\* else was given it, and no other block, free or used, overlaps it.
LiveDisjoint ==
  \A r \in live :
    /\ \A q \in live : q.addr = r.addr => q = r
    /\ InList(r.addr) /\ mem[r.addr].type = "used" /\ mem[r.addr].size >= r.n
    /\ \A i \in DOMAIN Blocks :
         Blocks[i] # r.addr => Extent(Blocks[i]) \cap Extent(r.addr) = {}

\* The bytes of a block are what its users last wrote: the allocator, its stale
\* headers and the memset of another block never touch them.
DataIntact ==
  \A r \in live : r.val # "dirty" => \A c \in Cells(r.addr, r.n) : mem[c] = Datum(r.val)

Safe == LiveDisjoint /\ DataIntact

\* cmm_private.h:85 promises that all memory always belongs to one block of the
\* list.  VIOLATED with requests of several sizes: merging with a stale prev
\* drops a block in use out of the list and hands its bytes out again.
ConfmapSafe == Safe

\* What the code delivers, I: from a list whose prev links are right no single
\* operation, and no death in the middle of one, harms a block in use, whether or
\* not the list still covers the memory.
SafeFromExact == [][(PrevExact /\ Safe) => Safe']_cmmvars

\* II: when all requests have one size, a stale prev names a place where a header
\* is, or free memory: no sequence of operations and deaths harms anything, and
\* without deaths the list keeps covering all memory.
Uniform == \E n \in reqs : reqs = {n}
UniformSafe == Uniform => Safe /\ (~died => Tiled)
=============================================================================
