------------------------------ MODULE PageAlloc ------------------------------
(***************************************************************************)
(* The buddy allocator between kmalloc and the PMM (memory/page_alloc.c).  *)
(*                                                                         *)
(* Addresses and sizes are counted in pages.  A chunk is a run of pages    *)
(* from the PMM; its first page holds the chunk's header and its table of  *)
(* num_blocks blocks, the rest is cut into blocks.  A slot of the table    *)
(* matters only by what is in it, so blocks is a set with at most          *)
(* num_blocks members, and a free list is a sequence of block addresses.   *)
(*                                                                         *)
(* page_alloc calls itself after it got a chunk.  Each of these rounds is  *)
(* a step, and request is the order being served.  The counters of g_stats *)
(* other than these are left out: they are only printed.                   *)
(***************************************************************************)
EXTENDS Integers, FiniteSetsExt, SequencesExt

CONSTANTS
  FirstPage, LastPage,   \* the pages the PMM manages
  MAX_ORDER,         \* PAGE_ALLOC_MAX_ORDER
  MEDIUM_ORDER,      \* PAGE_ALLOC_MEDIUM_ORDER_THRESHOLD
  LARGE_ORDER,       \* PAGE_ALLOC_LARGE_ORDER_THRESHOLD
  MIN_CHUNK,         \* PAGE_ALLOC_MIN_CHUNK_SIZE and _INITIAL_CHUNK_SIZE
  MEDIUM_CHUNK,      \* PAGE_ALLOC_MEDIUM_CHUNK_SIZE
  MIN_CHUNKS_TO_KEEP,
  num_blocks,        \* slots in the table of a chunk
  MaxTotal           \* bound: no call starts once total_pages is above it

PageAllocAssumption ==
  /\ FirstPage \in Nat \ {0} /\ LastPage \in Nat
  /\ MAX_ORDER \in Nat \ {0}
  /\ 0 <= MEDIUM_ORDER /\ MEDIUM_ORDER <= LARGE_ORDER /\ LARGE_ORDER <= MAX_ORDER
  /\ MIN_CHUNK \in Nat /\ MEDIUM_CHUNK \in Nat /\ MIN_CHUNK >= 2
  /\ MIN_CHUNKS_TO_KEEP \in Nat
  /\ num_blocks \in Nat \ {0} /\ MaxTotal \in Nat

VARIABLES
  pmm_free,          \* the pages the PMM has to give
  chunks,            \* g_page_alloc.chunks, the newest first
  free_lists,        \* free_lists[o]: addresses of the free blocks of order o
  total_pages, free_pages,
  request,           \* the order page_alloc is to serve, or NONE
  held               \* history: the blocks callers have

NONE == -1
Order == 0 .. MAX_ORDER
Pages(b) == b.phys_addr .. b.phys_addr + 2^b.order - 1
SumOf(blocks) == MapThenSumSet(LAMBDA b : 2^b.order, blocks)

vars == <<pmm_free, chunks, free_lists, total_pages, free_pages, request, held>>
table == <<chunks, free_lists, total_pages, free_pages>>

\* External: pmm_alloc_pages takes the first run of n free pages, 0 if none.
pmm_alloc_pages(n) ==
  LET starts == {p \in pmm_free : p .. p + n - 1 \subseteq pmm_free}
  IN IF starts = {} THEN 0 ELSE Min(starts)

\* The usable pages of a chunk follow its header page.
Usable(c) == c.phys_addr .. c.phys_addr + c.size - 1

\* Mutant: the header page does not go back to the PMM.
ChunkPagesNoHeader(c) == Usable(c)

\* The pages that go back to the PMM with a chunk.
ChunkPages(c) == c.phys_addr - 1 .. c.phys_addr + c.size - 1

-----------------------------------------------------------------------------
(* A chunk from the PMM. *)

align_up(a, n) == ((a + n - 1) \div n) * n

\* The block cut at or behind address a: the largest that fits when aligned.
\* Pages skipped for its alignment are not used.
FirstBlock(a, end) ==
  LET fits == {o \in 0 .. MAX_ORDER - 1 : align_up(a, 2^o) + 2^o <= end}
      o == Max(fits)
  IN [phys_addr |-> align_up(a, 2^o), order |-> o, allocated |-> FALSE]

\* The blocks of a new chunk, in the order they are cut.
Carve(start, end) ==
  LET cut[a \in start .. end] ==
        IF a = end THEN <<>>
        ELSE LET b == FirstBlock(a, end) IN <<b>> \o cut[b.phys_addr + 2^b.order]
  IN SubSeq(cut[start], 1, Min({num_blocks, Len(cut[start])}))

\* page_alloc_chunk_from_pmm: each block goes to the head of its list.
chunk_from_pmm(size) ==
  LET p == pmm_alloc_pages(size)
      bs == Carve(p + 1, p + size)
      Of(o) == SelectSeq(bs, LAMBDA b : b.order = o)
  IN /\ pmm_free' = pmm_free \ (p .. p + size - 1)
     /\ chunks' = <<[phys_addr |-> p + 1, size |-> size - 1, blocks |-> ToSet(bs),
                     allocated_blocks |-> 0]>> \o chunks
     /\ free_lists' = [o \in Order |->
          Reverse([i \in 1 .. Len(Of(o)) |-> Of(o)[i].phys_addr]) \o free_lists[o]]
     /\ total_pages' = total_pages + SumOf(ToSet(bs))
     /\ free_pages' = free_pages + SumOf(ToSet(bs))

\* page_alloc_init takes the first chunk.  start is where the memory left by
\* earlier users of the PMM begins.
Init ==
  \E start \in FirstPage .. FirstPage + 2^(MAX_ORDER - 1) - 1 :
    LET bs == Carve(start + 1, start + MIN_CHUNK)
    IN /\ pmm_free = start + MIN_CHUNK .. LastPage
       /\ chunks = <<[phys_addr |-> start + 1, size |-> MIN_CHUNK - 1,
                      blocks |-> ToSet(bs), allocated_blocks |-> 0]>>
       /\ free_lists = [o \in Order |->
            LET of == SelectSeq(bs, LAMBDA b : b.order = o)
            IN Reverse([i \in 1 .. Len(of) |-> of[i].phys_addr])]
       /\ total_pages = SumOf(ToSet(bs)) /\ free_pages = SumOf(ToSet(bs))
       /\ request = NONE /\ held = {}

-----------------------------------------------------------------------------
(* Allocation. *)

\* page_get_order_for_size, for a size in pages.
order_for_size(pages) == Min({o \in 0 .. MAX_ORDER + 1 : 2^o >= pages \/ o = MAX_ORDER + 1})

\* Orders the lists may serve order from.
Serving(order) == {o \in order .. MAX_ORDER - 1 : free_lists[o] # <<>>}

\* page_alloc_multiple, up to the largest order: page_alloc of the order.  The
\* loop for more pages, which takes blocks that need not be adjacent, is left out.
page_alloc_multiple(pages) ==
  /\ request = NONE /\ total_pages <= MaxTotal
  /\ request' = order_for_size(pages)
  /\ UNCHANGED <<pmm_free, table, held>>

\* page_alloc for the largest order: directly from the PMM, or not at all.
AllocDirect ==
  LET p == pmm_alloc_pages(2^request) IN
  /\ request = MAX_ORDER
  /\ request' = NONE
  /\ IF p = 0 THEN UNCHANGED <<pmm_free, held>>
     ELSE /\ pmm_free' = pmm_free \ (p .. p + 2^request - 1)
          /\ held' = held \cup {[phys_addr |-> p, order |-> request]}
  /\ UNCHANGED table

\* Mutant: the half split off keeps the order of the whole.
HalvesWhole(b, target, slots) ==
  {[phys_addr |-> b.phys_addr + 2^o, order |-> o + 1, allocated |-> FALSE] :
     o \in {x \in target .. b.order - 1 : b.order - 1 - x < slots}}

\* page_alloc_split_block: the right halves split off b on the way down to
\* target, the larger first.  A half without a free slot is lost.
Halves(b, target, slots) ==
  {[phys_addr |-> b.phys_addr + 2^o, order |-> o, allocated |-> FALSE] :
     o \in {x \in target .. b.order - 1 : b.order - 1 - x < slots}}

\* The index of the chunk whose table has the block.
ChunkOf(b) == CHOOSE i \in DOMAIN chunks : b \in chunks[i].blocks

\* page_alloc from the first list that can serve the order.
AllocFromList ==
  /\ request \in 0 .. MAX_ORDER - 1 /\ Serving(request) # {}
  /\ LET from == Min(Serving(request))
         b == [phys_addr |-> Head(free_lists[from]), order |-> from, allocated |-> FALSE]
         i == ChunkOf(b)
         halves == Halves(b, request, num_blocks - Cardinality(chunks[i].blocks))
         got == [b EXCEPT !.order = request, !.allocated = TRUE]
     IN /\ chunks' = [chunks EXCEPT ![i].blocks = (@ \ {b}) \cup halves \cup {got},
                                    ![i].allocated_blocks = @ + 1]
        /\ free_lists' = [o \in Order |->
             (IF \E h \in halves : h.order = o THEN <<b.phys_addr + 2^o>> ELSE <<>>)
             \o (IF o = from THEN Tail(free_lists[o]) ELSE free_lists[o])]
        /\ free_pages' = free_pages - 2^request
        /\ held' = held \cup {[phys_addr |-> b.phys_addr, order |-> request]}
  /\ request' = NONE
  /\ UNCHANGED <<pmm_free, total_pages>>

\* The size of the chunk to ask for.
ChunkSize(order) ==
  Max({2^order + 1,
       IF order >= LARGE_ORDER THEN 2^order + 1
       ELSE IF order >= MEDIUM_ORDER THEN MEDIUM_CHUNK ELSE MIN_CHUNK})

\* No list can serve the order: a chunk is taken, if need be of the minimum
\* size, and the call starts over; without a chunk it fails.
AllocGrow ==
  LET size == ChunkSize(request)
      smaller == size > MIN_CHUNK /\ MIN_CHUNK >= 2^request + 1
  IN /\ request \in 0 .. MAX_ORDER - 1 /\ Serving(request) = {}
     /\ \/ /\ pmm_alloc_pages(size) # 0
           /\ chunk_from_pmm(size) /\ UNCHANGED <<request, held>>
        \/ /\ pmm_alloc_pages(size) = 0
           /\ smaller /\ pmm_alloc_pages(MIN_CHUNK) # 0
           /\ chunk_from_pmm(MIN_CHUNK) /\ UNCHANGED <<request, held>>
        \/ /\ pmm_alloc_pages(size) = 0
           /\ ~smaller \/ pmm_alloc_pages(MIN_CHUNK) = 0
           /\ request' = NONE /\ UNCHANGED <<pmm_free, table, held>>

-----------------------------------------------------------------------------
(* Freeing. *)

\* get_buddy_addr: the bit of the order is flipped.
Buddy(a, o) == IF (a \div 2^o) % 2 = 0 THEN a + 2^o ELSE a - 2^o

\* The block of order o that address a lies in.
Lower(a, o) == (a \div 2^o) * 2^o

\* The buddy at order o is in the table of the chunk, free, and whole.
BuddyFree(c, a, o) ==
  [phys_addr |-> Buddy(Lower(a, o), o), order |-> o, allocated |-> FALSE] \in c.blocks

\* Mutant: coalescing stops after one pair.
MergedOrderOnce(c, a, order) == IF BuddyFree(c, a, order) THEN order + 1 ELSE order

\* The order a block reaches by coalescing (the loop of page_free with
\* page_alloc_coalesce_blocks).
MergedOrder(c, a, order) ==
  Max({o \in order .. MAX_ORDER : \A x \in order .. o - 1 : BuddyFree(c, a, x)})

\* The chunk after the block at a was freed, its buddies merged into it.
FreedIn(c, a, order) ==
  LET top == MergedOrder(c, a, order)
      buddies == {[phys_addr |-> Buddy(Lower(a, x), x), order |-> x, allocated |-> FALSE] :
                    x \in order .. top - 1}
      merged == [phys_addr |-> Lower(a, top), order |-> top, allocated |-> FALSE]
  IN [c EXCEPT !.blocks = {b \in @ \ buddies : b.phys_addr # a} \cup {merged},
               !.allocated_blocks = @ - 1]

\* page_alloc_check_empty_chunks: the empty chunks go back, from the head of
\* the list on, while more than MIN_CHUNKS_TO_KEEP are left.
Swept(cs) ==
  LET empty == {i \in DOMAIN cs : cs[i].allocated_blocks = 0}
  IN {i \in empty : Cardinality({j \in empty : j < i}) < Len(cs) - MIN_CHUNKS_TO_KEEP}

\* Mutant: the free blocks of a chunk that goes back stay in the lists.
UnlistedNot(lists, back) == lists

\* page_alloc_remove_from_free_list of every block in back.
Unlisted(lists, back) ==
  [o \in Order |-> SelectSeq(lists[o], LAMBDA a : \A b \in back : b.phys_addr # a)]

\* page_free of a block of a chunk, with the sweep when its chunk got empty.
FreeBlock(h) ==
  LET i == CHOOSE x \in DOMAIN chunks : h.phys_addr \in Usable(chunks[x])
      freed == [chunks EXCEPT ![i] = FreedIn(chunks[i], h.phys_addr, h.order)]
      top == MergedOrder(chunks[i], h.phys_addr, h.order)
      lists == [o \in Order |->
        IF o = top THEN <<Lower(h.phys_addr, o)>> \o free_lists[o]
        ELSE IF o \in h.order .. top - 1
        THEN Remove(free_lists[o], Buddy(Lower(h.phys_addr, o), o))
        ELSE free_lists[o]]
      gone == IF freed[i].allocated_blocks = 0 THEN Swept(freed) ELSE {}
      back == UNION {{b \in freed[x].blocks : ~b.allocated} : x \in gone}
  IN /\ h.order < MAX_ORDER
     /\ chunks' = [x \in 1 .. Len(chunks) - Cardinality(gone) |->
          freed[CHOOSE y \in DOMAIN chunks \ gone :
                  Cardinality({z \in DOMAIN chunks \ gone : z < y}) = x - 1]]
     /\ free_lists' = Unlisted(lists, back)
     /\ total_pages' = total_pages - SumOf(back)
     /\ free_pages' = free_pages + 2^h.order - SumOf(back)
     /\ pmm_free' = pmm_free \cup UNION {ChunkPages(freed[x]) : x \in gone}

\* page_free of the largest order: directly to the PMM.
FreeDirect(h) ==
  /\ h.order = MAX_ORDER
  /\ pmm_free' = pmm_free \cup Pages(h)
  /\ UNCHANGED table

\* page_free_multiple, by a caller that has the block.
page_free_multiple(h) ==
  /\ request = NONE
  /\ FreeBlock(h) \/ FreeDirect(h)
  /\ held' = held \ {h}
  /\ UNCHANGED request

Next ==
  \/ \E pages \in 1 .. 2^MAX_ORDER : page_alloc_multiple(pages)
  \/ AllocDirect \/ AllocFromList \/ AllocGrow
  \/ \E h \in held : page_free_multiple(h)

Spec == Init /\ [][Next]_vars

-----------------------------------------------------------------------------
(* Properties. *)

AllBlocks == UNION {chunks[i].blocks : i \in DOMAIN chunks}

\* The blocks of all tables are aligned to their size, lie in the usable pages of
\* their chunk and do not overlap, after any sequence of splits, merges and
\* losses; and the allocated ones are those that callers have.
BuddyBlocks ==
  /\ \A i \in DOMAIN chunks : \A b \in chunks[i].blocks :
       Pages(b) \subseteq Usable(chunks[i]) /\ b.phys_addr % 2^b.order = 0
  /\ \A b, c \in AllBlocks : b # c => Pages(b) \cap Pages(c) = {}
  /\ {b \in AllBlocks : b.allocated} =
       {[phys_addr |-> h.phys_addr, order |-> h.order, allocated |-> TRUE] :
          h \in {x \in held : x.order < MAX_ORDER}}

\* The free lists have exactly the free blocks of the tables, each once and under
\* its order, and the counter of each chunk its allocated ones.  "Used pages",
\* total_pages less free_pages, is what callers have of the chunks, although
\* halves that are lost stay counted in both, also after their chunk is given
\* back: the sweep subtracts the blocks it finds in the table.
FreeListsExact ==
  /\ \A o \in Order :
       /\ IsInjective(free_lists[o])
       /\ ToSet(free_lists[o]) =
            {b.phys_addr : b \in {x \in AllBlocks : ~x.allocated /\ x.order = o}}
  /\ \A i \in DOMAIN chunks : chunks[i].allocated_blocks =
       Cardinality({b \in chunks[i].blocks : b.allocated})
  /\ total_pages - free_pages = SumOf({h \in held : h.order < MAX_ORDER})

\* No two free buddies of a chunk stay apart, so that memory that is free is free
\* in the largest blocks; also where the blocks of a new chunk are concerned.
Coalesced ==
  \A i \in DOMAIN chunks : \A b \in chunks[i].blocks :
    (~b.allocated /\ b.order < MAX_ORDER - 1) => ~BuddyFree(chunks[i], b.phys_addr, b.order)

\* A page is with the PMM, in one chunk or in one directly allocated block: no
\* chunk is given back with memory in use, and none is lost to the PMM.
PagesConserved ==
  LET direct == {h \in held : h.order = MAX_ORDER}
      parts == {pmm_free} \cup {Usable(c) \cup {c.phys_addr - 1} : c \in ToSet(chunks)}
                          \cup {Pages(h) : h \in direct}
  IN /\ \A s, t \in parts : s # t => s \cap t = {}
     /\ \E start \in FirstPage .. LastPage : UNION parts = start .. LastPage

=============================================================================
