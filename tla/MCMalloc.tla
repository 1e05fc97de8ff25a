------------------------------ MODULE MCMalloc ------------------------------
(* The two ways kmalloc gets memory, as settings: the caches with their      *)
(* lookup table, on the instance of MCKmalloc, and the buddy allocator that  *)
(* large allocations come from, PageAlloc, here Buddy.                       *)
EXTENDS MCKmalloc

CONSTANTS
  FirstPage, LastPage, MAX_ORDER, MEDIUM_ORDER, LARGE_ORDER, MIN_CHUNK, MEDIUM_CHUNK,
  MIN_CHUNKS_TO_KEEP, num_blocks, MaxTotal

VARIABLES
  setting,
  pmm_free, chunks, free_lists, total_pages, free_pages, request, held_blocks

Buddy == INSTANCE PageAlloc WITH held <- held_blocks

ASSUME Buddy!PageAllocAssumption

buddyVars == <<pmm_free, chunks, free_lists, total_pages, free_pages, request, held_blocks>>

\* What one setting starts from does not matter to the other.
MCInit ==
  /\ Init /\ Buddy!Init
  /\ \/ setting = "caches" /\ pmm_free = FirstPage + MIN_CHUNK .. LastPage
     \/ setting = "buddy" /\ s.free = 3 .. Min(MemorySizes)

CacheStep == setting = "caches" /\ Next /\ UNCHANGED <<setting, buddyVars>>
BuddyStep == setting = "buddy" /\ Buddy!Next /\ UNCHANGED <<setting, vars>>

MCSpec == MCInit /\ [][CacheStep \/ BuddyStep]_<<setting, vars, buddyVars>>

\* The properties of the buddy allocator: PageAlloc has them, with what they say
\* of page_alloc and page_free.  Its blocks are apart and aligned.
BuddyBlocks == setting = "buddy" => Buddy!BuddyBlocks

\* Its free lists have the free blocks, and its counters count.
FreeListsExact == setting = "buddy" => Buddy!FreeListsExact

\* Its free buddies are merged.
Coalesced == setting = "buddy" => Buddy!Coalesced

\* It shares no page with the PMM and loses none.
PagesConserved == setting = "buddy" => Buddy!PagesConserved
=============================================================================
