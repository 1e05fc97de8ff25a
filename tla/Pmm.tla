-------------------------------- MODULE Pmm --------------------------------
(***************************************************************************)
(* The physical memory manager (kernel/memory/pmm.c) once pmm_init has set *)
(* up its regions: per-region bitmaps, the per-region free counters and    *)
(* the global statistics.                                                  *)
(*                                                                         *)
(* Addresses are counted in units of which PMM_PAGE_SIZE make a page, so   *)
(* that addresses and sizes which are not page aligned exist.  The bitmap  *)
(* of all regions is one set of pages, a page being <<region, index>>: a   *)
(* page is in the set when its bit is 1.  held is a history variable: the  *)
(* pages given out by an allocation and not yet returned.                  *)
(***************************************************************************)
EXTENDS Integers, FiniteSets

CONSTANTS
  pmm_region_count,  \* number of regions
  base,              \* base[i]: first address of region i
  size,              \* size[i]: size of region i, maybe not a page multiple
  PMM_PAGE_SIZE,
  ADDR_SPACE,        \* addresses are taken modulo ADDR_SPACE (2^64)
  MaxCount,          \* bound on the count argument of a multi-page call
  MaxPageTables,     \* bound on page_table_pages, which never decreases
  MaxForeignFrees    \* bound on how far allocated_pages sinks below zero

Region == 1 .. pmm_region_count

ASSUME PmmAssumption ==
  /\ pmm_region_count \in Nat
  /\ base \in [Region -> Nat \ {0}]  \* address 0 is the "no page" result
  /\ size \in [Region -> Nat]
  /\ PMM_PAGE_SIZE \in Nat \ {0}
  /\ ADDR_SPACE \in Nat \ {0}
  /\ \A i \in Region : base[i] + size[i] <= ADDR_SPACE
  /\ MaxCount \in Nat
  /\ MaxPageTables \in Nat
  /\ MaxForeignFrees \in Nat

Address == 0 .. ADDR_SPACE - 1

total_pages(i) == size[i] \div PMM_PAGE_SIZE

\* The pages region i manages; a trailing partial page is not one of them.
PagesOf(i) == {i} \X (0 .. total_pages(i) - 1)

Page == UNION {PagesOf(i) : i \in Region}

VARIABLES
  bitmap,            \* the pages whose bit is set
  region_free,       \* region_free[i]: regions[i].free_pages
  free_pages, reserved_pages, allocated_pages, page_table_pages,  \* pmm_stats
  held               \* history: pages allocated and not yet freed

stats == <<free_pages, reserved_pages, allocated_pages, page_table_pages>>
pmmVars == <<bitmap, region_free, stats, held>>

-----------------------------------------------------------------------------
(* Addresses, pages and the first fit. *)

\* The regions an address lies in; pmm_find_region returns the first.
RegionsAt(pa) == {i \in Region : base[i] <= pa /\ pa < base[i] + size[i]}

pmm_find_region(pa) ==
  CHOOSE i \in RegionsAt(pa) : \A j \in RegionsAt(pa) : i <= j

addr_to_page(i, pa) == (pa - base[i]) \div PMM_PAGE_SIZE

\* The page a single-page call acts on: none when the address is in no
\* region or in the trailing partial page of one.
PageAt(pa) ==
  IF RegionsAt(pa) = {} THEN {}
  ELSE {<<pmm_find_region(pa), addr_to_page(pmm_find_region(pa), pa)>>}
         \cap Page

\* count pages of region i from index start on.
Run(i, start, count) == {i} \X (start .. start + count - 1)

FreeRun(i, start, count) ==
  /\ start + count <= total_pages(i)
  /\ \A p \in start .. start + count - 1 : <<i, p>> \notin bitmap

\* The search takes the first region that has a run of count free pages,
\* and in it the lowest start (PmmScan shows the loop finds that one).
FirstFit(i, start, count) ==
  /\ FreeRun(i, start, count)
  /\ \A s \in 0 .. start - 1 : ~ FreeRun(i, s, count)
  /\ \A j \in 1 .. i - 1 : \A s \in 0 .. total_pages(j) : ~ FreeRun(j, s, count)

-----------------------------------------------------------------------------
(* The three ways a set of bits changes, with the counters that follow. *)

InRegion(i, S) == {pg \in S : pg[1] = i}

Allocate(S) ==
  /\ bitmap' = bitmap \cup S
  /\ region_free' = [i \in Region |-> region_free[i] - Cardinality(InRegion(i, S))]
  /\ free_pages' = free_pages - Cardinality(S)
  /\ allocated_pages' = allocated_pages + Cardinality(S)
  /\ held' = held \cup S
  /\ UNCHANGED reserved_pages

\* Mutant: a page that is already free is counted again.
ReleaseNoFreeCheck(S) ==
  /\ bitmap' = bitmap \ S
  /\ region_free' = [i \in Region |-> region_free[i] + Cardinality(InRegion(i, S))]
  /\ free_pages' = free_pages + Cardinality(S)
  /\ allocated_pages' = allocated_pages - Cardinality(S)
  /\ held' = held \ S
  /\ UNCHANGED reserved_pages

\* Only the bits that are set change; allocated_pages is decremented for
\* each of them, whether the page had been allocated or reserved.  It is a
\* uint64_t: its C value is this integer modulo 2^64.
Release(S) ==
  LET T == S \cap bitmap IN
  /\ bitmap' = bitmap \ T
  /\ region_free' = [i \in Region |-> region_free[i] + Cardinality(InRegion(i, T))]
  /\ free_pages' = free_pages + Cardinality(T)
  /\ allocated_pages' = allocated_pages - Cardinality(T)
  /\ held' = held \ T
  /\ UNCHANGED reserved_pages

\* Mutant: the reservation of an allocated page takes it over.
ReserveTakesHeld(S) ==
  LET T == S \ bitmap IN
  /\ bitmap' = bitmap \cup S
  /\ region_free' = [i \in Region |-> region_free[i] - Cardinality(InRegion(i, T))]
  /\ free_pages' = free_pages - Cardinality(T)
  /\ reserved_pages' = reserved_pages + Cardinality(T) + Cardinality(S \cap held)
  /\ allocated_pages' = allocated_pages - Cardinality(S \cap held)
  /\ held' = held \ S

\* Bits already set, by an allocation or an earlier reservation, are skipped.
Reserve(S) ==
  LET T == S \ bitmap IN
  /\ bitmap' = bitmap \cup T
  /\ region_free' = [i \in Region |-> region_free[i] - Cardinality(InRegion(i, T))]
  /\ free_pages' = free_pages - Cardinality(T)
  /\ reserved_pages' = reserved_pages + Cardinality(T)
  /\ UNCHANGED <<allocated_pages, held>>

-----------------------------------------------------------------------------
(* The operations.  A call that fails or returns early changes nothing and *)
(* is a stuttering step.                                                   *)

pmm_alloc_page ==
  /\ \E i \in Region : \E p \in 0 .. total_pages(i) - 1 :
       FirstFit(i, p, 1) /\ Allocate({<<i, p>>})
  /\ UNCHANGED page_table_pages

pmm_alloc_page_table ==
  /\ page_table_pages < MaxPageTables
  /\ \E i \in Region : \E p \in 0 .. total_pages(i) - 1 :
       FirstFit(i, p, 1) /\ Allocate({<<i, p>>})
  /\ page_table_pages' = page_table_pages + 1

pmm_alloc_pages(count) ==
  /\ \E i \in Region : \E p \in 0 .. total_pages(i) - 1 :
       FirstFit(i, p, count) /\ Allocate(Run(i, p, count))
  /\ UNCHANGED page_table_pages

pmm_free_page(pa) ==
  /\ Release(PageAt(pa))
  /\ UNCHANGED page_table_pages

\* The pages the loop of pmm_free_pages frees one by one.
PagesFrom(pa, count) ==
  UNION {PageAt((pa + k * PMM_PAGE_SIZE) % ADDR_SPACE) : k \in 0 .. count - 1}

pmm_free_pages(pa, count) ==
  /\ Release(PagesFrom(pa, count))
  /\ UNCHANGED page_table_pages

\* The pages of region i that meet [b, e), partly covered ones included.
Overlap(i, b, e) ==
  LET region_end    == base[i] + size[i]
      overlap_start == IF b > base[i] THEN b ELSE base[i]
      overlap_end   == IF e < region_end THEN e ELSE region_end
  IN  IF e <= base[i] \/ b >= region_end THEN {}
      ELSE {pg \in PagesOf(i) :
              /\ addr_to_page(i, overlap_start) <= pg[2]
              /\ pg[2] < addr_to_page(i, overlap_end + PMM_PAGE_SIZE - 1)}

pmm_reserve_region(b, s) ==
  /\ Reserve(UNION {Overlap(i, b, (b + s) % ADDR_SPACE) : i \in Region})
  /\ UNCHANGED page_table_pages

\* The region is looked up with the address as given, the page with the
\* address rounded down, which may lie before an unaligned region base.
pmm_reserve_page(pa) ==
  /\ Reserve(IF RegionsAt(pa) = {} THEN {}
             ELSE LET i == pmm_find_region(pa) IN
                  {<<i, addr_to_page(i, pa - (pa % PMM_PAGE_SIZE))>>} \cap Page)
  /\ UNCHANGED page_table_pages

-----------------------------------------------------------------------------
(* Specifications. *)

Init ==
  /\ bitmap = {}
  /\ region_free = [i \in Region |-> total_pages(i)]
  /\ free_pages = Cardinality(Page)
  /\ reserved_pages = 0
  /\ allocated_pages = 0
  /\ page_table_pages = 0
  /\ held = {}

AllocOrReserve ==
  \/ pmm_alloc_page
  \/ pmm_alloc_page_table
  \/ \E count \in 2 .. MaxCount : pmm_alloc_pages(count)
  \/ \E pa \in Address : pmm_reserve_page(pa)
  \/ \E b, s \in Address : pmm_reserve_region(b, s)

\* Callers that may free any address: free, reserved, foreign or unmanaged.
AnyNext ==
  \/ AllocOrReserve
  \/ /\ allocated_pages > - MaxForeignFrees
     /\ \/ \E pa \in Address : pmm_free_page(pa)
        \/ \E pa \in Address : \E count \in 0 .. MaxCount : pmm_free_pages(pa, count)

AnySpec == Init /\ [][AnyNext]_pmmVars

\* Callers as the kernel has them: what they free and is not already free,
\* they hold.
MayFree(S) == S \cap bitmap \subseteq held

Next ==
  \/ AllocOrReserve
  \/ \E pa \in Address : MayFree(PageAt(pa)) /\ pmm_free_page(pa)
  \/ \E pa \in Address : \E count \in 0 .. MaxCount :
       MayFree(PagesFrom(pa, count)) /\ pmm_free_pages(pa, count)

Spec == Init /\ [][Next]_pmmVars

-----------------------------------------------------------------------------
(* Properties. *)

\* The state has its types; only pages that exist have bits, also after calls
\* for addresses in the trailing partial page of a region.
TypeOK ==
  /\ bitmap \subseteq Page
  /\ held \subseteq Page
  /\ region_free \in [Region -> Int]
  /\ free_pages \in Int
  /\ reserved_pages \in Int
  /\ allocated_pages \in Int
  /\ page_table_pages \in Nat

\* Whatever callers free, reserve or allocate, in whatever order, the free
\* counters are the number of zero bits: regions[i].free_pages for every
\* region, and pmm_stats.free_pages for all of them.
CountersMatchBitmap ==
  /\ \A i \in Region :
       region_free[i] = total_pages(i) - Cardinality(InRegion(i, bitmap))
  /\ free_pages = Cardinality(Page) - Cardinality(bitmap)

\* Whatever callers do, free, reserved and allocated pages add up to the
\* total: the used count of pmm_print_stats, allocated + reserved, is right
\* even after a reserved page was freed and the two addends are not.
StatsBalance ==
  free_pages + allocated_pages + reserved_pages = Cardinality(Page)

\* With callers that free only what they hold, allocated_pages counts the
\* pages held (so it cannot wrap below zero), reserved_pages counts the
\* other set bits, and no page is held without its bit being set.
StatsExact ==
  /\ held \subseteq bitmap
  /\ allocated_pages = Cardinality(held)
  /\ reserved_pages = Cardinality(bitmap \ held)

\* The manager implements the page store: no page is given to two holders,
\* a reserved page is never given out and never becomes free.
Store == INSTANCE PageStore WITH
  Pages <- Page, free <- Page \ bitmap, reserved <- bitmap \ held

StoreSpec == Store!Spec
=============================================================================
