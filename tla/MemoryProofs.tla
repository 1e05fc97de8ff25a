---------------------------- MODULE MemoryProofs ----------------------------
(***************************************************************************)
(* Proofs about the physical memory manager and about the search loops of  *)
(* pmm_alloc_pages, for any regions, any page size and any bounds; and that*)
(* the layout of a slab fits for every size, every alignment and every     *)
(* ladder of slab sizes that at least double.                              *)
(***************************************************************************)
EXTENDS PmmScan, SlabLayout, FiniteSetTheorems, WellFoundedInduction, TLAPS

-----------------------------------------------------------------------------
(* Pages and cardinalities. *)

\* A region has a natural number of whole pages, at most its size.
LEMMA TotalPages ==
  ASSUME NEW i \in Region
  PROVE  total_pages(i) \in Nat /\ total_pages(i) <= ADDR_SPACE
<1>1. /\ size[i] \in Nat /\ base[i] \in Nat /\ base[i] + size[i] <= ADDR_SPACE
      /\ ADDR_SPACE \in Nat /\ PMM_PAGE_SIZE \in Nat /\ PMM_PAGE_SIZE >= 1
  BY PmmAssumption
<1>2. \A s, p \in Nat : p >= 1 => s \div p \in Nat /\ s \div p <= s
  OBVIOUS
<1> QED BY <1>1, <1>2 DEF total_pages

\* The managed pages are the pairs of a region and an index in it.
LEMMA PageShape ==
  ASSUME NEW pg
  PROVE  pg \in Page <=> /\ pg = <<pg[1], pg[2]>>
                         /\ pg[1] \in Region
                         /\ pg[2] \in 0 .. total_pages(pg[1]) - 1
BY DEF Page, PagesOf

LEMMA PageFinite == IsFiniteSet(Page)
<1>1. Page \subseteq Region \X (0 .. ADDR_SPACE)
  BY TotalPages, PmmAssumption, PageShape
<1>2. IsFiniteSet(Region) /\ IsFiniteSet(0 .. ADDR_SPACE)
  BY PmmAssumption, FS_Interval DEF Region
<1> QED BY <1>1, <1>2, FS_Product, FS_Subset

LEMMA PagesOfFinite ==
  ASSUME NEW i \in Region
  PROVE  /\ IsFiniteSet(PagesOf(i)) /\ Cardinality(PagesOf(i)) = total_pages(i)
         /\ InRegion(i, Page) = PagesOf(i)
<1> DEFINE T == 0 .. total_pages(i) - 1
<1>1. IsFiniteSet({i}) /\ Cardinality({i}) = 1
  BY FS_Singleton
<1>2. IsFiniteSet(T) /\ Cardinality(T) = total_pages(i)
  <2>1. \A n \in Nat : IsFiniteSet(0 .. n - 1) /\ Cardinality(0 .. n - 1) = n
    BY FS_Interval
  <2> QED BY <2>1, TotalPages
<1>3. IsFiniteSet(PagesOf(i)) /\ Cardinality(PagesOf(i)) = total_pages(i)
  <2>1. PagesOf(i) = {i} \X T
    BY DEF PagesOf
  <2> HIDE DEF T
  <2>2. IsFiniteSet({i} \X T) /\ Cardinality({i} \X T) = Cardinality({i}) * Cardinality(T)
    BY <1>1, <1>2, FS_Product
  <2> QED BY <1>1, <1>2, <2>1, <2>2, TotalPages
<1>4. InRegion(i, Page) = PagesOf(i)
  BY DEF InRegion, Page, PagesOf
<1> QED BY <1>3, <1>4, TotalPages

\* Setting bits that are clear: how the counts of set bits grow.
LEMMA CardAdd ==
  ASSUME NEW A, NEW B, A \subseteq Page, B \subseteq Page, A \cap B = {}
  PROVE  /\ Cardinality(A) \in Nat /\ Cardinality(B) \in Nat
         /\ Cardinality(A \cup B) = Cardinality(A) + Cardinality(B)
<1>1. IsFiniteSet(A) /\ IsFiniteSet(B)
  BY PageFinite, FS_Subset
<1>2. Cardinality(A \cup B) = Cardinality(A) + Cardinality(B) - Cardinality(A \cap B)
  BY <1>1, FS_Union
<1>3. Cardinality(A) \in Nat /\ Cardinality(B) \in Nat /\ Cardinality(A \cap B) = 0
  BY <1>1, FS_EmptySet, FS_CardinalityType
<1> QED BY <1>2, <1>3

\* Clearing bits that are set: how the counts of set bits shrink.
LEMMA CardRemove ==
  ASSUME NEW A, NEW B, A \subseteq Page, B \subseteq A
  PROVE  /\ Cardinality(A) \in Nat /\ Cardinality(B) \in Nat
         /\ Cardinality(A \ B) = Cardinality(A) - Cardinality(B)
<1>1. IsFiniteSet(A) /\ IsFiniteSet(B) /\ A \cap B = B
  BY PageFinite, FS_Subset
<1>2. Cardinality(A \ B) = Cardinality(A) - Cardinality(A \cap B)
  BY <1>1, FS_Difference
<1>3. Cardinality(A) \in Nat /\ Cardinality(B) \in Nat
  BY <1>1, FS_CardinalityType
<1> QED BY <1>1, <1>2, <1>3

-----------------------------------------------------------------------------
(* Any callers: TypeOK, CountersMatchBitmap and StatsBalance together are  *)
(* inductive.                                                              *)

AnyInv == TypeOK /\ CountersMatchBitmap /\ StatsBalance

LEMMA AnyInit == Init => AnyInv
<1> SUFFICES ASSUME Init PROVE AnyInv
  OBVIOUS
<1>1. TypeOK
  <2>1. Cardinality(Page) \in Nat
    BY PageFinite, FS_CardinalityType
  <2> QED BY <2>1, TotalPages DEF Init, TypeOK
<1>2. CountersMatchBitmap
  <2>1. \A i \in Region : InRegion(i, bitmap) = {}
    BY DEF Init, InRegion
  <2> QED BY <2>1, TotalPages, PageFinite, FS_EmptySet, FS_CardinalityType
          DEF Init, CountersMatchBitmap
<1>3. StatsBalance
  BY PageFinite, FS_CardinalityType DEF Init, StatsBalance
<1> QED BY <1>1, <1>2, <1>3 DEF AnyInv

\* Setting a set S of clear bits, and lowering the free counters by it,
\* preserves the agreement of counters and bitmap.
LEMMA SetBits ==
  ASSUME TypeOK, CountersMatchBitmap, NEW S, S \subseteq Page, S \cap bitmap = {},
         bitmap' = bitmap \cup S,
         region_free' = [i \in Region |-> region_free[i] - Cardinality(InRegion(i, S))],
         free_pages' = free_pages - Cardinality(S)
  PROVE  /\ CountersMatchBitmap'
         /\ bitmap' \subseteq Page
         /\ region_free' \in [Region -> Int]
         /\ Cardinality(S) \in Nat
         /\ Cardinality(bitmap') = Cardinality(bitmap) + Cardinality(S)
<1>1. /\ Cardinality(bitmap) \in Nat /\ Cardinality(S) \in Nat
      /\ Cardinality(bitmap \cup S) = Cardinality(bitmap) + Cardinality(S)
  BY CardAdd DEF TypeOK
<1>2. ASSUME NEW i \in Region
      PROVE  /\ Cardinality(InRegion(i, bitmap)) \in Nat
             /\ Cardinality(InRegion(i, S)) \in Nat
             /\ Cardinality(InRegion(i, bitmap \cup S)) =
                  Cardinality(InRegion(i, bitmap)) + Cardinality(InRegion(i, S))
  <2> DEFINE A == InRegion(i, bitmap)
             B == InRegion(i, S)
  <2>1. /\ A \subseteq Page /\ B \subseteq Page /\ A \cap B = {}
        /\ InRegion(i, bitmap \cup S) = A \cup B
    BY DEF InRegion, TypeOK
  <2> QED BY <2>1, CardAdd
<1>3. region_free' \in [Region -> Int]
  BY <1>2 DEF TypeOK
<1>4. ASSUME NEW i \in Region
      PROVE  region_free'[i] = total_pages(i) - Cardinality(InRegion(i, bitmap'))
  <2>1. region_free'[i] = region_free[i] - Cardinality(InRegion(i, S))
    OBVIOUS
  <2>2. region_free[i] = total_pages(i) - Cardinality(InRegion(i, bitmap))
    BY DEF CountersMatchBitmap
  <2>3. Cardinality(InRegion(i, bitmap')) = Cardinality(InRegion(i, bitmap \cup S))
    OBVIOUS
  <2>4. total_pages(i) \in Nat
    BY TotalPages
  <2>5. /\ Cardinality(InRegion(i, bitmap)) \in Nat
        /\ Cardinality(InRegion(i, S)) \in Nat
        /\ Cardinality(InRegion(i, bitmap \cup S)) =
             Cardinality(InRegion(i, bitmap)) + Cardinality(InRegion(i, S))
    BY <1>2
  <2> QED BY <2>1, <2>2, <2>3, <2>4, <2>5
<1>5. free_pages' = Cardinality(Page) - Cardinality(bitmap')
  <2>1. Cardinality(Page) \in Nat
    BY PageFinite, FS_CardinalityType
  <2> QED BY <1>1, <2>1 DEF CountersMatchBitmap
<1> QED BY <1>1, <1>3, <1>4, <1>5 DEF CountersMatchBitmap, TypeOK

\* Clearing a set S of set bits, and raising the free counters by it.
LEMMA ClearBits ==
  ASSUME TypeOK, CountersMatchBitmap, NEW S, S \subseteq bitmap,
         bitmap' = bitmap \ S,
         region_free' = [i \in Region |-> region_free[i] + Cardinality(InRegion(i, S))],
         free_pages' = free_pages + Cardinality(S)
  PROVE  /\ CountersMatchBitmap'
         /\ bitmap' \subseteq Page
         /\ region_free' \in [Region -> Int]
         /\ Cardinality(S) \in Nat
         /\ Cardinality(bitmap') = Cardinality(bitmap) - Cardinality(S)
<1>1. /\ Cardinality(bitmap) \in Nat /\ Cardinality(S) \in Nat
      /\ Cardinality(bitmap \ S) = Cardinality(bitmap) - Cardinality(S)
  BY CardRemove DEF TypeOK
<1>2. ASSUME NEW i \in Region
      PROVE  /\ Cardinality(InRegion(i, bitmap)) \in Nat
             /\ Cardinality(InRegion(i, S)) \in Nat
             /\ Cardinality(InRegion(i, bitmap \ S)) =
                  Cardinality(InRegion(i, bitmap)) - Cardinality(InRegion(i, S))
  <2> DEFINE A == InRegion(i, bitmap)
             B == InRegion(i, S)
  <2>1. /\ A \subseteq Page /\ B \subseteq A
        /\ InRegion(i, bitmap \ S) = A \ B
    BY DEF InRegion, TypeOK
  <2> QED BY <2>1, CardRemove
<1>3. region_free' \in [Region -> Int]
  BY <1>2 DEF TypeOK
<1>4. ASSUME NEW i \in Region
      PROVE  region_free'[i] = total_pages(i) - Cardinality(InRegion(i, bitmap'))
  <2>1. region_free'[i] = region_free[i] + Cardinality(InRegion(i, S))
    OBVIOUS
  <2>2. region_free[i] = total_pages(i) - Cardinality(InRegion(i, bitmap))
    BY DEF CountersMatchBitmap
  <2>3. Cardinality(InRegion(i, bitmap')) = Cardinality(InRegion(i, bitmap \ S))
    OBVIOUS
  <2>4. total_pages(i) \in Nat
    BY TotalPages
  <2>5. /\ Cardinality(InRegion(i, bitmap)) \in Nat
        /\ Cardinality(InRegion(i, S)) \in Nat
        /\ Cardinality(InRegion(i, bitmap \ S)) =
             Cardinality(InRegion(i, bitmap)) - Cardinality(InRegion(i, S))
    BY <1>2
  <2> QED BY <2>1, <2>2, <2>3, <2>4, <2>5
<1>5. free_pages' = Cardinality(Page) - Cardinality(bitmap')
  <2>1. Cardinality(Page) \in Nat
    BY PageFinite, FS_CardinalityType
  <2> QED BY <1>1, <2>1 DEF CountersMatchBitmap
<1> QED BY <1>1, <1>3, <1>4, <1>5 DEF CountersMatchBitmap, TypeOK

-----------------------------------------------------------------------------
(* The three kinds of step. *)

LEMMA AllocateStep ==
  ASSUME AnyInv, NEW S, S \subseteq Page, S \cap bitmap = {}, Allocate(S),
         page_table_pages' \in Nat
  PROVE  AnyInv'
<1>1. /\ CountersMatchBitmap' /\ bitmap' \subseteq Page
      /\ region_free' \in [Region -> Int] /\ Cardinality(S) \in Nat
  BY SetBits DEF AnyInv, Allocate
<1>2. /\ free_pages' = free_pages - Cardinality(S)
      /\ allocated_pages' = allocated_pages + Cardinality(S)
      /\ reserved_pages' = reserved_pages
      /\ free_pages \in Int /\ allocated_pages \in Int /\ reserved_pages \in Int
      /\ free_pages + allocated_pages + reserved_pages = Cardinality(Page)
  BY DEF AnyInv, Allocate, TypeOK, StatsBalance
<1>3. StatsBalance'
  BY <1>1, <1>2 DEF StatsBalance
<1>4. held' \subseteq Page
  BY DEF AnyInv, Allocate, TypeOK
<1> QED BY <1>1, <1>2, <1>3, <1>4 DEF AnyInv, TypeOK

LEMMA ReleaseStep ==
  ASSUME AnyInv, NEW S, Release(S), UNCHANGED page_table_pages
  PROVE  AnyInv'
<1> DEFINE T == S \cap bitmap
<1>0. /\ bitmap' = bitmap \ T
      /\ region_free' = [i \in Region |-> region_free[i] + Cardinality(InRegion(i, T))]
      /\ free_pages' = free_pages + Cardinality(T)
      /\ allocated_pages' = allocated_pages - Cardinality(T)
      /\ held' = held \ T
      /\ reserved_pages' = reserved_pages
  BY DEF Release
<1>t. T \subseteq bitmap
  OBVIOUS
<1> HIDE DEF T
<1>1. /\ CountersMatchBitmap' /\ bitmap' \subseteq Page
      /\ region_free' \in [Region -> Int] /\ Cardinality(T) \in Nat
  BY <1>0, <1>t, ClearBits DEF AnyInv
<1>2. /\ free_pages \in Int /\ allocated_pages \in Int /\ reserved_pages \in Int
      /\ free_pages + allocated_pages + reserved_pages = Cardinality(Page)
  BY DEF AnyInv, TypeOK, StatsBalance
<1>3. StatsBalance'
  BY <1>0, <1>1, <1>2 DEF StatsBalance
<1>4. held' \subseteq Page
  BY <1>0 DEF AnyInv, TypeOK
<1>5. page_table_pages' \in Nat
  BY DEF AnyInv, TypeOK
<1> QED BY <1>0, <1>1, <1>2, <1>3, <1>4, <1>5 DEF AnyInv, TypeOK

LEMMA ReserveStep ==
  ASSUME AnyInv, NEW S, S \subseteq Page, Reserve(S), UNCHANGED page_table_pages
  PROVE  AnyInv'
<1> DEFINE T == S \ bitmap
<1>0. /\ bitmap' = bitmap \cup T
      /\ region_free' = [i \in Region |-> region_free[i] - Cardinality(InRegion(i, T))]
      /\ free_pages' = free_pages - Cardinality(T)
      /\ reserved_pages' = reserved_pages + Cardinality(T)
      /\ allocated_pages' = allocated_pages
      /\ held' = held
  BY DEF Reserve
<1>t. T \subseteq Page /\ T \cap bitmap = {}
  OBVIOUS
<1> HIDE DEF T
<1>1. /\ CountersMatchBitmap' /\ bitmap' \subseteq Page
      /\ region_free' \in [Region -> Int] /\ Cardinality(T) \in Nat
  BY <1>0, <1>t, SetBits DEF AnyInv
<1>2. /\ free_pages \in Int /\ allocated_pages \in Int /\ reserved_pages \in Int
      /\ free_pages + allocated_pages + reserved_pages = Cardinality(Page)
  BY DEF AnyInv, TypeOK, StatsBalance
<1>3. StatsBalance'
  BY <1>0, <1>1, <1>2 DEF StatsBalance
<1>4. held' \subseteq Page /\ page_table_pages' \in Nat
  BY <1>0 DEF AnyInv, TypeOK
<1> QED BY <1>0, <1>1, <1>2, <1>3, <1>4 DEF AnyInv, TypeOK

-----------------------------------------------------------------------------
(* What the operations pass to them are managed pages. *)

LEMMA RunFree ==
  ASSUME NEW i \in Region, NEW p \in Nat, NEW count \in Nat, FreeRun(i, p, count)
  PROVE  Run(i, p, count) \subseteq Page /\ Run(i, p, count) \cap bitmap = {}
<1>1. total_pages(i) \in Nat
  BY TotalPages
<1>2. \A q \in p .. p + count - 1 : q \in 0 .. total_pages(i) - 1
  BY <1>1 DEF FreeRun
<1> QED BY <1>2 DEF Run, FreeRun, Page, PagesOf

LEMMA OneFree ==
  ASSUME NEW i \in Region, NEW p \in Nat, FreeRun(i, p, 1)
  PROVE  {<<i, p>>} \subseteq Page /\ {<<i, p>>} \cap bitmap = {}
<1>1. Run(i, p, 1) = {<<i, p>>}
  <2>1. p .. p + 1 - 1 = {p}
    OBVIOUS
  <2> QED BY <2>1 DEF Run
<1> QED BY <1>1, RunFree

LEMMA PageAtManaged ==
  /\ \A pa : PageAt(pa) \subseteq Page
  /\ \A pa, count : PagesFrom(pa, count) \subseteq Page
<1>1. \A pa : PageAt(pa) \subseteq Page
  BY DEF PageAt
<1> QED BY <1>1 DEF PagesFrom

LEMMA OverlapManaged ==
  ASSUME NEW b, NEW e
  PROVE  UNION {Overlap(i, b, e) : i \in Region} \subseteq Page
<1>1. \A i \in Region : Overlap(i, b, e) \subseteq PagesOf(i)
  BY DEF Overlap
<1> QED BY <1>1 DEF Page

\* Every operation is one of the three kinds of step on managed pages.
AllocKind ==
  \E S : /\ S \subseteq Page /\ S # {} /\ S \cap bitmap = {} /\ Allocate(S)
         /\ page_table_pages' \in {page_table_pages, page_table_pages + 1}

ReserveKind ==
  \E S : S \subseteq Page /\ Reserve(S) /\ UNCHANGED page_table_pages

ReleaseKind ==
  \E S : S \subseteq Page /\ Release(S) /\ UNCHANGED page_table_pages

HeldReleaseKind ==
  \E S : S \subseteq Page /\ MayFree(S) /\ Release(S) /\ UNCHANGED page_table_pages

LEMMA AllocOrReserveKind == AllocOrReserve => AllocKind \/ ReserveKind
<1>1. ASSUME NEW i \in Region, NEW p \in 0 .. total_pages(i) - 1,
             FirstFit(i, p, 1), Allocate({<<i, p>>}),
             page_table_pages' \in {page_table_pages, page_table_pages + 1}
      PROVE  AllocKind
  <2>1. p \in Nat
    BY TotalPages
  <2>2. {<<i, p>>} \subseteq Page /\ {<<i, p>>} \cap bitmap = {} /\ {<<i, p>>} # {}
    BY <1>1, <2>1, OneFree DEF FirstFit
  <2> QED BY <1>1, <2>2, Zenon DEF AllocKind
<1>2. pmm_alloc_page => AllocKind
  BY <1>1 DEF pmm_alloc_page
<1>3. pmm_alloc_page_table => AllocKind
  BY <1>1 DEF pmm_alloc_page_table
<1>4. ASSUME NEW count \in 2 .. MaxCount, pmm_alloc_pages(count)
      PROVE  AllocKind
  <2>0. PICK i \in Region : \E p \in 0 .. total_pages(i) - 1 :
          FirstFit(i, p, count) /\ Allocate(Run(i, p, count))
    BY <1>4 DEF pmm_alloc_pages
  <2>1. PICK p \in 0 .. total_pages(i) - 1 :
          FirstFit(i, p, count) /\ Allocate(Run(i, p, count))
    BY <2>0
  <2>2. p \in Nat /\ count \in Nat
    BY TotalPages, PmmAssumption
  <2>3. Run(i, p, count) \subseteq Page /\ Run(i, p, count) \cap bitmap = {}
    BY <2>1, <2>2, RunFree DEF FirstFit
  <2>4. Run(i, p, count) # {}
    <3>1. p \in p .. p + count - 1
      BY <2>2
    <3>2. <<i, p>> \in Run(i, p, count)
      BY <3>1 DEF Run
    <3> QED BY <3>2
  <2> DEFINE S == Run(i, p, count)
  <2>5. S \subseteq Page /\ S # {} /\ S \cap bitmap = {} /\ Allocate(S)
    BY <2>1, <2>3, <2>4
  <2>6. page_table_pages' \in {page_table_pages, page_table_pages + 1}
    BY <1>4 DEF pmm_alloc_pages
  <2> QED BY <2>5, <2>6, Zenon DEF AllocKind
<1>5. ASSUME NEW pa \in Address, pmm_reserve_page(pa)
      PROVE  ReserveKind
  <2>1. PICK S : S \subseteq Page /\ Reserve(S)
    BY <1>5 DEF pmm_reserve_page
  <2> QED BY <1>5, <2>1 DEF ReserveKind, pmm_reserve_page
<1>6. ASSUME NEW b \in Address, NEW s \in Address, pmm_reserve_region(b, s)
      PROVE  ReserveKind
  <2> DEFINE S == UNION {Overlap(i, b, (b + s) % ADDR_SPACE) : i \in Region}
  <2>1. S \subseteq Page
    BY OverlapManaged
  <2>2. Reserve(S) /\ UNCHANGED page_table_pages
    BY <1>6 DEF pmm_reserve_region
  <2> QED BY <2>1, <2>2, Zenon DEF ReserveKind
<1> QED BY <1>2, <1>3, <1>4, <1>5, <1>6 DEF AllocOrReserve

LEMMA AnyNextKind == AnyNext => AllocKind \/ ReserveKind \/ ReleaseKind
<1>1. ASSUME NEW pa \in Address, pmm_free_page(pa)
      PROVE  ReleaseKind
  BY <1>1, PageAtManaged, Zenon DEF pmm_free_page, ReleaseKind
<1>2. ASSUME NEW pa \in Address, NEW count \in 0 .. MaxCount, pmm_free_pages(pa, count)
      PROVE  ReleaseKind
  BY <1>2, PageAtManaged, Zenon DEF pmm_free_pages, ReleaseKind
<1> QED BY <1>1, <1>2, AllocOrReserveKind DEF AnyNext

LEMMA NextKind == Next => AllocKind \/ ReserveKind \/ HeldReleaseKind
<1>1. ASSUME NEW pa \in Address, MayFree(PageAt(pa)), pmm_free_page(pa)
      PROVE  HeldReleaseKind
  BY <1>1, PageAtManaged, Zenon DEF pmm_free_page, HeldReleaseKind
<1>2. ASSUME NEW pa \in Address, NEW count \in 0 .. MaxCount,
             MayFree(PagesFrom(pa, count)), pmm_free_pages(pa, count)
      PROVE  HeldReleaseKind
  BY <1>2, PageAtManaged, Zenon DEF pmm_free_pages, HeldReleaseKind
<1> QED BY <1>1, <1>2, AllocOrReserveKind DEF Next

LEMMA KindInv == AnyInv /\ (AllocKind \/ ReserveKind \/ ReleaseKind) => AnyInv'
<1> SUFFICES ASSUME AnyInv, AllocKind \/ ReserveKind \/ ReleaseKind PROVE AnyInv'
  OBVIOUS
<1>1. page_table_pages \in Nat
  BY DEF AnyInv, TypeOK
<1>2. CASE AllocKind
  BY <1>1, <1>2, AllocateStep DEF AllocKind
<1>3. CASE ReleaseKind
  BY <1>3, ReleaseStep DEF ReleaseKind
<1>4. CASE ReserveKind
  BY <1>4, ReserveStep DEF ReserveKind
<1> QED BY <1>2, <1>3, <1>4

LEMMA AnyStutter == AnyInv /\ UNCHANGED pmmVars => AnyInv'
BY DEF AnyInv, pmmVars, stats, TypeOK, CountersMatchBitmap, StatsBalance, InRegion

\* Whatever callers allocate, free and reserve, the free counters count the
\* zero bits and the statistics add up, for any regions and page size.
THEOREM AnyCallers == AnySpec => [](TypeOK /\ CountersMatchBitmap /\ StatsBalance)
<1>1. AnyInv /\ [AnyNext]_pmmVars => AnyInv'
  BY AnyNextKind, KindInv, AnyStutter
<1>2. AnyInv => TypeOK /\ CountersMatchBitmap /\ StatsBalance
  BY DEF AnyInv
<1> QED BY <1>1, <1>2, AnyInit, PTL DEF AnySpec

-----------------------------------------------------------------------------
(* Callers that free only what they hold: the statistics are exact and the *)
(* manager implements the page store.                                      *)

Inv == AnyInv /\ StatsExact

LEMMA ExactInit == Init => StatsExact
BY FS_EmptySet DEF Init, StatsExact

LEMMA ExactStep ==
  ASSUME Inv, AllocKind \/ ReserveKind \/ HeldReleaseKind
  PROVE  StatsExact'
<1>0. /\ bitmap \subseteq Page /\ held \subseteq bitmap
      /\ allocated_pages = Cardinality(held)
      /\ reserved_pages = Cardinality(bitmap \ held)
  BY DEF Inv, AnyInv, TypeOK, StatsExact
<1>1. CASE AllocKind
  <2>1. PICK S : S \subseteq Page /\ S \cap bitmap = {} /\ Allocate(S)
    BY <1>1 DEF AllocKind
  <2>2. Cardinality(held \cup S) = Cardinality(held) + Cardinality(S)
    BY <1>0, <2>1, CardAdd
  <2>3. bitmap' \ held' = bitmap \ held /\ held' \subseteq bitmap'
    BY <1>0, <2>1 DEF Allocate
  <2> QED BY <1>0, <2>1, <2>2, <2>3 DEF Allocate, StatsExact
<1>2. CASE ReserveKind
  <2>1. PICK S : S \subseteq Page /\ Reserve(S)
    BY <1>2 DEF ReserveKind
  <2> DEFINE T == S \ bitmap
  <2>2. /\ bitmap' = bitmap \cup T /\ held' = held /\ allocated_pages' = allocated_pages
        /\ reserved_pages' = reserved_pages + Cardinality(T)
    BY <2>1 DEF Reserve
  <2>3. bitmap' \ held' = (bitmap \ held) \cup T /\ held' \subseteq bitmap'
    BY <1>0, <2>2
  <2>4. Cardinality((bitmap \ held) \cup T) = Cardinality(bitmap \ held) + Cardinality(T)
    BY <1>0, <2>1, CardAdd
  <2> QED BY <1>0, <2>2, <2>3, <2>4 DEF StatsExact
<1>3. CASE HeldReleaseKind
  <2>1. PICK S : MayFree(S) /\ Release(S)
    BY <1>3 DEF HeldReleaseKind
  <2> DEFINE T == S \cap bitmap
  <2>2. /\ bitmap' = bitmap \ T /\ held' = held \ T /\ reserved_pages' = reserved_pages
        /\ allocated_pages' = allocated_pages - Cardinality(T) /\ T \subseteq held
    BY <2>1 DEF Release, MayFree
  <2>3. bitmap' \ held' = bitmap \ held /\ held' \subseteq bitmap'
    BY <1>0, <2>2
  <2>4. Cardinality(held \ T) = Cardinality(held) - Cardinality(T)
    BY <1>0, <2>2, CardRemove
  <2> QED BY <1>0, <2>2, <2>3, <2>4 DEF StatsExact
<1> QED BY <1>1, <1>2, <1>3

LEMMA InvStep == Inv /\ [Next]_pmmVars => Inv'
<1> SUFFICES ASSUME Inv, [Next]_pmmVars PROVE Inv'
  OBVIOUS
<1>1. CASE Next
  <2>1. AllocKind \/ ReserveKind \/ HeldReleaseKind
    BY <1>1, NextKind
  <2>2. HeldReleaseKind => ReleaseKind
    BY DEF HeldReleaseKind, ReleaseKind
  <2> QED BY <2>1, <2>2, KindInv, ExactStep DEF Inv
<1>2. CASE UNCHANGED pmmVars
  BY <1>2, AnyStutter DEF Inv, StatsExact, pmmVars, stats
<1> QED BY <1>1, <1>2

\* With callers that free only pages they hold, allocated_pages is the
\* number of pages held and reserved_pages that of the other set bits.
THEOREM ExactStatistics == Spec => []StatsExact
<1>1. Inv => StatsExact
  BY DEF Inv
<1>2. Init => Inv
  BY AnyInit, ExactInit DEF Inv
<1> QED BY <1>1, <1>2, InvStep, PTL DEF Spec

LEMMA StoreStep == Inv /\ [Next]_pmmVars => [Store!Next]_(Store!storeVars)
<1> SUFFICES ASSUME Inv, [Next]_pmmVars PROVE [Store!Next]_(Store!storeVars)
  OBVIOUS
<1>0. bitmap \subseteq Page /\ held \subseteq bitmap
  BY DEF Inv, AnyInv, TypeOK, StatsExact
<1>1. CASE AllocKind
  <2>1. PICK S : S \subseteq Page /\ S # {} /\ S \cap bitmap = {} /\ Allocate(S)
    BY <1>1 DEF AllocKind
  <2>2. /\ S \in SUBSET (Page \ bitmap) /\ S # {}
        /\ Page \ bitmap' = (Page \ bitmap) \ S
        /\ held' = held \cup S
        /\ bitmap' \ held' = bitmap \ held
    BY <1>0, <2>1 DEF Allocate
  <2> QED BY <2>2 DEF Store!Next, Store!Alloc
<1>2. CASE ReserveKind
  <2>1. PICK S : S \subseteq Page /\ Reserve(S)
    BY <1>2 DEF ReserveKind
  <2> DEFINE T == S \ bitmap
  <2>2. /\ T \in SUBSET (Page \ bitmap)
        /\ Page \ bitmap' = (Page \ bitmap) \ T
        /\ bitmap' \ held' = (bitmap \ held) \cup T
        /\ held' = held
    BY <1>0, <2>1 DEF Reserve
  <2> QED BY <2>2 DEF Store!Next, Store!Reserve
<1>3. CASE HeldReleaseKind
  <2>1. PICK S : MayFree(S) /\ Release(S)
    BY <1>3 DEF HeldReleaseKind
  <2> DEFINE T == S \cap bitmap
  <2>2. /\ T \in SUBSET held
        /\ Page \ bitmap' = (Page \ bitmap) \cup T
        /\ held' = held \ T
        /\ bitmap' \ held' = bitmap \ held
    BY <1>0, <2>1 DEF Release, MayFree
  <2> QED BY <2>2 DEF Store!Next, Store!Release
<1>4. CASE UNCHANGED pmmVars
  BY <1>4 DEF pmmVars, Store!storeVars
<1> QED BY <1>1, <1>2, <1>3, <1>4, NextKind

\* The manager implements the page store for callers that free only what
\* they hold: no page has two holders, a reserved page is never given out.
THEOREM ImplementsStore == Spec => StoreSpec
<1>1. Init => Store!Init
  BY DEF Init, Store!Init
<1>2. Init => Inv
  BY AnyInit, ExactInit DEF Inv
<1> QED BY <1>1, <1>2, InvStep, StoreStep, PTL DEF Spec, StoreSpec, Store!Spec

-----------------------------------------------------------------------------
(* The search loops of pmm_alloc_pages keep their invariant and implement *)
(* the first fit of Pmm.                                                 *)

ScanType ==
  /\ request \in {0} \cup 2 .. MaxCount
  /\ region \in 1 .. pmm_region_count + 1
  /\ page \in Nat /\ start \in Nat /\ found \in Nat
  /\ request = 0 => region = 1 /\ page = 0 /\ start = 0 /\ found = 0

Loop == ScanType /\ ScanInv

LEMMA LoopInit == ScanInit => Loop
BY PmmAssumption DEF ScanInit, Loop, ScanType, ScanInv

LEMMA RangeFacts ==
  ASSUME ScanType, InRange
  PROVE  /\ region \in Region /\ total_pages(region) \in Nat
         /\ request \in Nat /\ request >= 2
         /\ page < total_pages(region)
<1>1. region \in Region /\ request \in 2 .. MaxCount /\ MaxCount \in Nat
  BY PmmAssumption DEF ScanType, InRange, Region
<1> QED BY <1>1, TotalPages DEF InRange

LEMMA LoopCall == Loop /\ Call => Loop'
<1> SUFFICES ASSUME Loop, Call PROVE Loop'
  OBVIOUS
<1>1. /\ request' \in 2 .. MaxCount /\ MaxCount \in Nat
      /\ region' = 1 /\ page' = 0 /\ start' = 0 /\ found' = 0
  BY PmmAssumption DEF Loop, ScanType, Call
<1>2. ScanType'
  BY <1>1, PmmAssumption DEF ScanType
<1>3. ScanInv'
  BY <1>1 DEF ScanInv
<1> QED BY <1>2, <1>3 DEF Loop

LEMMA LoopBusy == Loop /\ Busy => Loop'
<1> SUFFICES ASSUME Loop, Busy PROVE Loop'
  OBVIOUS
<1>1. /\ region \in Region /\ total_pages(region) \in Nat /\ request \in Nat
      /\ request >= 2 /\ page < total_pages(region) /\ request # 0
      /\ page \in Nat /\ found \in Nat /\ found < request /\ found <= page
  BY RangeFacts DEF Loop, ScanInv, Busy, InRange, ScanType
<1>2. /\ <<region, page>> \in bitmap /\ found' = 0 /\ page' = page + 1
      /\ request' = request /\ region' = region /\ start' = start
      /\ bitmap' = bitmap
  BY DEF Busy, pmmVars
<1>3. ScanType'
  BY <1>1, <1>2 DEF ScanType, Loop
<1>4. \A s \in 0 .. page : ~ FreeRun(region, s, request)
  <2> SUFFICES ASSUME NEW s \in 0 .. page PROVE ~ FreeRun(region, s, request)
    OBVIOUS
  <2>1. CASE s < page - found
    <3>1. s \in 0 .. page - found - 1
      BY <1>1, <2>1
    <3> QED BY <3>1, <1>1 DEF Loop, ScanInv, Region
  <2>2. CASE ~ (s < page - found)
    <3>1. page \in s .. s + request - 1
      BY <1>1, <2>2
    <3> QED BY <3>1, <1>2 DEF FreeRun
  <2> QED BY <2>1, <2>2
<1>5. \A r \in 1 .. region - 1 : \A s \in 0 .. total_pages(r) : ~ FreeRun(r, s, request)
  BY <1>1 DEF Loop, ScanInv
<1>6. ScanInv'
  <2>1. \A s \in 0 .. page' - found' - 1 : ~ FreeRun(region, s, request)
    BY <1>1, <1>2, <1>4
  <2> QED BY <1>1, <1>2, <1>5, <2>1 DEF ScanInv, FreeRun
<1> QED BY <1>3, <1>6 DEF Loop

LEMMA LoopExtend == Loop /\ Extend => Loop'
<1> SUFFICES ASSUME Loop, Extend PROVE Loop'
  OBVIOUS
<1>1. /\ region \in Region /\ total_pages(region) \in Nat /\ request \in Nat
      /\ request >= 2 /\ page < total_pages(region) /\ request # 0
      /\ page \in Nat /\ found \in Nat /\ start \in Nat
      /\ found < request /\ found <= page
      /\ found > 0 => start = page - found
  BY RangeFacts DEF Loop, ScanInv, Extend, InRange, ScanType
<1>2. /\ <<region, page>> \notin bitmap /\ page' = page + 1
      /\ start' = RunStart /\ found' = IF found + 1 = request THEN 0 ELSE found + 1
      /\ found + 1 = request => RunStart + request > total_pages(region)
      /\ request' = request /\ region' = region /\ bitmap' = bitmap
  BY DEF Extend, pmmVars
<1>3. RunStart = page - found /\ RunStart \in Nat
  BY <1>1 DEF RunStart
<1>4. found + 1 # request /\ found' = found + 1
  BY <1>1, <1>2, <1>3
<1>5. ScanType'
  BY <1>1, <1>2, <1>3, <1>4 DEF ScanType, Loop
<1>6. \A p \in page' - found' .. page' - 1 : <<region, p>> \notin bitmap
  <2> SUFFICES ASSUME NEW p \in page - found .. page
               PROVE  <<region, p>> \notin bitmap
    BY <1>1, <1>2, <1>4
  <2>1. p = page \/ p \in page - found .. page - 1
    BY <1>1
  <2> QED BY <1>1, <1>2, <2>1 DEF Loop, ScanInv
<1>7. \A s \in 0 .. page' - found' - 1 : ~ FreeRun(region, s, request)
  <2>1. page' - found' = page - found
    BY <1>1, <1>2, <1>4
  <2> QED BY <1>1, <2>1 DEF Loop, ScanInv, Region
<1>8. \A r \in 1 .. region - 1 : \A s \in 0 .. total_pages(r) : ~ FreeRun(r, s, request)
  BY <1>1 DEF Loop, ScanInv
<1>9. /\ found' < request' /\ found' <= page'
      /\ found' > 0 => start' = page' - found'
  BY <1>1, <1>2, <1>3, <1>4
<1>10. ScanInv'
  BY <1>2, <1>6, <1>7, <1>8, <1>9 DEF ScanInv, FreeRun
<1> QED BY <1>5, <1>10 DEF Loop

LEMMA LoopNextRegion == Loop /\ NextRegion => Loop'
<1> SUFFICES ASSUME Loop, NextRegion PROVE Loop'
  OBVIOUS
<1>1. /\ region \in Region /\ request \in Nat
      /\ request # 0 /\ page >= total_pages(region)
      /\ page \in Nat /\ found \in Nat /\ found < request /\ found <= page
  BY PmmAssumption DEF Loop, ScanInv, NextRegion, ScanType, Region
<1>2. /\ request' = request /\ region' = region + 1 /\ bitmap' = bitmap
      /\ page' = 0 /\ start' = 0 /\ found' = 0
  BY DEF NextRegion, pmmVars, Restart
<1>3. ScanType'
  BY <1>1, <1>2, PmmAssumption DEF ScanType, Loop, Region
<1>4. total_pages(region) \in Nat
  BY <1>1, TotalPages
<1>5. \A s \in 0 .. total_pages(region) : ~ FreeRun(region, s, request)
  <2> SUFFICES ASSUME NEW s \in 0 .. total_pages(region)
               PROVE  ~ FreeRun(region, s, request)
    OBVIOUS
  <2>1. CASE s < page - found
    <3>1. s \in 0 .. page - found - 1
      BY <1>1, <1>4, <2>1
    <3> QED BY <3>1, <1>1 DEF Loop, ScanInv, Region
  <2>2. CASE ~ (s < page - found)
    BY <1>1, <1>4, <2>2 DEF FreeRun
  <2> QED BY <2>1, <2>2
<1>6. \A r \in 1 .. region - 1 : \A s \in 0 .. total_pages(r) : ~ FreeRun(r, s, request)
  BY <1>1 DEF Loop, ScanInv
<1>7. \A r \in 1 .. region' - 1 : \A s \in 0 .. total_pages(r) : ~ FreeRun(r, s, request)
  <2> SUFFICES ASSUME NEW r \in 1 .. region' - 1
               PROVE  \A s \in 0 .. total_pages(r) : ~ FreeRun(r, s, request)
    OBVIOUS
  <2>1. r = region \/ r \in 1 .. region - 1
    BY <1>1, <1>2 DEF Region
  <2> QED BY <2>1, <1>5, <1>6
<1>8. ScanInv'
  BY <1>1, <1>2, <1>7 DEF ScanInv, FreeRun
<1> QED BY <1>3, <1>8 DEF Loop

LEMMA LoopReturn == Loop /\ (Take \/ Fail) => Loop'
BY PmmAssumption DEF Loop, ScanType, ScanInv, Take, Fail, Restart

LEMMA LoopStep == Loop /\ [ScanNext]_<<pmmVars, scanVars>> => Loop'
<1> SUFFICES ASSUME Loop, [ScanNext]_<<pmmVars, scanVars>> PROVE Loop'
  OBVIOUS
<1>1. CASE request = 0 /\ AnyNext /\ UNCHANGED scanVars
  BY <1>1 DEF Loop, ScanType, ScanInv, scanVars
<1>2. CASE UNCHANGED <<pmmVars, scanVars>>
  BY <1>2 DEF Loop, ScanType, ScanInv, scanVars, pmmVars, FreeRun
<1> QED BY <1>1, <1>2, LoopCall, LoopBusy, LoopExtend, LoopNextRegion, LoopReturn
        DEF ScanNext, ScanLoop

\* The loop invariant of the search holds throughout every call.
THEOREM SearchInvariant == ScanSpec => []ScanInv
<1>1. Loop => ScanInv
  BY DEF Loop
<1> QED BY <1>1, LoopInit, LoopStep, PTL DEF ScanSpec

\* pmm_alloc_pages returns 0 only when no region has the run asked for.
THEOREM SearchComplete == ScanSpec => []FailOnlyWhenFull
<1>1. Loop => FailOnlyWhenFull
  <2> SUFFICES ASSUME Loop, request # 0, region > pmm_region_count
               PROVE  \A r \in Region : \A s \in 0 .. total_pages(r) : ~ FreeRun(r, s, request)
    BY DEF FailOnlyWhenFull
  <2>1. Region \subseteq 1 .. region - 1
    BY PmmAssumption DEF Loop, ScanType, Region
  <2> QED BY <2>1 DEF Loop, ScanInv
<1> QED BY <1>1, LoopInit, LoopStep, PTL DEF ScanSpec

\* The step that ends a successful search allocates the first fit.
LEMMA TakeIsFirstFit == Loop /\ Take => AnyNext
<1> SUFFICES ASSUME Loop, Take PROVE AnyNext
  OBVIOUS
<1>1. /\ region \in Region /\ total_pages(region) \in Nat /\ request \in Nat
      /\ page < total_pages(region) /\ request # 0 /\ request \in 2 .. MaxCount
      /\ page \in Nat /\ found \in Nat /\ start \in Nat
      /\ found + 1 = request /\ found <= page
      /\ found > 0 => start = page - found
      /\ <<region, page>> \notin bitmap
  BY RangeFacts DEF Loop, ScanInv, Take, InRange, ScanType
<1>2. RunStart = page - found /\ RunStart \in Nat /\ RunStart \in 0 .. total_pages(region) - 1
  BY <1>1 DEF RunStart
<1>3. FreeRun(region, RunStart, request)
  <2>1. RunStart + request <= total_pages(region)
    BY <1>1, <1>2
  <2>2. ASSUME NEW p \in RunStart .. RunStart + request - 1
        PROVE  <<region, p>> \notin bitmap
    <3>1. p = page \/ p \in page - found .. page - 1
      BY <1>1, <1>2
    <3> QED BY <3>1, <1>1 DEF Loop, ScanInv
  <2> QED BY <2>1, <2>2 DEF FreeRun
<1>4. \A s \in 0 .. RunStart - 1 : ~ FreeRun(region, s, request)
  BY <1>1, <1>2 DEF Loop, ScanInv, Region
<1>5. \A r \in 1 .. region - 1 : \A s \in 0 .. total_pages(r) : ~ FreeRun(r, s, request)
  BY <1>1 DEF Loop, ScanInv
<1>6. FirstFit(region, RunStart, request)
  BY <1>3, <1>4, <1>5 DEF FirstFit
<1>7. pmm_alloc_pages(request)
  BY <1>1, <1>2, <1>6 DEF pmm_alloc_pages, Take
<1> QED BY <1>1, <1>7 DEF AnyNext, AllocOrReserve

\* The loops implement Pmm, where pmm_alloc_pages takes the first region
\* with a long enough free run and the lowest such run in it, in one step.
THEOREM SearchImplementsFirstFit == ScanSpec => PmmAnySpec
<1>1. Loop /\ [ScanNext]_<<pmmVars, scanVars>> => [AnyNext]_pmmVars
  BY TakeIsFirstFit
     DEF ScanNext, ScanLoop, Call, Busy, Extend, NextRegion, Fail
<1>2. ScanInit => Init
  BY DEF ScanInit
<1> QED BY <1>1, <1>2, LoopInit, LoopStep, PTL DEF ScanSpec, PmmAnySpec, AnySpec

-----------------------------------------------------------------------------
(* The layout of a slab (kernel/memory/slab.c). *)

\* Rounded division, by a divisor that is a variable.
LEMMA Division ==
  ASSUME NEW x \in Int, NEW d \in Nat \ {0}
  PROVE  /\ x \div d \in Int
         /\ (x \div d) * d <= x
         /\ x < (x \div d) * d + d
  OBVIOUS

\* A set of slab sizes that is not empty has a least element.
LEMMA MinIn ==
  ASSUME NEW S, S \subseteq Nat, S # {}
  PROVE  Min(S) \in S
<1>1. PICK x \in S : \A y \in S : ~ (<<y, x>> \in OpToRel(<, Nat))
  BY NatLessThanWellFounded, WFMin
<1>2. \A y \in S : ~ (y < x)
  BY <1>1, Zenon DEF OpToRel
<1>3. \A y \in S : x <= y
  BY <1>2
<1> QED
  BY <1>3 DEF Min

\* align_up yields the least multiple of the alignment that is not below x.
LEMMA AlignUp ==
  ASSUME NEW x \in Nat, NEW a \in Nat \ {0}
  PROVE  /\ align_up(x, a) \in Nat
         /\ x <= align_up(x, a) /\ align_up(x, a) < x + a
         /\ \E k \in Nat : align_up(x, a) = k * a
<1>1. /\ (x + a - 1) \div a \in Int
      /\ ((x + a - 1) \div a) * a <= x + a - 1
      /\ x + a - 1 < ((x + a - 1) \div a) * a + a
  BY Division
<1>2. (x + a - 1) \div a \in Nat
  BY <1>1
<1> QED
  BY <1>1, <1>2 DEF align_up

\* Of two numbers of multiples the greater is greater by one multiple.
LEMMA NextMultiple ==
  ASSUME NEW j \in Nat, NEW k \in Nat, NEW a \in Nat, j * a < k * a
  PROVE  j * a + a <= k * a
<1>1. j < k
  OBVIOUS
<1>2. (j + 1) * a <= k * a
  BY <1>1
<1> QED
  BY <1>2

\* A size that is a multiple of the alignment bounds what is rounded up below it.
LEMMA AlignUpBelow ==
  ASSUME NEW x \in Nat, NEW a \in Nat \ {0}, NEW m \in Nat, x <= m, m % a = 0
  PROVE  align_up(x, a) <= m
<1>1. PICK k \in Nat : align_up(x, a) = k * a
  BY AlignUp
<1>2. PICK j \in Nat : m = j * a
  OBVIOUS
<1>3. CASE m < align_up(x, a)
  <2>1. m + a <= align_up(x, a)
    BY <1>1, <1>2, <1>3, NextMultiple
  <2> QED
    BY <2>1, AlignUp
<1> QED
  BY <1>3, AlignUp

\* n objects are all that fits a slab of size S behind an aligned header.  Then
\* no slab of half the size or less holds them behind a header without padding.
\* Twice the smaller size would leave room for one more, unless n = 1, and then
\* the smaller size, a multiple of the alignment, has room for the padding.
LEMMA NoSmallerSlab ==
  ASSUME NEW a \in Nat \ {0}, NEW m \in Nat \ {0}, NEW n \in Nat \ {0},
         NEW S \in Nat, NEW t \in Nat, t % a = 0, 2 * t <= S,
         S - align_up(Header, a) < n * (m * a + IndexSize) + (m * a + IndexSize),
         Header + n * (m * a + IndexSize) <= t
  PROVE  FALSE
<1> DEFINE obj == m * a
           T == obj + IndexSize
           A == align_up(Header, a)
<1>1. /\ Header \in Nat \ {0} /\ IndexSize \in Nat \ {0} /\ IndexSize <= Header
      /\ obj \in Nat /\ a <= obj
      /\ A \in Nat /\ A < Header + a
  <2>1. Header \in Nat \ {0} /\ IndexSize \in Nat \ {0} /\ IndexSize <= Header
    BY LayoutAssumption
  <2>2. obj \in Nat /\ a <= obj
    OBVIOUS
  <2>3. A \in Nat /\ A < Header + a
    BY <2>1, AlignUp
  <2> QED BY <2>1, <2>2, <2>3
<1>2. n * T \in Nat /\ S < n * T + T + A /\ 2 * Header + 2 * (n * T) <= S
  BY <1>1
<1>3. n * T < 2 * T
  <2> HIDE DEF obj, A
  <2> QED BY <1>1, <1>2
<1>4. n = 1
  <2> HIDE DEF T
  <2>1. T \in Nat
    BY <1>1 DEF T
  <2>2. CASE n >= 2
    <3>1. 2 * T <= n * T
      BY <2>1, <2>2
    <3> QED BY <3>1, <1>3, <1>2, <2>1
  <2> QED BY <2>2
<1>5. obj + a <= t
  <2>1. PICK k \in Nat : t = k * a
    OBVIOUS
  <2>2. m * a < k * a
    BY <1>1, <1>4, <2>1
  <2> QED BY <2>1, <2>2, NextMultiple
<1>6. 2 * Header < A /\ 2 * a < 2 * IndexSize + A
  <2>1. n * T = T
    BY <1>1, <1>4
  <2> HIDE DEF obj, A
  <2> QED BY <1>1, <1>2, <1>5, <2>1
<1>7. CASE Header <= a
  <2>1. A <= a
    BY <1>1, <1>7, AlignUpBelow
  <2> HIDE DEF A
  <2> QED BY <1>1, <1>6, <2>1
<1>8. CASE a < Header
  <2> HIDE DEF A
  <2> QED BY <1>1, <1>6, <1>8
<1> QED BY <1>1, <1>7, <1>8

-----------------------------------------------------------------------------
(* The invariant. *)

\* What kmem_cache_create leaves: objects of a multiple of the alignment, as
\* many as fit some slab size, and one at least.
Counted ==
  /\ align \in Nat \ {0} /\ objects \in Nat \ {0}
  /\ \E m \in Nat \ {0} : object_size = m * align
  /\ \A s \in SlabSizes : s % align = 0
  /\ \E s \in SlabSizes :
       /\ align_up(Header, align) + objects * (object_size + IndexSize) <= s
       /\ s - align_up(Header, align) < objects * (object_size + IndexSize)
                                         + (object_size + IndexSize)

\* LayoutFits alone is not inductive: it does not say where objects comes from.
LayoutInv ==
  /\ object_size # 0 => Counted
  /\ slab_size # 0 => object_size # 0
  /\ LayoutFits

\* The alignment kmem_cache_create works with divides every slab size.
LEMMA AlignmentDivides ==
  ASSUME NEW b \in Aligns
  PROVE  LET a == Alignment(b) IN
         /\ a \in Nat \ {0}
         /\ \A s \in SlabSizes : s % a = 0
         /\ (MaxSlabSize \div 2) % a = 0
         /\ Header + a + IndexSize <= MaxSlabSize \div 2
  BY LayoutAssumption DEF Alignment

\* A slab has room for what Fitting counts, and not for one more.
LEMMA FittingFits ==
  ASSUME NEW s \in SlabSizes, NEW obj \in Nat, NEW a \in Nat \ {0},
         NEW n, n = Fitting(s, obj, a)
  PROVE  /\ n \in Int
         /\ align_up(Header, a) + n * (obj + IndexSize) <= s
         /\ s - align_up(Header, a) < n * (obj + IndexSize) + (obj + IndexSize)
<1>1. /\ s \in Nat /\ Header \in Nat /\ IndexSize \in Nat \ {0}
  BY LayoutAssumption
<1>2. align_up(Header, a) \in Nat
  BY <1>1, AlignUp
<1> DEFINE x == s - align_up(Header, a)
           T == obj + IndexSize
<1>3. x \in Int /\ T \in Nat \ {0} /\ n = x \div T
  BY <1>1, <1>2 DEF Fitting
<1>4. n \in Int /\ n * T <= x /\ x < n * T + T
  <2> HIDE DEF x, T
  <2> QED BY <1>3, Division
<1>5. n * T \in Int
  <2> HIDE DEF x, T
  <2> QED BY <1>3, <1>4
<1> QED
  BY <1>1, <1>2, <1>4, <1>5

\* The largest slab has room for an object of half its size.
LEMMA LargestFitsOne ==
  ASSUME NEW obj \in Nat, NEW a \in Nat \ {0}, obj <= MaxSlabSize \div 2,
         Header + a + IndexSize <= MaxSlabSize \div 2
  PROVE  Fitting(MaxSlabSize, obj, a) >= 1
<1> DEFINE n == Fitting(MaxSlabSize, obj, a)
           A == align_up(Header, a)
           T == obj + IndexSize
<1>1. /\ MaxSlabSize \in Nat /\ MaxSlabSize \in SlabSizes
      /\ Header \in Nat /\ IndexSize \in Nat \ {0}
  BY LayoutAssumption
<1>2. n \in Int /\ MaxSlabSize - A < n * T + T
  BY <1>1, FittingFits
<1>3. A \in Nat /\ A < Header + a
  BY <1>1, AlignUp
<1>4. T \in Nat \ {0} /\ A + T < MaxSlabSize
  <2> HIDE DEF A, n
  <2> QED BY <1>1, <1>3
<1>5. n * T > 0
  <2> HIDE DEF A, T, n
  <2> QED BY <1>1, <1>2, <1>3, <1>4
<1> HIDE DEF A, T, n
<1>6. n >= 1
  BY <1>2, <1>4, <1>5
<1> QED
  BY <1>6 DEF n

-----------------------------------------------------------------------------
(* Its proof. *)

LEMMA CreateCounts ==
  ASSUME LayoutInv, object_size = 0,
         NEW sz \in Sizes, NEW b \in Aligns, CreateCache(sz, b)
  PROVE  LayoutInv'
<1> DEFINE a == align'
           obj == object_size'
           n == objects'
           good == {s \in SlabSizes \ {MaxSlabSize} : Fitting(s, obj, a) >= 8}
           S == IF good # {} THEN Min(good) ELSE MaxSlabSize
<1>1. /\ sz \in Nat \ {0} /\ sz <= MaxSlabSize \div 2
      /\ a = Alignment(b) /\ obj = align_up(sz, a)
      /\ n = Fitting(S, obj, a)
      /\ slab_size' = slab_size /\ slab_base' = slab_base
  BY LayoutAssumption DEF CreateCache, calculate_slab_parameters
<1>2. /\ a \in Nat \ {0}
      /\ \A s \in SlabSizes : s % a = 0
      /\ (MaxSlabSize \div 2) % a = 0
      /\ Header + a + IndexSize <= MaxSlabSize \div 2
  BY <1>1, AlignmentDivides
<1>3. MaxSlabSize \in Nat /\ MaxSlabSize \in SlabSizes /\ MaxSlabSize \div 2 \in Nat
  BY LayoutAssumption
<1> HIDE DEF a, obj, n
<1>4. obj \in Nat /\ sz <= obj /\ (\E k \in Nat : obj = k * a)
  BY <1>1, <1>2, AlignUp
<1>5. \E k \in Nat \ {0} : obj = k * a
  <2>1. PICK k \in Nat : obj = k * a
    BY <1>4
  <2>2. k # 0
    BY <1>1, <1>2, <1>4, <2>1
  <2> QED BY <2>1, <2>2
<1>6. obj <= MaxSlabSize \div 2
  BY <1>1, <1>2, <1>3, AlignUpBelow
<1>7. S \in SlabSizes /\ (good # {} => S \in good)
  <2>1. CASE good # {}
    <3>1. good \subseteq Nat
      BY LayoutAssumption
    <3>2. Min(good) \in good
      BY <3>1, <2>1, MinIn
    <3> QED BY <3>2, <2>1
  <2> QED BY <2>1, <1>3
<1>8. n >= 1
  <2>1. CASE good # {}
    <3>1. n >= 8
      BY <1>1, <1>7, <2>1
    <3>2. n \in Int
      BY <1>1, <1>2, <1>4, <1>7, FittingFits
    <3> QED BY <3>1, <3>2
  <2>2. CASE good = {}
    BY <1>1, <1>2, <1>4, <1>6, <2>2, LargestFitsOne
  <2> QED BY <2>1, <2>2
<1> HIDE DEF S
<1>9. /\ n \in Int
      /\ align_up(Header, a) + n * (obj + IndexSize) <= S
      /\ S - align_up(Header, a) < n * (obj + IndexSize) + (obj + IndexSize)
  BY <1>1, <1>2, <1>4, <1>7, FittingFits
<1>10. Counted'
  <2>1. n \in Nat \ {0}
    BY <1>8, <1>9
  <2> QED BY <1>2, <1>5, <1>7, <1>9, <2>1 DEF Counted, a, obj, n, align_up
<1>11. LayoutFits' /\ slab_size' = 0
  BY <1>1, <1>8 DEF LayoutInv, LayoutFits, obj, n
<1> QED BY <1>10, <1>11 DEF LayoutInv

LEMMA SlabFits ==
  ASSUME LayoutInv, slab_create
  PROVE  LayoutInv'
<1> DEFINE T == object_size + IndexSize
           A == align_up(Header, align)
           enough == {s \in SlabSizes : s >= Header + objects * T}
           t == slab_size'
<1>1. /\ object_size # 0 /\ Counted /\ objects >= 1
      /\ t = (IF enough # {} THEN Min(enough) ELSE MaxSlabSize)
      /\ slab_base' = A
      /\ UNCHANGED <<object_size, align, objects>>
  BY DEF slab_create, LayoutInv, LayoutFits
<1>2. PICK s \in SlabSizes : A + objects * T <= s /\ s - A < objects * T + T
  BY <1>1 DEF Counted
<1>3. PICK m \in Nat \ {0} : object_size = m * align
  BY <1>1 DEF Counted
<1>4. /\ align \in Nat \ {0} /\ objects \in Nat \ {0}
      /\ \A r \in SlabSizes : r % align = 0
  BY <1>1 DEF Counted
<1>5. /\ Header \in Nat \ {0} /\ IndexSize \in Nat \ {0} /\ s \in Nat /\ SlabSizes \subseteq Nat
      /\ \A p, q \in SlabSizes : p < q => 2 * p <= q
  BY LayoutAssumption
<1>6. A \in Nat /\ Header <= A /\ T \in Nat /\ objects * T \in Nat
  BY <1>3, <1>4, <1>5, AlignUp
<1>7. s \in enough
  <2> HIDE DEF T, A
  <2> QED BY <1>2, <1>5, <1>6
<1>8. t \in enough
  <2>1. Min(enough) \in enough
    BY <1>5, <1>7, MinIn
  <2> QED BY <1>1, <1>7, <2>1
<1>9. s <= t
  <2>1. SUFFICES ASSUME t < s PROVE FALSE
    BY <1>5, <1>8
  <2>2. t \in Nat /\ 2 * t <= s /\ t % align = 0 /\ Header + objects * T <= t
    BY <1>4, <1>5, <1>8, <2>1
  <2> QED BY <1>2, <1>3, <1>4, <1>5, <2>2, NoSmallerSlab
<1>10. slab_base' + objects' * (object_size' + IndexSize) <= t
  <2>1. A + objects * T <= t
    <3> HIDE DEF A, T, t
    <3> QED BY <1>2, <1>5, <1>6, <1>8, <1>9
  <2> QED BY <1>1, <2>1
<1>11. Counted'
  BY <1>1 DEF Counted, align_up
<1> QED BY <1>1, <1>10, <1>11 DEF LayoutInv, LayoutFits

\* calculate_slab_parameters and slab_create agree, for every object size up to
\* half the largest slab and every alignment that divides the slab sizes, which
\* is one of at most a page (LayoutAssumption; the code does not test it): each
\* slab has an object, and its objects and free list lie within its pages.
THEOREM SlabLayoutFits == LayoutSpec => []LayoutFits
<1>1. LayoutInit => LayoutInv
  BY DEF LayoutInit, LayoutInv, LayoutFits
<1>2. LayoutInv /\ [LayoutNext]_layout => LayoutInv'
  <2> SUFFICES ASSUME LayoutInv, [LayoutNext]_layout PROVE LayoutInv'
    OBVIOUS
  <2>1. ASSUME object_size = 0, NEW sz \in Sizes, NEW a \in Aligns, CreateCache(sz, a)
        PROVE  LayoutInv'
    BY <2>1, CreateCounts
  <2>2. CASE slab_create
    BY <2>2, SlabFits
  <2>3. CASE UNCHANGED layout
    BY <2>3 DEF layout, LayoutInv, LayoutFits, Counted, align_up
  <2> QED BY <2>1, <2>2, <2>3 DEF LayoutNext
<1>3. LayoutInv => LayoutFits
  BY DEF LayoutInv
<1> QED BY <1>1, <1>2, <1>3, PTL DEF LayoutSpec

=============================================================================
