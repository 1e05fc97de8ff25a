-------------------------------- MODULE Boot --------------------------------
(***************************************************************************)
(* The way from the boot loader to the first allocations: boot.S places    *)
(* the device tree blob, and kernel_main (kernel/core/kernel_main.c) calls *)
(* the FDT manager, reads the memory banks from the blob, sets up the      *)
(* physical memory manager with its bitmaps (pmm.c, pmm_bootstrap.c),      *)
(* builds the direct map and the device pool.  Nothing in these steps but  *)
(* arithmetic keeps the pages the PMM gives out apart from the kernel, the *)
(* boot page tables, the blob and the bitmaps.                             *)
(*                                                                         *)
(* The loader writes the blob token by token; it describes each piece of   *)
(* memory once.  Addresses are units, PMM_PAGE_SIZE to the page.           *)
(***************************************************************************)
EXTENDS Fdt, SequencesExt

CONSTANTS
  PMM_PAGE_SIZE, PMM_MAX_REGIONS,
  WORD, WORD_PAGES,           \* size of a bitmap word, and pages it has bits for
  MAX_MEMORY_REGIONS, MIN_REGION,       \* 8 regions, of 1 MB at least
  BOOT_PAGE_TABLE_PADDING, BOOT_PAGE_TABLE_SIZE,
  COPY_OFFSET,                \* 64 KB: from the kernel's end to the copied blob
  FDT_WINDOW,                 \* 64 KB: how near a blob makes pmm_init step over it
  BOOTSTRAP_EXTRA,            \* 8192
  BOOTSTRAP_LIMIT,            \* 32 MB
  MAP_ALIGN, MAPPED_SIZE,     \* what boot.S maps: 128 MB from a 64 MB boundary
  MAX_TOTALSIZE,              \* 1 MB, in fdt_check_header
  POOL_PAGES,                 \* 512, in device_pool_init
  UART_BASE,                  \* a page that pmm_init reserves on every machine
  kernel_phys_base, kernel_end,
  Banks,                      \* the reg values a loader may write
  KernelBankFirst,            \* whether the kernel's bank is described first
  Places, TotalSizes,         \* where the loader may put the blob, and its size
  MaxTokens, MaxDepth, MaxTables

VARIABLES
  pc,          \* the call kernel_main makes next, "up" or "panic"
  blob,        \* the structure block
  fdt,         \* fdt_state, with the size and validity the header has
  mem_info,    \* regions found in the tree
  regions,     \* pmm_regions: base, size, and where its bitmap is
  used,        \* pages <<region, index>> whose bit is set
  taken        \* pages that were given out by an allocation

vars == <<pc, blob, fdt, mem_info, regions, used, taken>>

AlignDown(a, n) == a - (a % n)
AlignUp(a, n) == AlignDown(a + n - 1, n)

-----------------------------------------------------------------------------
(* The loader.  The properties of a node come before its subnodes, each    *)
(* name once.                                                              *)

Depth == DepthAt(blob, Len(blob))

Written == {p \in 0 .. Len(blob) - 1 : Token(blob, p) = "PROP"}

\* The properties of the node at hand, while nothing but them and NOPs follows
\* its token.
Heading == {p \in Written : \A q \in p .. Len(blob) - 1 : Token(blob, q) # "BEGIN_NODE"}
PropsOpen(name) ==
  /\ Depth > 0
  /\ \E p \in Nodes(blob) : \A q \in p + 1 .. Len(blob) - 1 : Token(blob, q) \in {"PROP", "NOP"}
  /\ \A p \in Heading : blob[p + 1].name # name

Overlaps(r, s) == r.base < s.base + s.size /\ s.base < r.base + r.size
HoldsKernel(r) == r.base <= kernel_phys_base /\ kernel_end <= r.base + r.size

MayWrite(bank) ==
  /\ \A p \in Written : \A i \in DOMAIN bank : \A j \in DOMAIN blob[p + 1].val :
       ~ Overlaps(bank[i], blob[p + 1].val[j])
  /\ KernelBankFirst =>
       \/ HoldsKernel(bank[1])
       \/ \E p \in Written : blob[p + 1].val # << >> /\ HoldsKernel(blob[p + 1].val[1])
       \/ bank[1].size < MIN_REGION

Write(token) ==
  /\ pc = "load"
  /\ Len(blob) < MaxTokens
  /\ blob' = Append(blob, token)
  /\ UNCHANGED <<pc, fdt, mem_info, regions, used, taken>>

Load ==
  \/ blob = << >> /\ Write(BEGIN_NODE("root"))
  \/ /\ Depth \in 1 .. MaxDepth - 1
     /\ \E name \in {"memory", "soc"} : Write(BEGIN_NODE(name))
  \/ /\ PropsOpen("reg")
     /\ \E bank \in Banks : MayWrite(bank) /\ Write(PROP("reg", bank))
  \/ PropsOpen("ranges") /\ Write(PROP("ranges", << >>))
  \/ Depth > 0 /\ Last(blob) # NOP /\ Write(NOP)
  \/ Depth > 0 /\ Write(END_NODE)

\* boot.S of arm64 copies the blob behind the kernel when the blob is not in
\* the range it maps; that of riscv always does.  Both round to a page.
boot_S(place) ==
  LET mapped == AlignDown(kernel_phys_base, MAP_ALIGN) IN
  {AlignUp(kernel_end + COPY_OFFSET, PMM_PAGE_SIZE)}
    \cup (IF mapped <= place /\ place < mapped + MAPPED_SIZE THEN {place} ELSE {})

PreMapped(pa) == kernel_phys_base <= pa /\ pa < kernel_phys_base + MAPPED_SIZE

\* A blob outside the range mapped for the kernel is left for later, without
\* its size; one without the magic number is refused.  Either way
\* kernel_main goes on.
fdt_mgr_init(dtb, totalsize, valid) ==
  [phys |-> dtb, is_mapped |-> PreMapped(dtb),
   size |-> IF PreMapped(dtb) /\ valid THEN totalsize ELSE 0,
   totalsize |-> totalsize, valid |-> valid]

Start ==
  /\ pc = "load"
  /\ Len(blob) > 0 /\ Depth = 0
  /\ blob' = Append(blob, END)
  /\ \E place \in Places, totalsize \in TotalSizes, valid \in BOOLEAN :
       \E dtb \in boot_S(place) : fdt' = fdt_mgr_init(dtb, totalsize, valid)
  /\ pc' = "fdt_mgr_get_memory_info"
  /\ UNCHANGED <<mem_info, regions, used, taken>>

-----------------------------------------------------------------------------
(* fdt_get_memory: one pass over the block.                                *)

\* Mutant: the end of the memory node is not noticed.
LeavesMemoryNever(d) == FALSE

LeavesMemory(d) == d = 1

AddBanks(found, bank) ==
  FoldLeft(LAMBDA acc, r : IF Len(acc) < MAX_MEMORY_REGIONS /\ r.size >= MIN_REGION
                           THEN Append(acc, r) ELSE acc, found, bank)

fdt_get_memory(b) ==
  LET Step(st, t) ==
        CASE t.token = "BEGIN_NODE" ->
               [st EXCEPT !.depth = @ + 1, !.in = @ \/ (st.depth = 1 /\ t.name = "memory")]
          [] t.token = "END_NODE" ->
               [st EXCEPT !.depth = @ - 1, !.in = @ /\ ~ LeavesMemory(st.depth - 1)]
          [] t.token = "PROP" /\ st.in /\ t.name = "reg" ->
               [st EXCEPT !.found = AddBanks(@, t.val)]
          [] OTHER -> st
  IN  FoldLeft(Step, [depth |-> 0, in |-> FALSE, found |-> << >>], b).found

GoOn(next) == pc' = next /\ UNCHANGED <<blob, fdt>>

fdt_mgr_get_memory_info ==
  /\ pc = "fdt_mgr_get_memory_info"
  /\ IF fdt.valid
     THEN /\ mem_info' = fdt_get_memory(blob)
          /\ GoOn(IF mem_info' = << >> THEN "panic" ELSE "pmm_init")
     ELSE GoOn("panic") /\ UNCHANGED mem_info
  /\ UNCHANGED <<regions, used, taken>>

-----------------------------------------------------------------------------
(* pmm_init.                                                               *)

bitmap_size(r) ==
  ((r.size \div PMM_PAGE_SIZE + WORD_PAGES - 1) \div WORD_PAGES) * WORD

Counted == SubSeq(mem_info, 1, IF Len(mem_info) < PMM_MAX_REGIONS
                               THEN Len(mem_info) ELSE PMM_MAX_REGIONS)

total_bitmap_size == FoldLeft(LAMBDA n, r : n + bitmap_size(r), 0, Counted)

boot_pt_start == AlignDown(kernel_end + BOOT_PAGE_TABLE_PADDING, PMM_PAGE_SIZE)
boot_pt_end == boot_pt_start + BOOT_PAGE_TABLE_SIZE
fdt_end == fdt.phys + fdt.size

\* Mutant: a blob that only reaches into the page behind the tables is missed.
FdtNearShort == fdt.phys < boot_pt_end /\ fdt_end > boot_pt_end

FdtNear == fdt_end > boot_pt_end /\ fdt.phys < boot_pt_end + FDT_WINDOW

pmm_bootstrap_start ==
  AlignUp(IF fdt.size # 0 /\ FdtNear THEN fdt_end ELSE boot_pt_end, PMM_PAGE_SIZE)

pmm_bootstrap_end ==
  pmm_bootstrap_start + AlignUp(total_bitmap_size + BOOTSTRAP_EXTRA, PMM_PAGE_SIZE)

\* A region whose bitmap does not fit is left out.
pmm_bootstrap_alloc(st, r) ==
  LET aligned == AlignUp(st.current, WORD) IN
  IF aligned + bitmap_size(r) > pmm_bootstrap_end THEN st
  ELSE [current |-> aligned + bitmap_size(r),
        used |-> st.used + bitmap_size(r),
        regions |-> Append(st.regions, [base |-> r.base, size |-> r.size,
                                        bitmap |-> aligned])]

Bootstrapped ==
  FoldLeft(pmm_bootstrap_alloc,
           [current |-> pmm_bootstrap_start, used |-> 0, regions |-> << >>], Counted)

PagesOf(rs, i) == {i} \X (0 .. (rs[i].size \div PMM_PAGE_SIZE) - 1)

Addr(rs, pg) == rs[pg[1]].base + pg[2] * PMM_PAGE_SIZE

\* The pages of all regions that meet [b, e): pmm_reserve_region, and
\* pmm_reserve_page for each page of a range.
Meeting(rs, b, e) ==
  {pg \in UNION {PagesOf(rs, i) : i \in DOMAIN rs} :
     b < e /\ Addr(rs, pg) < e /\ b < Addr(rs, pg) + PMM_PAGE_SIZE}

\* Mutant: the bitmaps are not reserved.
ReservedNoBitmaps(boot) ==
  Meeting(boot.regions, mem_info[1].base, kernel_end)
    \cup Meeting(boot.regions, boot_pt_start, boot_pt_end)
    \cup Meeting(boot.regions, fdt.phys, fdt_end)
    \cup Meeting(boot.regions, UART_BASE, UART_BASE + PMM_PAGE_SIZE)

\* The kernel counts from the start of the first bank; its size wraps, and
\* nothing is reserved, when that bank starts behind the kernel.
Reserved(boot) ==
  Meeting(boot.regions, mem_info[1].base, kernel_end)
    \cup Meeting(boot.regions, boot_pt_start, boot_pt_end)
    \cup Meeting(boot.regions, pmm_bootstrap_start, pmm_bootstrap_start + boot.used)
    \cup Meeting(boot.regions, fdt.phys, fdt_end)
    \cup Meeting(boot.regions, UART_BASE, UART_BASE + PMM_PAGE_SIZE)

\* The bitmaps are cleared, from pmm_bootstrap_start on; a blob behind it that
\* they reach loses its header.
BlobReached(boot) ==
  pmm_bootstrap_start < fdt.phys + fdt.totalsize /\ fdt.phys < boot.current

\* Bitmaps that would reach too far from the kernel leave the PMM without a
\* region.
pmm_init ==
  /\ pc = "pmm_init"
  /\ IF pmm_bootstrap_end > kernel_phys_base + BOOTSTRAP_LIMIT
     THEN UNCHANGED <<regions, used, fdt>>
     ELSE /\ regions' = Bootstrapped.regions /\ used' = Reserved(Bootstrapped)
          /\ fdt' = [fdt EXCEPT !.valid = @ /\ ~BlobReached(Bootstrapped)]
  /\ pc' = "fdt_mgr_reserve_pages"
  /\ UNCHANGED <<blob, mem_info, taken>>

fdt_mgr_reserve_pages ==
  /\ pc = "fdt_mgr_reserve_pages"
  /\ used' = used \cup Meeting(regions, AlignDown(fdt.phys, PMM_PAGE_SIZE),
                               AlignUp(fdt_end, PMM_PAGE_SIZE))
  /\ GoOn(IF fdt.size = 0 THEN "panic" ELSE "vmm_create_dmap")
  /\ UNCHANGED <<mem_info, regions, taken>>

-----------------------------------------------------------------------------
(* The first allocations.                                                  *)

RunAt(i, start, count) == {i} \X (start .. start + count - 1)

FreeRuns(count) ==
  {pg \in UNION {PagesOf(regions, i) : i \in DOMAIN regions} :
     /\ RunAt(pg[1], pg[2], count) \subseteq PagesOf(regions, pg[1])
     /\ RunAt(pg[1], pg[2], count) \cap used = {}}

Before(p, q) == p[1] < q[1] \/ (p[1] = q[1] /\ p[2] <= q[2])

\* pmm_alloc_page and pmm_alloc_pages: the first fit (see Pmm).
Take(count) ==
  LET runs == FreeRuns(count)
      first == CHOOSE pg \in runs : \A other \in runs : Before(pg, other)
      got == IF runs = {} THEN {} ELSE RunAt(first[1], first[2], count)
  IN  used' = used \cup got /\ taken' = taken \cup got

\* vmm_create_dmap asks for a page table at a time; a failure ends it.
vmm_create_dmap ==
  /\ pc = "vmm_create_dmap"
  /\ \/ Cardinality(taken) < MaxTables /\ Take(1) /\ UNCHANGED <<pc, blob, fdt>>
     \/ GoOn("fdt_mgr_map_virtual") /\ UNCHANGED <<used, taken>>
  /\ UNCHANGED <<mem_info, regions>>

\* A blob that has a size is mapped already: the branches that would map one
\* that fdt_mgr_init left for later are not reached.
fdt_mgr_map_virtual ==
  /\ pc = "fdt_mgr_map_virtual"
  /\ GoOn(IF fdt.size # 0 /\ fdt.is_mapped THEN "device_init" ELSE "panic")
  /\ UNCHANGED <<mem_info, regions, used, taken>>

\* device_pool_init, then device_tree_init, which checks the header.
device_init ==
  /\ pc = "device_init"
  /\ Take(POOL_PAGES)
  /\ GoOn(IF FreeRuns(POOL_PAGES) = {} \/ ~fdt.valid \/ fdt.totalsize > MAX_TOTALSIZE
          THEN "panic" ELSE "up")
  /\ UNCHANGED <<mem_info, regions>>

Init ==
  /\ pc = "load"
  /\ blob = << >>
  /\ fdt = [phys |-> 0, is_mapped |-> FALSE, size |-> 0, totalsize |-> 0, valid |-> FALSE]
  /\ mem_info = << >> /\ regions = << >> /\ used = {} /\ taken = {}

kernel_main ==
  \/ fdt_mgr_get_memory_info
  \/ pmm_init
  \/ fdt_mgr_reserve_pages
  \/ vmm_create_dmap
  \/ fdt_mgr_map_virtual
  \/ device_init

Next == Load \/ Start \/ kernel_main

Spec == Init /\ [][Next]_vars

-----------------------------------------------------------------------------
(* Properties. *)

Sorted(S) == SortSeq(SetToSeq(S), <)

\* The scans of fdt.c agree with the tree the block describes, for every node:
\* fdt_for_each_subnode yields the children and nothing else, in order;
\* fdt_getprop finds the property of the node itself, never one of its
\* subnodes; fdt_next_node goes through all nodes.  fdt_parent_offset is not
\* among them: it finds the parent of no node.
TreeExact ==
  pc = "fdt_mgr_get_memory_info" =>
    \A n \in Nodes(blob) :
      /\ Subnodes(blob, n) = Sorted(Children(blob, n))
      /\ fdt_next_node(blob, n) =
           LET after == {m \in Nodes(blob) : m > n} IN
           IF after = {} THEN NotFound ELSE Sorted(after)[1]
      /\ LET own == {p \in Written : IsParent(blob, n, p) /\ blob[p + 1].name = "reg"}
         IN  fdt_getprop(blob, n, "reg") =
               IF own = {} THEN NoProp ELSE blob[Sorted(own)[1] + 1].val
      /\ n # 0 => \E m \in Nodes(blob) :
           fdt_subnode_offset(blob, m, fdt_get_name(blob, n)) \in 0 .. n

\* The banks fdt_get_memory reports are those written in or below a memory
\* node at the top level, of the minimum size, as many as fit, in order.
MemoryExact ==
  mem_info # << >> =>
    LET InMemory(p) == \E n \in Nodes(blob) :
          /\ DepthAt(blob, n) = 1
          /\ blob[n + 1].name = "memory"
          /\ n < p /\ \A q \in n + 1 .. p : DepthAt(blob, q) > 1
        all == FlattenSeq([i \in DOMAIN blob |->
                 IF i - 1 \in Written /\ blob[i].name = "reg" /\ InMemory(i - 1) THEN blob[i].val ELSE << >>])
        fit == SelectSeq(all, LAMBDA r : r.size >= MIN_REGION)
    IN  mem_info = SubSeq(fit, 1, IF Len(fit) < MAX_MEMORY_REGIONS
                                  THEN Len(fit) ELSE MAX_MEMORY_REGIONS)

Bitmap(i) == regions[i].bitmap .. regions[i].bitmap + bitmap_size(regions[i]) - 1
Kernel == kernel_phys_base .. kernel_end - 1
BootTables == boot_pt_start .. boot_pt_end - 1
Blob == fdt.phys .. fdt.phys + fdt.totalsize - 1

\* The bitmaps pmm_init places lie apart from each other, from the kernel and the
\* boot page tables, and from the blob as long as all of them together take no
\* more than the window in which pmm_init looks for it (64 KB of bitmaps, for
\* 2 GB of memory): marking a page never writes into them.
BitmapsApart ==
  \A i \in DOMAIN regions :
    /\ Bitmap(i) \cap (Kernel \cup BootTables) = {}
    /\ total_bitmap_size <= FDT_WINDOW => Bitmap(i) \cap Blob = {}
    /\ \A j \in DOMAIN regions \ {i} : Bitmap(i) \cap Bitmap(j) = {}

\* The same for the blob whatever the amount of memory, as pmm_init has it ("If
\* FDT exists and is after our current position, move past it").
BlobPassed == \A i \in DOMAIN regions : Bitmap(i) \cap Blob = {}

\* The pages that become page tables and the device pool, both zeroed when
\* they are given out, hold nothing of the kernel, the boot page tables, the
\* blob and the bitmaps, whichever region they are taken from.
NothingOverwritten ==
  \A pg \in taken :
    LET bytes == Addr(regions, pg) .. Addr(regions, pg) + PMM_PAGE_SIZE - 1 IN
    bytes \cap (Kernel \cup BootTables \cup Blob
                  \cup UNION {Bitmap(i) : i \in DOMAIN regions}) = {}
=============================================================================
