-------------------------------- MODULE Vmm --------------------------------
(***************************************************************************)
(* Page tables and device mappings: kernel/memory/vmm.c with the           *)
(* operations of arch/arm64/mm/vmm_arm64.c and arch/riscv/mm/vmm_riscv.c,  *)
(* and kernel/memory/devmap.c on top.                                      *)
(*                                                                         *)
(* Levels are counted from the leaves: 0 is the level of pages on both     *)
(* architectures.  arm64 has four levels and no blocks at the top one,     *)
(* RISC-V three.  An entry is named <<level, number>>, the number being    *)
(* the virtual page divided by the pages the entry covers; it is in pt     *)
(* when it is valid.  Virtual and physical pages are numbered; only the    *)
(* addresses of devices count bytes.  The calls run one after the other.   *)
(***************************************************************************)
EXTENDS Integers, SequencesExt

CONSTANTS
  FANOUT,                            \* entries of a table (512)
  PAGE_SIZE,                         \* bytes of a page
  KERNEL_VIRT_BASE, DMAP_BASE,       \* virtual pages
  BOOT_PAGES, EXTENDED_PAGES,        \* 0x40000 and 0x8000000 bytes behind kernel_phys_base
  kernel_phys_base,
  DEVMAP_VA_START, DEVMAP_VA_END, DEVMAP_MAX_ENTRIES,
  WindowStart, WindowPages, WindowPhys,   \* virtual pages that other callers map, and where
  MemInfo,                           \* memory layouts: sequences of [base, size]
  Resources                          \* memory resources in tree order: [start, size]

VARIABLES
  arch,
  pt,                                \* the valid entries
  free,                              \* pages that the PMM has left
  regions,                           \* mem_info
  dmap_phys_base, dmap_phys_max, dmap_ready,
  devmap,                            \* the first devmap_count entries of devmap_table
  devmap_next_va, devmap_initialized,
  mapped_addr,                       \* of each resource, 0 if none
  tlb                                \* translations the TLB may hold

memory == <<pt, free>>
dmap == <<regions, dmap_phys_base, dmap_phys_max, dmap_ready>>
devices == <<devmap, devmap_next_va, devmap_initialized, mapped_addr>>
vars == <<arch, memory, dmap, devices, tlb>>

TOP == IF arch = "arm64" THEN 3 ELSE 2
VirtualPage == 0 .. FANOUT^3 - 1      \* of the arm64 space the part that is used
Pages(region) == region.base .. region.base + region.size - 1
Memory == UNION {Pages(regions[i]) : i \in DOMAIN regions}

-----------------------------------------------------------------------------
(* Entries.  AP_RW is 0 on arm64: it is what no permission at all means too. *)

arm64_attrs_to_pte(attrs) ==
  [AP |-> LET rights == IF "WRITE" \in attrs THEN "RW" ELSE IF "READ" \in attrs THEN "RO" ELSE "RW"
          IN IF "USER" \notin attrs THEN rights
             ELSE IF "WRITE" \in attrs THEN "RW_ALL" ELSE "RO_ALL",
   XN |-> "EXECUTE" \notin attrs,
   MT |-> IF "DEVICE" \in attrs THEN "DEVICE_nGnRnE"
          ELSE IF "NOCACHE" \in attrs THEN "NORMAL_NC" ELSE "NORMAL"]

arm64_pte_to_attrs(flags) ==
  {"READ"} \cup (IF flags.AP \in {"RW", "RW_ALL"} THEN {"WRITE"} ELSE {})
    \cup (IF flags.XN THEN {} ELSE {"EXECUTE"})
    \cup (IF flags.AP \in {"RW_ALL", "RO_ALL"} THEN {"USER"} ELSE {})
    \cup (CASE flags.MT = "DEVICE_nGnRnE" -> {"DEVICE"}
            [] flags.MT = "NORMAL_NC" -> {"NOCACHE"}
            [] flags.MT = "NORMAL" -> {})

riscv_attrs_to_pte(attrs) ==
  {"V", "A"} \cup (IF "READ" \in attrs THEN {"R"} ELSE {})
    \cup (IF "WRITE" \in attrs THEN {"W", "D"} ELSE {})
    \cup (IF "EXECUTE" \in attrs THEN {"X"} ELSE {})
    \cup (IF "USER" \in attrs THEN {"U"} ELSE {})

riscv_pte_to_attrs(flags) ==
  (IF "R" \in flags THEN {"READ"} ELSE {}) \cup (IF "W" \in flags THEN {"WRITE"} ELSE {})
    \cup (IF "X" \in flags THEN {"EXECUTE"} ELSE {}) \cup (IF "U" \in flags THEN {"USER"} ELSE {})

attrs_to_pte(attrs) == IF arch = "arm64" THEN arm64_attrs_to_pte(attrs) ELSE riscv_attrs_to_pte(attrs)
pte_to_attrs(flags) == IF arch = "arm64" THEN arm64_pte_to_attrs(flags) ELSE riscv_pte_to_attrs(flags)

arm64_get_block_size(level) == IF level <= 2 THEN FANOUT^level ELSE 0
riscv_get_block_size(level) == FANOUT^level
get_block_size(level) == IF arch = "arm64" THEN arm64_get_block_size(level) ELSE riscv_get_block_size(level)

Entry(va, level) == <<level, va \div FANOUT^level>>       \* get_pte

make_table_pte(phys) == [table |-> TRUE, phys |-> phys]
make_block_pte(phys, attrs) == [table |-> FALSE, phys |-> phys, flags |-> attrs_to_pte(attrs)]

\* A leaf above the last level: on arm64 the top level has none, on RISC-V
\* one is told by its permissions.
arm64_is_pte_block(pte, level) == level \in {1, 2} /\ ~pte.table
riscv_is_pte_block(pte, level) == ~pte.table

is_pte_block(pte, level) ==
  IF arch = "arm64" THEN arm64_is_pte_block(pte, level) ELSE riscv_is_pte_block(pte, level)

NoPage == -1

\* What the MMU makes of a virtual page: the entry, then the page.
LeafOf(entries, va) == {Entry(va, l) : l \in 0 .. TOP} \cap {n \in DOMAIN entries : ~entries[n].table}

Translate(entries, va) ==
  IF LeafOf(entries, va) = {} THEN NoPage
  ELSE LET n == CHOOSE x \in LeafOf(entries, va) : TRUE
       IN entries[n].phys + (va % FANOUT^n[1])

-----------------------------------------------------------------------------
(* Addresses of page tables. *)

PHYS_TO_VIRT(pa) == pa - kernel_phys_base + KERNEL_VIRT_BASE
VIRT_TO_PHYS(va) == va - KERNEL_VIRT_BASE + kernel_phys_base
PHYS_TO_DMAP(pa) ==
  IF pa >= dmap_phys_base /\ pa < dmap_phys_max THEN DMAP_BASE + (pa - dmap_phys_base) ELSE 0

vmm_pt_phys_to_virt(pa) ==
  IF pa \in kernel_phys_base .. kernel_phys_base + BOOT_PAGES - 1 THEN PHYS_TO_VIRT(pa)
  ELSE IF dmap_ready THEN PHYS_TO_DMAP(pa)
  ELSE IF pa \in kernel_phys_base .. kernel_phys_base + EXTENDED_PAGES - 1 THEN PHYS_TO_VIRT(pa)
  ELSE pa                                                       \* identity

vmm_pt_virt_to_phys(va) ==
  IF va \in DMAP_BASE .. DMAP_BASE + (dmap_phys_max - dmap_phys_base) - 1
  THEN va - DMAP_BASE + dmap_phys_base
  ELSE IF va \in KERNEL_VIRT_BASE .. KERNEL_VIRT_BASE + FANOUT^2 - 1 THEN VIRT_TO_PHYS(va)
  ELSE va

-----------------------------------------------------------------------------
(* The calls, as operators on m = [pt, free, ok]: the tables, the pages of   *)
(* the PMM, and whether the call has succeeded so far.                       *)

Fail(m) == [m EXCEPT !.ok = FALSE]

\* One level of walk_create: follow or make the table below entry n.
WalkStep(m, n) ==
  IF ~m.ok THEN m
  ELSE IF n \in DOMAIN m.pt THEN IF is_pte_block(m.pt[n], n[1]) THEN Fail(m) ELSE m
  ELSE IF m.free = {} THEN Fail(m)                    \* vmm_alloc_page_table
  ELSE [m EXCEPT !.pt = @ @@ (n :> make_table_pte(Min(m.free))), !.free = @ \ {Min(m.free)}]

\* walk_create with create, from the top to the entry of va at level.
walk_create(m, va, level) ==
  FoldLeft(WalkStep, m, [i \in 1 .. TOP - level |-> Entry(va, TOP + 1 - i)])

\* walk_create without create finds the entry of the page and it is valid.
Found(entries, va) ==
  /\ Entry(va, 0) \in DOMAIN entries
  /\ \A l \in 1 .. TOP : Entry(va, l) \in DOMAIN entries /\ ~is_pte_block(entries[Entry(va, l)], l)

\* Mutant: only a table keeps a leaf out.
StoreLeafOver(m, n, pa, attrs) ==
  IF ~m.ok THEN m
  ELSE IF n \in DOMAIN m.pt /\ m.pt[n].table THEN Fail(m)
  ELSE [m EXCEPT !.pt = (n :> make_block_pte(pa, attrs)) @@ @]

\* The leaf at entry n, unless it is valid already, be it a leaf or a table.
StoreLeaf(m, n, pa, attrs) ==
  IF ~m.ok THEN m
  ELSE IF n \in DOMAIN m.pt THEN Fail(m)
  ELSE [m EXCEPT !.pt = @ @@ (n :> make_block_pte(pa, attrs))]

vmm_map_page(m, va, pa, attrs) == StoreLeaf(walk_create(m, va, 0), Entry(va, 0), pa, attrs)

\* The largest block that va, pa and the rest of the range allow.
BestLevel(va, pa, remaining) ==
  Max({0} \cup {l \in 0 .. TOP : LET size == get_block_size(l) IN
    size # 0 /\ va % size = 0 /\ pa % size = 0 /\ remaining >= size})

\* vmm_map_range: block after block; a failure leaves what was mapped before.
vmm_map_range(m, va, pa, count, attrs) ==
  LET Step(x, i) ==
        IF ~x.ok \/ x.at = count THEN x
        ELSE LET level == BestLevel(va + x.at, pa + x.at, count - x.at)
             IN [StoreLeaf(walk_create(x, va + x.at, level), Entry(va + x.at, level), pa + x.at, attrs)
                   EXCEPT !.at = @ + get_block_size(level)]
      all == FoldLeft(Step, [pt |-> m.pt, free |-> m.free, ok |-> TRUE, at |-> 0],
                      [i \in 1 .. count |-> i])
  IN [pt |-> all.pt, free |-> all.free, ok |-> all.ok]

Now == [pt |-> pt, free |-> free, ok |-> TRUE]

\* The MMU may load what is mapped into the TLB at any time.
Translations(entries) ==
  {<<va, Translate(entries, va)>> : va \in {v \in VirtualPage : Translate(entries, v) # NoPage}}

\* The tables after a call that flushed the pages in gone from the TLB.
Commit(m, gone) ==
  /\ pt' = m.pt /\ free' = m.free
  /\ tlb' = {t \in tlb : t[1] \notin gone} \cup Translations(m.pt)

\* Map ranges in the window of virtual pages, as the callers of the VMM do.
MapRange(va, pa, count) ==
  LET m == vmm_map_range(Now, va, pa, count, {"READ", "WRITE"})
  IN /\ Commit(m, IF m.ok THEN VirtualPage ELSE {})
     /\ UNCHANGED <<arch, dmap, devices>>

MapPage(va, pa) ==
  LET m == vmm_map_page(Now, va, pa, {"READ"})
  IN /\ Commit(m, IF m.ok THEN {va} ELSE {})
     /\ UNCHANGED <<arch, dmap, devices>>

\* Mutant: the TLB is not told.
FlushedNone(gone) == {}

\* The pages whose translation vmm_unmap_page flushes.
Flushed(gone) == gone

\* vmm_unmap_range: page by page; pages that are not mapped, or are part of a
\* block, are passed over.
vmm_unmap_range(va, count) ==
  LET gone == {v \in va .. va + count - 1 : Found(pt, v)}
      left == [n \in DOMAIN pt \ {Entry(v, 0) : v \in gone} |-> pt[n]]
  IN /\ Commit([Now EXCEPT !.pt = left], Flushed(gone))
     /\ UNCHANGED <<arch, dmap, devices>>

-----------------------------------------------------------------------------
(* The direct map. *)

DmapAddress(region, lowest) == DMAP_BASE + (region.base - lowest)

\* Mutant: the direct map is used although it is not complete.
ReadyAlways(m) == TRUE

Ready(m) == m.ok

vmm_create_dmap ==
  LET lowest == Min({regions[i].base : i \in DOMAIN regions})
      MapRegion(m, r) ==
        IF m.ok THEN vmm_map_range(m, DmapAddress(r, lowest), r.base, r.size, {"READ", "WRITE"}) ELSE m
      m == FoldLeft(MapRegion, Now, regions)
  IN /\ dmap_phys_max = 0
     /\ dmap_phys_base' = lowest
     /\ dmap_phys_max' = Max({regions[i].base + regions[i].size : i \in DOMAIN regions})
     /\ dmap_ready' = Ready(m)
     /\ Commit(m, IF m.ok THEN VirtualPage ELSE {})
     /\ UNCHANGED <<arch, regions, devices>>

-----------------------------------------------------------------------------
(* Device mappings, as operators on d = [pt, free, ok, table, next, mapped]:  *)
(* the memory, the device table, devmap_next_va and the mapped resources.     *)

PagesFor(bytes) == (bytes + PAGE_SIZE - 1) \div PAGE_SIZE

\* The virtual address of physical address addr in table entry e.
DeviceAddress(e, addr) == e.va * PAGE_SIZE + (e.start % PAGE_SIZE) + (addr - e.start)

\* 0 if no entry has the address.
devmap_device_va(table, addr) ==
  LET at == {i \in DOMAIN table : table[i].start <= addr /\ addr < table[i].start + table[i].size}
  IN IF at = {} THEN 0 ELSE DeviceAddress(table[Min(at)], addr)

HasSpace(next, count) == next + count <= DEVMAP_VA_END

\* Mutant: the entry is counted before the range is mapped.
AddedEarly(d, r, m) == Append(d.table, [start |-> r.start, size |-> r.size, va |-> d.next])

\* The table with the entry of r, if the range could be mapped.
Added(d, r, m) ==
  IF m.ok THEN Append(d.table, [start |-> r.start, size |-> r.size, va |-> d.next]) ELSE d.table

\* devmap_add_entry, without an address given.  Virtual space is taken for the
\* size, the range mapped is that of all pages the device touches.
devmap_add_entry(d, r) ==
  IF r.size = 0 \/ Len(d.table) >= DEVMAP_MAX_ENTRIES \/ ~HasSpace(d.next, PagesFor(r.size)) THEN Fail(d)
  ELSE LET m == vmm_map_range(d, d.next, r.start \div PAGE_SIZE, PagesFor(r.size + (r.start % PAGE_SIZE)),
                              {"READ", "WRITE", "DEVICE"})
       IN [d EXCEPT !.pt = m.pt, !.free = m.free, !.ok = m.ok,
                    !.next = @ + PagesFor(r.size), !.table = Added(d, r, m)]

\* The address devmap_map_device returns: that of the newest entry.
NewAddress(d, r) == DeviceAddress(Last(d.table), r.start)

Mapped(d, i, addr) == [d EXCEPT !.mapped[i] = addr]

\* devmap_map_device_resources, for resource i.
MapResource(d, i) ==
  LET r == Resources[i] IN
  IF d.mapped[i] # 0 THEN d
  ELSE IF devmap_device_va(d.table, r.start) # 0
       THEN Mapped(d, i, devmap_device_va(d.table, r.start))
  ELSE LET new == devmap_add_entry([d EXCEPT !.ok = TRUE], r)
       IN IF new.ok THEN Mapped(new, i, NewAddress(new, r)) ELSE new

Devmap == [pt |-> pt, free |-> free, ok |-> TRUE,
           table |-> devmap, next |-> devmap_next_va, mapped |-> mapped_addr]

SetDevmap(d, gone) ==
  /\ Commit(d, gone)
  /\ devmap' = d.table /\ devmap_next_va' = d.next /\ mapped_addr' = d.mapped

\* What vmm_map_range flushes under devmap_add_entry.
FlushedFor(d) == IF d.ok THEN VirtualPage ELSE {}

\* The table takes a page; the stores to it need the direct map.  The TLB is
\* flushed at the end whatever could be mapped.
devmap_init ==
  /\ dmap_ready /\ ~devmap_initialized /\ free # {}
  /\ SetDevmap(FoldLeft(MapResource, [Devmap EXCEPT !.free = @ \ {Min(free)}],
                        [i \in DOMAIN Resources |-> i]), VirtualPage)
  /\ devmap_initialized' = TRUE
  /\ UNCHANGED <<arch, dmap>>

devmap_map_device(r) ==
  /\ devmap_initialized
  /\ LET d == devmap_add_entry(Devmap, r) IN SetDevmap(d, FlushedFor(d))
  /\ UNCHANGED <<arch, dmap, devmap_initialized>>

\* Unlike MapResource it does not look for an entry that has the address.
devmap_find_and_map(i) ==
  LET d == devmap_add_entry(Devmap, Resources[i]) IN
  /\ devmap_initialized /\ mapped_addr[i] = 0
  /\ SetDevmap(IF d.ok THEN Mapped(d, i, NewAddress(d, Resources[i])) ELSE d, FlushedFor(d))
  /\ UNCHANGED <<arch, dmap, devmap_initialized>>

-----------------------------------------------------------------------------

\* vmm_init: the tables of boot.S, a block for the kernel.
BootTables ==
  [n \in {Entry(KERNEL_VIRT_BASE, l) : l \in 1 .. TOP} |->
     IF n[1] = 1 THEN make_block_pte(kernel_phys_base, {"READ", "WRITE", "EXECUTE"})
     ELSE make_table_pte(kernel_phys_base)]

Init ==
  /\ arch \in {"arm64", "riscv"}
  /\ regions \in MemInfo
  /\ pt = BootTables
  /\ \E low \in Memory : free = {p \in Memory : p > low /\ p >= kernel_phys_base + BOOT_PAGES}
  /\ dmap_phys_base = 0 /\ dmap_phys_max = 0 /\ dmap_ready = FALSE
  /\ devmap = <<>> /\ devmap_next_va = DEVMAP_VA_START /\ devmap_initialized = FALSE
  /\ mapped_addr = [i \in DOMAIN Resources |-> 0]
  /\ tlb = Translations(pt)

Window == WindowStart .. WindowStart + WindowPages - 1

Next ==
  \/ vmm_create_dmap
  \/ devmap_init
  \/ \E i \in DOMAIN Resources : devmap_map_device(Resources[i]) \/ devmap_find_and_map(i)
  \/ \E va \in Window :
       \/ MapPage(va, WindowPhys)
       \/ \E count \in {2, WindowPages} :
            va + count - 1 \in Window /\ MapRange(va, WindowPhys, count)
       \/ \E count \in {1, WindowPages} : va + count - 1 \in Window /\ vmm_unmap_range(va, count)

Spec == Init /\ [][Next]_vars

-----------------------------------------------------------------------------
(* Properties. *)

\* Both look for a page only, and say of a block that it is not mapped.
vmm_is_mapped(va) == Found(pt, va)
vmm_virt_to_phys(va) == IF Found(pt, va) THEN pt[Entry(va, 0)].phys ELSE NoPage

Space == INSTANCE AddressSpace WITH
  Translation <- 0 .. FANOUT^3, space <- [v \in VirtualPage |-> Translate(pt, v)]

\* Whatever ranges are mapped and unmapped, by blocks and by pages, and wherever
\* a call fails for want of a table or on an entry in use, a page that is
\* mapped never gets another translation before it had none, and a step that
\* maps a page takes no other page's translation away.
SpaceSpec == Space!Spec

\* Each page has one leaf at most, below tables only, so that vmm_virt_to_phys
\* finds what the MMU finds where vmm_is_mapped holds, that is in pages and not
\* in blocks.  The kernel reaches each table at the address
\* vmm_pt_phys_to_virt gives, before and after there is a direct map, unless that
\* is an identity address; and vmm_pt_virt_to_phys leads back.
TablesReached ==
  /\ \A v \in VirtualPage :
       /\ Cardinality(LeafOf(pt, v)) <= 1
       /\ vmm_is_mapped(v) => vmm_virt_to_phys(v) = Translate(pt, v)
  /\ \A n \in DOMAIN pt : n[1] < TOP =>
       LET above == <<n[1] + 1, n[2] \div FANOUT>> IN above \in DOMAIN pt /\ pt[above].table
  /\ \A n \in DOMAIN pt : pt[n].table =>
       LET va == vmm_pt_phys_to_virt(pt[n].phys) IN
       /\ vmm_pt_virt_to_phys(va) = pt[n].phys
       /\ va # pt[n].phys => Translate(pt, va) = pt[n].phys

\* The physical address that the MMU makes of a virtual one, in bytes.
PhysOf(va) == Translate(pt, va \div PAGE_SIZE) * PAGE_SIZE + (va % PAGE_SIZE)

\* The address that devmap_device_va returns for a device is that of the device:
\* the MMU translates it back, byte by byte, and the pages are writable, and on
\* arm64 device memory.  The address kept in a resource is that of its start.
DevicesMapped ==
  /\ \A i \in DOMAIN devmap : \A addr \in devmap[i].start .. devmap[i].start + devmap[i].size - 1 :
       LET va == devmap_device_va(devmap, addr)
       IN /\ PhysOf(va) = addr
          /\ \A n \in LeafOf(pt, va \div PAGE_SIZE) : pte_to_attrs(pt[n].flags) =
               {"READ", "WRITE"} \cup (IF arch = "arm64" THEN {"DEVICE"} ELSE {})
  /\ \A i \in DOMAIN Resources : mapped_addr[i] # 0 => PhysOf(mapped_addr[i]) = Resources[i].start

\* The TLB holds no translation that the tables no longer have.
TlbFresh == tlb = Translations(pt)
=============================================================================
