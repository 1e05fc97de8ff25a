# A TLA+ model of ProtoKernel

ProtoKernel is a small 64-bit kernel for arm64 and RISC-V. This directory holds
TLA+ specifications of its boot, memory, interrupt and device code, the
configurations with which TLC checks them, and proofs that TLAPS checks.

Every definition is translated from the C source; `PROJECT.json` names the
lines. Names are the source's wherever TLA+ allows it.

## How the kernel runs

The kernel boots one CPU, has no scheduler and no threads, and runs its
subsystems from `kernel_main`. There are two contexts: the task, and an
interrupt handler that preempts it and is not itself interrupted. So

- calls of the memory managers and of the device code are atomic: outside its
  tests the kernel registers no interrupt handler that allocates, and these parts
  have no locks that would let one;
- calls on a descriptor are split where the handler that preempts them could see
  the difference (`IrqDesc`);
- the calls of `IrqDomain` are atomic, which is an abstraction. A handler does not
  change a mapping, but it looks one up: `plic_handle_irq` and the arm64
  `irq_handler` call `irq_find_mapping`, which takes `domain->lock`. What a lookup
  finds in the middle of a mapping call, and the handler that spins on
  `domain->lock`, are not modelled (for the descriptor locks the latter is `Stuck` of
  `IrqDesc`);
- a loop is split into its iterations only to check the algorithm itself
  (`PmmScan`).

What can fail in the middle of a call (an allocation, a callback that refuses)
is an input of the action, or follows from the memory that is left. Calls that
call each other (kmalloc and its lookup table, a domain and its parent, the
recursion over the device tree) are operators from state to state, and an action is
the outermost call.

## Parts and modules

| Part | What makes it hard | Modules |
|---|---|---|
| Boot: `kernel_main`, blob copied by `boot.S`, `fdt_mgr.c`, `pmm_init`, `pmm_bootstrap.c` | memory is handed out before anyone knows what is in it | `Fdt`, `Boot` |
| PMM: `pmm.c` | partial pages, overlapping reservations, double frees, a search over several regions | `PageStore`, `Pmm`, `PmmScan` |
| Buddy allocator: `page_alloc.c` | block tables that fill up, alignment inside a chunk, chunks that come and go | `PageAlloc` |
| Slab: `slab.c` | links rewritten by frees in any order, reaping, sizes computed twice | `Slab`, `SlabLayout` |
| kmalloc: `kmalloc.c`, `slab_lookup.c`, `malloc_types.c` | the lookup table allocates from the caches it indexes | `Kmalloc` |
| Radix tree: `radix_tree.c`, `radix_tree_alloc.c` | growing and shrinking with tags, insertions that fail half way | `KeyMap`, `RadixTree` |
| VMM, device mappings: `vmm.c`, `vmm_arm64.c`, `vmm_riscv.c`, `devmap.c` | blocks and pages, tables edited through the map they make, partial failure | `AddressSpace`, `Vmm` |
| IRQ descriptors: `irq_desc.c`, `irq_chip.c`, PLIC claims, arm64 `irq_handler` | interrupts between any two stores, locks that do not mask interrupts | `IrqDesc` |
| IRQ domains, numbers: `irq_domain.c`, `irq_alloc.c` | calls nested in a parent domain, failures at every step | `IrqDomain` |
| ARM interrupt controller: `arm-gic-common.c`, `arm-gic-v2.c`, `arm-gic-v3.c` | registers in an unknown state, lines with two kinds of owner | `Gic` |
| MSI: `msi.c` | half-done allocations, references that are not dropped | `Msi` |
| Devices, drivers, UARTs: `device_*.c`, `resource.c`, `driver_core.c`, `uart*.c`, `irqchip.c` | a tree built by recursion in a pool that runs out; bindings and console that must outlive nothing | `Devices` (on `Fdt`) |

`PROJECT.json` lists the parts that are partly modelled or not modelled, with the
reason.

### Boot

`Fdt` has the structure block of a device tree as a sequence of tokens and the
scans of `fdt.c` over it (`fdt_first_subnode`, `fdt_next_subnode`, `fdt_getprop`,
`fdt_next_node`, `fdt_path_offset`). It is used by `Boot` and by `Devices`.
`fdt_parent_offset` is not among them: its loop ends before it has read the token of
the node it looks for, so that it finds the parent of no node.

`Boot` starts from any well-formed block of up to `MaxTokens` tokens, which is
built token by token, lying at one of several places around the kernel. `pc` is
the call `kernel_main` makes next: copying of the blob, `fdt_mgr_init`,
`fdt_get_memory`, `pmm_init` with its bitmaps and reservations, page tables for
the direct map and for the blob, the device pool. A panic is a final state. Bitmaps
that reach the blob destroy its header when they are cleared (`BlobReached`).

### Memory

`PageStore` is the promise of the PMM: pages are free, held or reserved; an
allocation takes free pages, a free returns held ones, a reservation takes free ones.

`Pmm` is the code. The bitmaps of all regions are one set `bitmap` of pages
`<<region, index>>`; `region_free` and the four statistics are the counters the
code keeps beside it; `held` is a history variable. One action per call. Addresses
are counted in units smaller than a page, so that misaligned addresses and regions
with a partial last page exist. `Spec` has callers that free what they hold, `AnySpec`
callers that free and reserve any address. `PmmScan` replaces the declarative first
fit by the loop of `pmm_alloc_pages`, one step per iteration, and implements `Pmm`.

`PageAlloc` is the buddy allocator: chunks with their block tables, the free lists,
the split and the merge loops, the sweep for empty chunks and the blocks of the
largest order that come straight from the PMM. The PMM is external to it: any run of
free pages. A half block for which the table has no slot is in no list, as in the
code, until its chunk goes.

`Slab` is one cache. `full`, `partial` and `empty` are its lists, in order; `slab[s]`
is the header of a slab with its free list as the code links it, an array of
indices; `pages` are the slabs whose memory the cache has; `held` is a history
variable. `kmem_cache_alloc` is three actions, by where the slab comes from, and
`kmem_cache_free` three, by what becomes of the slab. `SlabLayout` is the arithmetic:
how many objects `calculate_slab_parameters` counts and how large `slab_create`
then makes the slab.

`Kmalloc` composes the layers above: `kmalloc_init`, `kmalloc`, `kfree`, `krealloc`
and the typed calls over several caches in one memory, and the hash table from page
to slab, with the static memory it starts with, its growth and its migration. Making
a slab enters it in the table; the entry is allocated from a cache, which may make a
slab. Slabs are abstracted to the number of objects in use, which `Slab` has in
detail.

`Vmm` has the page tables as a function from nodes to entries, the flags of both
architectures (`arch` is chosen initially), the memory that is left for tables, the
TLB, and the table of device mappings. `vmm_create_dmap` maps memory with blocks
where it can and then changes the address at which tables are edited.
`AddressSpace` is its promise: translations change only by the call that asks for it.

### The radix tree

`RadixTree` has nodes as records with slots, counts and one tag, growing and
shrinking, failing allocations and the cache of free nodes. `KeyMap` is a map from
keys to items, which the tree implements.

### Interrupts

`IrqDesc` is one descriptor and its line. `task` and `irq` are the two program
counters. A call is split at each lock operation and before the call into the
interrupt controller. The handler is either `generic_handle_irq` (RISC-V, through
the PLIC) or the arm64 `irq_handler`. Devices assert a level-triggered line until
their handler has run.

`Gic` is the controller below the descriptors on arm64: which lines are enabled,
edge-triggered and prioritised, from the unknown state the firmware leaves. Its actions
are the probe of either version, which may fail after it has set the registers and be
tried again, the operations of the domain and the chip, and the lending of SPIs for
messages (`gic_msi_alloc_spi`, `gic_msi_free_spi`). A frame of version 2 may have a
range beyond the lines of the controller, and beyond its registers, where enabling one
line clears another (`Unmasked`). `lent` and `silenced` are history variables: what
callers have, and what the chip's mask was called on since.

`IrqDomain` has all domains, the number allocator and the descriptors' mapping
fields. An argument `fail` says which step fails. A pointer to a descriptor is its
virtual number; freeing a descriptor turns the pointers to it into `DANGLING`.
`Msi` adds the devices' vector lists: an action is a call of `msi.c` with the domain
calls it makes. Vectors that `msi_device_cleanup` forgets with a reference left are
kept in `leaked`. Any step of a mapping may fail, and a vector whose mapping failed is
listed without a number, as in the code.

### Devices

`Devices` goes from a device tree to bound drivers: the pool, the recursion of
`enumerate_devices_recursive` with types, registers and interrupts, the interrupt
controller, the UART drivers and the console; then callers register, move, detach and
probe devices and unregister a driver in any order. The list of UARTs is a sequence with
a flag `ends`: a context that was freed stays on it, and one that is registered while it
is still on the list makes the list a cycle. The drivers lie in their section in any of
several orders. What the enumeration should find is stated apart from it, from the tree
itself (`Said`, `Listed`, `Above`).

## Runs

Each run asks one part of the system several questions; runs of separate settings
are joined by a variable that says which setting a behaviour has (`MCIrqDesc`,
`MCIrqDomain`, `MCSlab`, `MCMalloc`).

| Run | Bounds | States | What it shows |
|---|---|---|---|
| `boot` | blocks of up to 9 tokens and depth 3, blob at four places and of two sizes, three sets of banks, two tables | 498,507 | the parser agrees with the tree and finds the banks; bitmaps, tables and pool overwrite nothing |
| `pmm` | regions of four and of two and a half pages side by side, requests of up to three pages | 24,636 | counters equal the bitmap; the search is complete, ends and implements `Pmm`; with callers that keep to the rules it implements `PageStore` |
| `slab` | three slabs of three objects, with and without `KMEM_CACHE_NOREAP`; layout: the kernel's constants, all object sizes up to 128 KB, with powers of two up to a page as alignments | 340,648 | free lists, slab lists, memory and statistics agree; objects and free list fit the slab |
| `kmalloc` | caches: memory of 5, 8, 10 or 11 pages, a table of 8 buckets that grows to 32, four allocations; buddy: 14 pages, blocks of one, two and four pages and direct ones of eight, three slots per table, one chunk kept | 184,879 | the table has the slabs there are and no other, none is missing unless its entry could not be allocated, statistics exact; blocks apart and aligned, lists and counters exact, free buddies merged, every page accounted for |
| `vmm` | four entries per table, three levels, two memory maps, four resources, both architectures | 6,810 | implements `AddressSpace`; tables reached, devices at their addresses, TLB not stale |
| `irq_desc` | two devices, `disable_irq` nested up to depth 3, chains of up to three handlers, both dispatchers; a GIC of four or six lines, one of them private, three ranges for messages; a radix tree of two slots per node, height three, keys 0, 1, 2 and 6, one cached node | 210,512 | nesting, flag and mask agree; sharing by consent; claims completed; interrupts served; no line of the GIC enabled without an owner, lent SPIs apart and live; the tree implements `KeyMap`, iterations miss nothing up to `max_key` |
| `irq_domain` | a linear domain of one entry and a tree domain; two children of one parent; two MSI devices with up to two vectors per call; five virtual numbers | 70,348 | tables agree, no number leaks, nothing outlives a domain, a vector with a number has its mapping for itself |
| `devices` | seven boards, three pools, two orders of the drivers, two contexts, one device moved or added | 136,035 | the tree is mirrored as far as the pool goes, links and bindings agree, the best driver is bound, the console is a serving device until that is detached |
| `kmalloc_behind_slab` | as `kmalloc`, with direct allocations | | violated, see below |
| `irq_domain_tree_removed` | as `irq_domain`, removing the tree domain | | violated, see below |
| `msi_vectors` | the MSI devices of `irq_domain` | | violated, see below |
| `boot_blob` | as `boot` | | violated, see below |

What the bounds let happen. Requests of three pages fit only the region of four, and
only from its first or second page; the regions are adjacent, so a run that crossed from
one into the other would be one of addresses. Slabs of three objects have a use between
full and empty, so every branch of a free is taken, and free lists in every order; with
three slabs two can be empty, so that one is reaped, while the third is in use. With
three slots a chunk of four pages cannot record all its single pages, so splits lose
halves; with 14 pages there are two chunks, and one is given back. The four memories of
`kmalloc` run out at different points of its initialisation, of the migration and of the
growth of the table. Height three with two slots has inner nodes above inner nodes; the
key 6 shares no node but the root with the others. In `vmm` memory and a device can be
mapped by blocks or not, tables run out at any point, and a device starts in the middle
of a page and ends in the next. Chains of three handlers have a middle to unlink, with
two devices two of them have the same cookie, and depth 3 lets two calls of
`disable_irq` nest on a line that starts disabled. The ranges for messages are one that
starts below the shared lines, one that the smaller GIC has in part and one that ends
beyond the registers; together with the upper half of the SPIs, two and three SPIs can
be lent, so that a run is searched for across one in use. With two numbers for four
lines (`MaxVirqs`), mappings fail for want of a number and numbers are reused; with
five, the cascade has room for two complete child mappings and the child, but not the
parent, of a third. The boards have an enabled or a disabled bridge above the UART,
registers that are missing, empty or two, a `stdout-path` or none; one has two UARTs of
one name, and one a parent with one cell per address and size; the small pools end in
the middle of the enumeration.

Symmetry (slabs, MSI devices, UART contexts) is used only in runs without liveness properties.
These are small instances: TLC shows nothing of larger ones, which is what the
proofs are for.

Deadlock is checked for the PMM, the VMM and the devices. It is not where
callers of an allocator may stop, where the boot ends, where a handler may spin for ever
(`IrqDesc`) and where the kernel stops when it panics (`IrqDomain`).

### Fairness

`PmmScan` assumes that the loop keeps running. `IrqDesc` assumes that the CPU keeps
executing interrupt code when it is in a handler, keeps executing the call when it
is not, and takes an interrupt that stays pending and enabled. Devices and callers
are not fair: they may stop. The other parts have no loop that waits for anything.

### What the violated properties show

- `NothingOutlivesDomain` with a tree domain: `radix_tree_delete` resets `max_key` when
  the largest key goes, and `irq_domain_remove`, where a comment says "Remove all
  mappings", then misses the rest. The passing run removes no tree domain
  (`Removable`).
- `LargeSizeHolds`: `slab_lookup_insert` enters a slab as the bytes from `slab_base`,
  which is 64 bytes into its first page, to `slab_base + slab_size`, so the entry
  covers the start of the page behind the slab. An allocation of more than 8 MB,
  which comes directly from the PMM, may have its header there, and is then taken for
  an object of the slab. Smaller ones are not concerned: they come from chunks of the
  buddy allocator, whose first page holds the block table. The test that states the
  property makes such a smaller one, and the passing run has only those (`LargePages`).
- `VectorsMapped`: `irq_create_mapping` fails with `IRQ_INVALID`, `msi_alloc_vectors` tests
  for 0, so a vector without a mapping is listed and counted and the call succeeds. A test
  asserts of the vectors on the list that the "VIRQ should be mapped". When the mapping
  failed after the marker of its hardware number was deleted, that number is given out
  again. The passing run has these failures too: `VectorsExact` is about the vectors that
  have a number.
- `BlobPassed`: `pmm_init` steps over the blob ("If FDT exists and is after our current
  position, move past it") only when the blob starts within 64 KB of the boot page
  tables. On a machine with more than 2 GB the bitmaps are larger than that and run into
  a blob that lies behind. In the passing run this happens too, and the kernel then
  panics for want of a device tree; `BitmapsApart` speaks of the blob only up to that
  amount of memory.

### Restrictions of the passing runs

Besides the bounds, these leave out behaviours in which the properties do not hold,
and about which the repository does not claim the contrary or says so itself:

- `spin_lock_irqsave` does not mask interrupts, as its header says, so a handler can
  spin on a lock of the task it interrupted: `Stuck`, the exception in `Served`.
- Two children on one line of the parent share the parent's mapping, which goes with
  the first of them. `Lines` has children on different lines, as the tests do.
- The removal of a tree domain with a reserved slot takes the slot's marker for a
  descriptor (`wild`), and a descriptor kept because its mapping was disposed of with a
  handler attached panics when a mapping that reuses it fails (`panicked`). After
  either nothing more is modelled.
- A slab of a single object goes to the partial list when it is freed and stays counted
  as active, because the test for a slab that was full comes before the test for an
  empty one. In the run `objects_per_slab` is three; the proofs admit one.
- `radix_tree_replace` of an absent key sets an item that is not counted
  (`ReplaceAbsent`).
- When the bank with the kernel is not the first, the range that `pmm_init` reserves
  for the kernel starts in another bank (`KernelBankFirst`).
- `gicv2_msi_init` tests the range of a frame against the limits of the architecture but
  not against the lines of this controller. `LinesExact` says that a lent SPI the
  controller has is live, and for version 3 that it has all of them; of the SPIs that a
  version 2 lends and does not have it says only that nobody else has them, and nothing
  of a mapped line that is disabled in enabling one beyond the registers. That the base
  and the size of a range do not add up to 2^32 is a bound.
- The registers of a node are read with two address and two size cells, which are the
  defaults: the cells of the parent would be found through `fdt_parent_offset`, which
  finds no parent (`device_tree.c`, lines 227 and 266). `EnumerationExact` says nothing of
  the resources of nodes whose parent has other cells. An interrupt is three cells.
- `uart_find_console_device` looks the last component of `stdout-path` up among the
  devices, by name: with two devices of one name the console may be the other one.
  `ConsoleServes` says that it is the one named only where the name is unique.
- Detaching the device of the console frees its context, which `console_uart` keeps:
  `ConsoleServes` ends there. The list of UARTs keeps it as well, and `BindingsExact` says
  that the contexts in use are on the list only while it is not a cycle. Unregistering a
  device that is bound leaves the driver its reference.
- A device whose pages overlap those of an earlier one fails to be mapped and stays
  without an address; `DevicesMapped` is about the addresses that were given.
- `kmem_cache_create` tests no alignment. `SlabLayout` has alignments that divide the sizes
  of slabs, powers of two up to a page; with a larger one `calculate_slab_parameters`
  subtracts more than a slab has.
- `krealloc` of a pointer that `kmalloc_type` gave moves it without its type, and is left
  out. `num_entries` of the lookup table, which misses the entries made while the table
  is migrated, is in no property.
- In the run `pmm` callers free what they hold; frees of anything else, reserved pages
  among it, are covered by the theorem `AnyCallers` alone.

Callers keep to their side: they free what they hold and once, dispose of and request
only lines they mapped, remove a domain after its children and after the numbers
`irq_domain_alloc_irqs` gave it, put no device below itself and unregister none with
children. The hierarchy of domains is two levels deep.

## Proofs

The theorems hold for every value of the constants that satisfies the `ASSUME` of the
component's module; those about domains have two more hypotheses, named below.

| Module | About |
|---|---|
| `MemoryProofs` | `Pmm`, `PmmScan`, `SlabLayout` |
| `SlabProofs` | `Slab` |
| `IrqDescProofs` | `IrqDesc`, `Gic` |
| `IrqDomainLemmas`, `IrqDomainCreate`, `IrqDomainCalls`, `IrqDomainProofs` | `IrqDomain`: disposal of mappings; `irq_create_mapping` in linear and tree domains; in hierarchical ones, and ranges; the loops and the theorems |
| `ListLemmas` | doubly linked lists as sequences without repetition; functions defined by recursion over `0 .. n`; least elements |

- `AnyCallers`, `ExactStatistics`: the invariants of the PMM. Each action is first
  shown to be an allocation, a reservation or a release of some set of pages
  (`AllocKind`, `ReserveKind`, `ReleaseKind`), and each kind preserves the invariant.
  `AnyInv` is inductive as it stands; `StatsExact` needs it beside it, and needs
  callers that free what they hold (`HeldReleaseKind`). The counters are
  cardinalities, so the lemmas under it are about finite sets.
- `ImplementsStore`: the refinement of `PageStore`, from the same invariant: held
  pages have their bit set, so what is freed was held and what is taken was free.
- `SearchInvariant`, `SearchComplete`, `SearchImplementsFirstFit`: the inductive
  invariant `Loop` is `ScanInv` and the types of the locals. `ScanInv` says that the
  last `found` pages before `page` are free and start at `start`, and that no start
  passed over begins a free run of the length asked for.
- `StatusAgrees`, `EveryClaimCompleted`, `NoHandlerWhenDisabled`,
  `SharedByConsent`: from the inductive invariant `IInv` of `IrqDescProofs`.
  `DepthStatusMask` alone is not inductive, as it says nothing while the lock is
  held: `Consistent` adds that the status is then ahead of the controller by at most
  the one chip call that `task` names. `InService` ties the claim in the controller
  to the handler.
- `LinesAlwaysExact`: the lines of the GIC. `LinesExact` alone is not inductive:
  `InRange` adds that what is lent lies in the range for messages, and that range in the
  shared lines. With it a free range of the bitmap is nobody's (`AllocKeeps`), and
  what one caller frees is apart from what the others have (`FreeKeeps`). A range of a
  version 2 may exceed the controller; a number beyond the registers then clears the
  enable bit of another line, never of one in the range, because the range is no longer
  than the registers.
- `SlabLayoutFits`: objects, padding and free list fit the slab that `slab_create`
  makes, although it computes the size again without the padding. The sizes of slabs
  double from the smallest to the largest, object sizes are those `kmem_cache_create` makes
  of its arguments, and alignments divide the sizes of slabs. `calculate_slab_parameters` picks the
  number of objects n for some size; were the size that `slab_create` takes smaller,
  twice that size would still be at most the first, and so the objects fill less than
  half of it, which leaves room for one more object unless n is 1; and with one object
  the alignment divides the slab size, which leaves room for the padding.
- `FreeListsIntact`, `SlabsOnTheirLists`, `CacheMemoryExact`: a slab cache, for any
  number of slabs and of objects in a slab. For slabs of a single object `ListsByUse` and
  `MemoryExact` make the exceptions named under Restrictions. The inductive
  invariant `IInv` of `SlabProofs` says that the three lists are apart and make up the
  memory of the cache (`ListsApart`), that the use of a slab decides its list (`Uses`),
  that each free list is a walk over the free objects that ends (`Threaded`), and what the
  counters count (`Counts`). The three properties need each other: an allocation finds an
  object only because a partial slab has one, and a free leaves the list a walk only
  because the object was not on it. An object that is linked in puts one step before
  the walk, an object that is taken drops the first step (`ReturnOne`, `TakeOne`), and the
  rest is about lists without repetition (`ListLemmas`).
- `TablesAgree`, `NumbersConserved`, `DomainsLeaveNothing`: the mappings of interrupt
  domains, for any domains, lines, numbers and failures. The inductive invariant `IInv` of
  `IrqDomainProofs` has, while the kernel runs, the predicate `Good` of `IrqDomainLemmas`:
  the number bitmap (`Numbers`), the entries of all tables (`Entries`, `Tables`) and the
  links to parents (`Links`) agree. Beyond the properties it says that a descriptor
  without a domain has no hardware number, that the tables are empty beyond their size,
  and that only a child has a parent. In the middle of a call this does not hold:
  `irq_create_mapping` enters a number before its descriptor says so, and calls itself for the
  parent in that state. So `Good` has parameters for the one number that is entered and
  not yet bound, with its line, and for the descriptors whose parent is being disposed
  of; the calls are proved for any such number. The loops of `irq_domain_free_irqs` and
  `irq_domain_remove` are recursive functions, whose values are related by induction
  (`LoopInvariant` of `ListLemmas`).

  `Exclusive` says that cascaded controllers use lines of their parents that no driver maps
  itself and no two of them the same one; without it the first child that goes takes the
  parent's mapping with it. `NoTreeRemoved` says that the domains that are removed are
  linear or hierarchical: with a tree domain `DomainsLeaveNothing` is false, which is what
  the run `irq_domain_tree_removed` shows. The constants of the run `irq_domain` satisfy
  both.

Only model-checked:

- `Returns` and `ServedByEither`: liveness under fairness is out of the proof system's
  reach.
- `MapSpec`, `IterationExact` (`RadixTree`), `SpaceSpec`, `TablesReached`, `DevicesMapped`,
  `TlbFresh` (`Vmm`): what a descent through nodes and a loop over a range compute is
  induction over data, with folds whose step is an operator, which none of the provers
  can instantiate.
- The properties of `Boot` and `Devices`, for the same reason: they compare recursive
  scans of a token sequence with the tree it stands for.
- `TableExact`, `TableComplete`, `StatsExact` (`Kmalloc`): calls take the call nested in
  them as an operator, and entries are made by folds over the pages of a slab.
- `VectorsExact` (`Msi`): its calls are folds over vectors around those of `IrqDomain`.
- `BuddyBlocks`, `FreeListsExact`, `Coalesced`, `PagesConserved` (`PageAlloc`): a chunk is cut
  by recursion into blocks of any order, and alignment to powers of two is not linear
  arithmetic.

## Not modelled

- The APLIC, the IMSIC and the INTC of RISC-V, and of the GIC and the PLIC what concerns
  routing, groups, thresholds, software interrupts and pending state: that code programs
  registers of hardware whose behaviour the repository does not define.
- The loops of `page_alloc_multiple` and `page_free_multiple` above the largest order,
  the registry of malloc types, red zones, three of the four tags of a radix tree and
  `radix_tree_gang_lookup`, `irq_set_type`, affinities, composition of MSI messages,
  conflicts of resources, `memmap.c`: they do not touch the state the properties are
  about, or nothing uses them.
- Formatting, printing and counters that nothing reads; the byte encoding of the device
  tree; polled UART input and output; the boot assembly but for the copy of the blob;
  exceptions other than interrupts.

`PROJECT.json` lists every part with its reason, and under `hazards` what no property
covers yet.
