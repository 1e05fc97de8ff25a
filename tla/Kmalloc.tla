------------------------------- MODULE Kmalloc -------------------------------
(***************************************************************************)
(* kmalloc (memory/kmalloc.c) on its slab caches, with the table that maps *)
(* an address to its slab (memory/slab_lookup.c) and the statistics of     *)
(* the malloc types (memory/malloc_types.c).                               *)
(*                                                                         *)
(* The three call each other: a new slab is entered in the table, the      *)
(* table grows by kmalloc, which may need a new slab; its entries come     *)
(* from a cache that is not entered itself.  A call is an operator from    *)
(* the state s before it to the state after it, so that each action is one *)
(* whole call however deep it nests.                                       *)
(*                                                                         *)
(* Memory is counted in pages.  Of a slab matters which of its objects are *)
(* in use, and its place in the lists: slabs has all of them, the one that *)
(* last changed lists first, so each list of the code is a subsequence.    *)
(* An object is <<"obj", first page of its slab, index>>, a large          *)
(* allocation <<"large", first page>>.                                     *)
(***************************************************************************)
EXTENDS Integers, FiniteSetsExt, SequencesExt, Functions

CONSTANTS
  MemorySizes,       \* numbers of pages the PMM may have
  initial_buckets,
  UserClasses,       \* caches of kmalloc_size_classes callers allocate from
  LookupClass,       \* the one a struct slab_lookup comes from
  BucketClass,       \* the one an array of n buckets comes from
  Entries,           \* hash_entry_cache
  object_size, objects_per_slab, slab_pages,   \* of each cache
  entries_per_page,  \* entries in a page of the bootstrap pool
  LargePages,        \* pages of a large allocation, by the way it is made
  large_size,        \* the size of a large allocation
  MaxHeld            \* bound: allocations callers have at a time

Classes == UserClasses \cup {LookupClass, Entries} \cup {BucketClass[n] : n \in DOMAIN BucketClass}

ASSUME KmallocAssumption ==
  /\ MemorySizes \subseteq Nat /\ initial_buckets \in DOMAIN BucketClass
  /\ \A c \in Classes : object_size[c] \in Nat \ {0} /\ objects_per_slab[c] \in Nat \ {0, 1}
                        /\ slab_pages[c] \in Nat \ {0}
  /\ DOMAIN LargePages \subseteq {"block", "direct"}

VARIABLES
  s,                 \* the allocators: see Init
  held,              \* history: what callers have, [ptr, size, typed]
  lost               \* history: what they freed and kfree did not

vars == <<s, held, lost>>
NULL == <<>>
NoCache == "none"

SizeOf(size) == IF size \in UserClasses THEN object_size[size] ELSE large_size

\* External: the first run of n free pages of the PMM, 0 if there is none.
pmm_run(free, n) ==
  LET starts == {p \in free : p .. p + n - 1 \subseteq free}
  IN IF starts = {} THEN 0 ELSE Min(starts)

-----------------------------------------------------------------------------
(* The table.  A slab starts behind its header, and is entered with its    *)
(* start and its whole size: its last entry is for the page behind it.     *)

SlabPages(c, base) == base .. base + slab_pages[c]

\* slab_hash.  Only the low bits of these page numbers are set, so the bits
\* it mixes in are zero.
slab_hash(page, n) == page % n

\* The address is in the range of entry e: ptr is at the start of its page, in
\* front of where the objects of a slab begin, when it is a large one.
InRange(e, ptr, page) ==
  IF ptr[1] = "large" THEN page \in e.base + 1 .. e.base + slab_pages[e.cache]
  ELSE page \in e.base .. e.base + slab_pages[e.cache] - 1

PageOf(st, ptr) ==
  IF ptr[1] = "large" THEN ptr[2]
  ELSE LET c == (CHOOSE b \in ToSet(st.slabs) : b.base = ptr[2]).cache
       IN ptr[2] + (ptr[3] * slab_pages[c]) \div objects_per_slab[c]

\* slab_lookup_find: the cache of the first entry of the chain in range.
slab_lookup_find(st, ptr) ==
  LET page == PageOf(st, ptr)
      chain == st.table.buckets[slab_hash(page, st.table.num_buckets)]
      hits == SelectSeq(chain, LAMBDA e : InRange(e, ptr, page))
  IN IF hits = <<>> THEN NoCache ELSE Head(hits).cache

-----------------------------------------------------------------------------
(* The slab layer, as far as the table and kmalloc depend on it. *)

\* The partial list of the cache, then its empty list.
Usable(st, c) ==
  LET partial == SelectSeq(st.slabs, LAMBDA b :
        b.cache = c /\ b.used # {} /\ Cardinality(b.used) < objects_per_slab[c])
      empty == SelectSeq(st.slabs, LAMBDA b : b.cache = c /\ b.used = {})
  IN partial \o empty

\* An object of slab b is taken.  b moves to the head of a list when it was
\* empty and when it gets full.
TakeFrom(st, b) ==
  LET i == Min((0 .. objects_per_slab[b.cache] - 1) \ b.used)
      taken == [b EXCEPT !.used = @ \cup {i}]
      moves == b.used = {} \/ Cardinality(taken.used) = objects_per_slab[b.cache]
  IN [s |-> [st EXCEPT !.slabs =
               IF moves THEN <<taken>> \o Remove(@, b)
               ELSE [x \in DOMAIN @ |-> IF @[x] = b THEN taken ELSE @[x]]],
      obj |-> <<"obj", b.base, i>>]

\* The first object of the new slab b.
TakeNew(st, b) == TakeFrom([st EXCEPT !.slabs = <<b>> \o @], b)

\* kmem_cache_alloc.  A new slab is entered in the table before it is put on a
\* list of the cache.
kmem_cache_alloc(st, c, Enter(_, _)) ==
  LET usable == Usable(st, c)
      base == pmm_run(st.free, slab_pages[c])
      new == [base |-> base, cache |-> c, used |-> {}]
  IN IF usable # <<>> THEN TakeFrom(st, Head(usable))
     ELSE IF base = 0 THEN [s |-> st, obj |-> NULL]
     ELSE TakeNew(Enter([st EXCEPT !.free = @ \ (base .. base + slab_pages[c] - 1)], new), new)

\* KMEM_CACHE_NOTRACK.
Untracked(st, b) == st

EntryAlloc(st) == kmem_cache_alloc(st, Entries, Untracked)

\* Object i of slab b is freed; b moves when it was full and when it gets empty.
PutBack(st, b, i) ==
  LET put == [b EXCEPT !.used = @ \ {i}]
      moves == Cardinality(b.used) = objects_per_slab[b.cache] \/ put.used = {}
  IN [st EXCEPT !.slabs = IF moves THEN <<put>> \o Remove(@, b)
                          ELSE [x \in DOMAIN @ |-> IF @[x] = b THEN put ELSE @[x]]]

SlabAt(st, base) == CHOOSE b \in ToSet(st.slabs) : b.base = base

\* Mutant: the entry of the page behind the slab is forgotten.
RemovedPagesShort(b) == b.base .. b.base + slab_pages[b.cache] - 1

\* The pages slab_lookup_remove looks under.
RemovedPages(b) == SlabPages(b.cache, b.base)

\* slab_lookup_remove: for each page the first entry of the slab in its chain
\* goes, and its memory is freed (KMEM_CACHE_NOREAP).
slab_lookup_remove(st, b) ==
  LET RemoveOne(t, page) ==
        LET h == slab_hash(page, t.table.num_buckets)
            chain == t.table.buckets[h]
            mine == SelectSeq(chain, LAMBDA e : e.base = b.base)
            freed == PutBack(t, SlabAt(t, mine[1].mem[2]), mine[1].mem[3])
        IN IF mine = <<>> THEN t
           ELSE [freed EXCEPT !.table.buckets[h] = Remove(chain, mine[1]),
                              !.table.num_entries = @ - 1]
  IN FoldLeft(RemoveOne, st, SetToSortSeq(RemovedPages(b), <))

Unlisted(st, b) ==
  [st EXCEPT !.slabs = Remove(@, b), !.unentered = @ \ {b.base},
             !.free = @ \cup (b.base .. b.base + slab_pages[b.cache] - 1)]

slab_destroy(st, b) == Unlisted(slab_lookup_remove(st, b), b)

\* Of two empty slabs the older goes.
ReapOlder(st, c) ==
  LET empty == SelectSeq(st.slabs, LAMBDA b : b.cache = c /\ b.used = {})
  IN IF Len(empty) < 2 THEN st ELSE slab_destroy(st, empty[2])

\* kmem_cache_free.  An object that is in no slab of the cache is left alone.
kmem_cache_free(st, c, ptr) ==
  IF ptr[1] = "large" \/ SlabAt(st, ptr[2]).cache # c THEN st
  ELSE ReapOlder(PutBack(st, SlabAt(st, ptr[2]), ptr[3]), c)

-----------------------------------------------------------------------------
(* kfree and kmalloc_size. *)

LargeAt(st, ptr) == CHOOSE l \in st.large : l.base = ptr[2]

\* The header in front of ptr has the magic number: it is a large allocation.
HasMagic(st, ptr) == ptr[1] = "large"

kmalloc_size(st, ptr) ==
  LET c == slab_lookup_find(st, ptr)
  IN IF c # NoCache THEN object_size[c]
     ELSE IF HasMagic(st, ptr) THEN LargeAt(st, ptr).size ELSE 0

\* Mutant: the header is counted as well.
FreedBytesAll(l) == l.size + 1

\* The bytes kfree takes off the statistics for a large allocation.
FreedBytes(l) == l.size

\* c is the cache that the table has for ptr.
KfreeFrom(st, ptr, c) ==
  LET l == LargeAt(st, ptr)
  IN IF c # NoCache
     THEN kmem_cache_free([st EXCEPT !.active_allocs = @ - 1,
                                     !.active_bytes = @ - object_size[c]], c, ptr)
     ELSE IF HasMagic(st, ptr)
     THEN [st EXCEPT !.active_allocs = @ - 1, !.active_bytes = @ - FreedBytes(l),
                     !.large = @ \ {l}, !.free = @ \cup l.pages]
     ELSE st                                       \* "Invalid magic"

kfree(st, ptr) == KfreeFrom(st, ptr, slab_lookup_find(st, ptr))

-----------------------------------------------------------------------------
(* Entering a slab in the table, and the growth of the table. *)

\* bootstrap_alloc_entry: a page of the PMM serves entries_per_page entries.
bootstrap_alloc_entry(st) ==
  LET p == pmm_run(st.free, 1)
  IN IF st.bootstrap_offset > 0 THEN [st EXCEPT !.bootstrap_offset = @ - 1]
     ELSE IF p = 0 THEN [st EXCEPT !.halted = TRUE]
     ELSE [st EXCEPT !.free = @ \ {p}, !.bootstrap_allocs = @ \cup {p},
                     !.bootstrap_offset = entries_per_page - 1]

\* An entry for every page, each at the head of its chain.  When there is no
\* memory for one, it and the rest are left out.
InsertEntries(st, b) ==
  LET InsertOne(acc, page) ==
        LET got == IF acc.s.table.bootstrap_mode
                   THEN [s |-> bootstrap_alloc_entry(acc.s), obj |-> <<"boot">>]
                   ELSE EntryAlloc(acc.s)
            h == slab_hash(page, acc.s.table.num_buckets)
            e == [page |-> page, base |-> b.base, cache |-> b.cache, mem |-> got.obj]
        IN IF ~acc.go THEN acc
           ELSE IF got.obj = NULL THEN [s |-> [got.s EXCEPT !.unentered = @ \cup {b.base}], go |-> FALSE]
           ELSE [s |-> [got.s EXCEPT !.table.buckets[h] = <<e>> \o @,
                                     !.table.num_entries = @ + 1], go |-> TRUE]
  IN FoldLeft(InsertOne, [s |-> st, go |-> TRUE], SetToSortSeq(SlabPages(b.cache, b.base), <)).s

\* Allocations that succeed are counted.
Counted(got, c) ==
  IF got.obj = NULL THEN got
  ELSE [got EXCEPT !.s.active_allocs = @ + 1, !.s.active_bytes = @ + object_size[c]]

\* kmalloc of a size class, from within the table or from outside of it.
KmallocClass(st, c, Enter(_, _)) == Counted(kmem_cache_alloc(st, c, Enter), c)

NewTable(n) ==
  [num_buckets |-> n, num_entries |-> 0, resize_threshold |-> (n * 3) \div 4,
   bootstrap_mode |-> FALSE, lookup |-> NULL, mem |-> NULL,
   buckets |-> [h \in 0 .. n - 1 |-> <<>>]]

\* Mutant: the table allocated first is the one that is filled, whatever was
\* entered in the old one since.
RehashedEarly(before, old, n) ==
  [h \in 0 .. n - 1 |-> SelectSeq(FlattenSeq([i \in 1 .. before.num_buckets |->
     Reverse(before.buckets[before.num_buckets - i])]), LAMBDA e : slab_hash(e.page, n) = h)]

\* Every entry of the old table moves to the head of its new chain.
Rehashed(before, old, n) ==
  [h \in 0 .. n - 1 |-> SelectSeq(FlattenSeq([i \in 1 .. old.num_buckets |->
     Reverse(old.buckets[old.num_buckets - i])]), LAMBDA e : slab_hash(e.page, n) = h)]

\* The table stays as it is and is not resized again soon.
Degraded(st) == [st EXCEPT !.table.resize_threshold = 4 * st.table.num_buckets]

\* With the results of the two allocations.
ResizeWithBuckets(before, lookup, second) ==
  LET n == 2 * before.num_buckets
      old == second.s.table
  IN IF second.obj = NULL THEN Degraded(kfree(second.s, lookup))
     ELSE kfree(kfree([second.s EXCEPT !.table =
            [NewTable(n) EXCEPT !.num_entries = old.num_entries, !.lookup = lookup,
               !.mem = second.obj, !.buckets = Rehashed(before, old, n)]], old.mem), old.lookup)

ResizeWithLookup(before, first) ==
  IF first.obj = NULL THEN Degraded(first.s)
  ELSE ResizeWithBuckets(before, first.obj,
         KmallocClass(first.s, BucketClass[2 * before.num_buckets], InsertEntries))

\* slab_lookup_resize.  Slabs made for the new table are entered in the old
\* one (resizing is set), before it is rehashed.
slab_lookup_resize(st) ==
  IF st.table.bootstrap_mode THEN [st EXCEPT !.halted = TRUE]
  ELSE ResizeWithLookup(st.table, KmallocClass(st, LookupClass, InsertEntries))

slab_lookup_insert(st, b) ==
  InsertEntries(IF st.table.num_entries + slab_pages[b.cache] + 1 >= st.table.resize_threshold
                THEN slab_lookup_resize(st) ELSE st, b)

\* kmalloc of more than KMALLOC_MAX_SIZE.  The page allocator (external) gives
\* a block behind the header page of a chunk, taken here for the block alone;
\* from order 12 on the pages come directly from the PMM.
KmallocLarge(st, kind) ==
  LET n == LargePages[kind] + (IF kind = "block" THEN 1 ELSE 0)
      p == pmm_run(st.free, n)
      base == p + n - LargePages[kind]
      l == [base |-> base, kind |-> kind, size |-> large_size, pages |-> p .. p + n - 1]
  IN IF p = 0 THEN [s |-> st, obj |-> NULL]
     ELSE [s |-> [st EXCEPT !.free = @ \ l.pages, !.large = @ \cup {l},
                            !.active_allocs = @ + 1, !.active_bytes = @ + large_size],
           obj |-> <<"large", base>>]

kmalloc(st, size) ==
  IF size \in DOMAIN LargePages THEN KmallocLarge(st, size)
  ELSE KmallocClass(st, size, slab_lookup_insert)

-----------------------------------------------------------------------------
(* Initialization. *)

\* An entry moves to allocated memory and to the end of its new chain.
MoveEntry(st, e) ==
  LET got == EntryAlloc(st)
      h == slab_hash(e.page, initial_buckets)
  IN IF got.obj = NULL THEN [st EXCEPT !.halted = TRUE]
     ELSE [got.s EXCEPT !.table.buckets[h] = Append(@, [e EXCEPT !.mem = got.obj])]

\* The pages of the bootstrap pool go back.
BootstrapFreed(st) == [st EXCEPT !.free = @ \cup st.bootstrap_allocs, !.bootstrap_allocs = {}]

\* With the results of the two allocations.
MigrateWithBuckets(first, second) ==
  LET old == second.s.table
  IN IF second.obj = NULL \/ second.s.halted THEN [second.s EXCEPT !.halted = TRUE]
     ELSE BootstrapFreed(FoldLeft(MoveEntry,
            [second.s EXCEPT !.table = [NewTable(initial_buckets) EXCEPT
               !.num_entries = first.s.table.num_entries, !.lookup = first.obj, !.mem = second.obj]],
            FlattenSeq([i \in 1 .. initial_buckets |-> old.buckets[i - 1]])))

MigrateWithLookup(first) ==
  IF first.obj = NULL \/ first.s.halted THEN [first.s EXCEPT !.halted = TRUE]
  ELSE MigrateWithBuckets(first,
         KmallocClass(first.s, BucketClass[initial_buckets], slab_lookup_insert))

\* slab_lookup_migrate_to_dynamic.  The counters are copied before the new
\* buckets are allocated.
slab_lookup_migrate(st) ==
  MigrateWithLookup(KmallocClass(st, LookupClass, slab_lookup_insert))

\* The caches exist and slab_lookup_init has made the table in two pages of the
\* PMM; the page allocator and the caches took their pages before.
Init ==
  /\ \E last \in MemorySizes :
     s = [free |-> 3 .. last, slabs |-> <<>>, large |-> {},
          table |-> [NewTable(initial_buckets) EXCEPT !.bootstrap_mode = TRUE],
          bootstrap_allocs |-> {1, 2}, bootstrap_offset |-> 0,
          active_allocs |-> 0, active_bytes |-> 0, halted |-> FALSE,
          type_allocs |-> 0, type_bytes |-> 0,
          unentered |-> {}]          \* history: slabs that miss an entry
  /\ held = {} /\ lost = {}

\* The end of kmalloc_init.
kmalloc_init ==
  /\ s.table.bootstrap_mode /\ ~s.halted
  /\ s' = slab_lookup_migrate(s)
  /\ UNCHANGED <<held, lost>>

-----------------------------------------------------------------------------
(* The calls of users. *)

Ready == ~s.table.bootstrap_mode /\ ~s.halted

\* malloc_type_update_alloc, and malloc_type_update_free with the test in front
\* of it in kfree_type.
update_alloc(st, size) == [st EXCEPT !.type_allocs = @ + 1, !.type_bytes = @ + size]

update_free(st, size) ==
  IF size = 0 THEN st
  ELSE [st EXCEPT !.type_allocs = IF @ > 0 THEN @ - 1 ELSE @,
                  !.type_bytes = IF @ >= size THEN @ - size ELSE 0]

\* size is a class or a kind of large allocation.  kmalloc_type when typed.
Allocate(size, typed) ==
  /\ Ready /\ Cardinality(held) < MaxHeld
  /\ \E got \in {kmalloc(s, size)} :
        IF got.obj = NULL THEN s' = got.s /\ UNCHANGED held
        ELSE /\ s' = IF typed THEN update_alloc(got.s, kmalloc_size(got.s, got.obj)) ELSE got.s
             /\ held' = held \cup {[ptr |-> got.obj, size |-> size, typed |-> typed]}
  /\ UNCHANGED lost

\* What is lost when h is freed.
LostBy(h) == IF slab_lookup_find(s, h.ptr) = NoCache /\ ~HasMagic(s, h.ptr) THEN {h} ELSE {}

\* kfree, or kfree_type.
Free(h) ==
  /\ Ready
  /\ s' = IF h.typed THEN update_free(kfree(s, h.ptr), kmalloc_size(s, h.ptr))
          ELSE kfree(s, h.ptr)
  /\ held' = held \ {h} /\ lost' = lost \cup LostBy(h)

\* krealloc, where the size grows: else nothing changes.
krealloc(h, size) ==
  /\ Ready /\ ~h.typed
  /\ kmalloc_size(s, h.ptr) \in 1 .. SizeOf(size) - 1
  /\ \E got \in {kmalloc(s, size)} :
        IF got.obj = NULL THEN s' = got.s /\ UNCHANGED <<held, lost>>
        ELSE /\ s' = kfree(got.s, h.ptr)
             /\ held' = (held \ {h}) \cup {[ptr |-> got.obj, size |-> size, typed |-> FALSE]}
             /\ lost' = lost \cup LostBy(h)

Next ==
  \/ kmalloc_init
  \/ \E size \in UserClasses \cup DOMAIN LargePages, typed \in BOOLEAN : Allocate(size, typed)
  \/ \E h \in held : Free(h)
  \/ \E h \in held, size \in UserClasses \cup DOMAIN LargePages : krealloc(h, size)

Spec == Init /\ [][Next]_vars

-----------------------------------------------------------------------------
(* Properties. *)

AllEntries == UNION {ToSet(s.table.buckets[h]) : h \in DOMAIN s.table.buckets}
Tracked == {b \in ToSet(s.slabs) : b.cache # Entries}

\* The table has entries of the slabs there are and of no other, each in the
\* chain its page hashes to and at most one for each page of a slab: after
\* the growth of the table, after the migration, and although slabs are made
\* for the table while it grows.
TableExact ==
  ~s.halted =>
    /\ \A h \in DOMAIN s.table.buckets :
         /\ IsInjective(s.table.buckets[h])
         /\ \A e \in ToSet(s.table.buckets[h]) :
              /\ slab_hash(e.page, s.table.num_buckets) = h
              /\ \E b \in Tracked : b.base = e.base /\ b.cache = e.cache
                                   /\ e.page \in SlabPages(b.cache, b.base)
    /\ \A e, f \in AllEntries : e.page = f.page /\ e.base = f.base => e = f

\* No slab is missing from the table, or in part, unless there was no memory for
\* an entry when it was made: kfree finds the cache of every other object.
TableComplete ==
  ~s.halted =>
    \A b \in Tracked : b.base \notin s.unentered =>
      \A page \in SlabPages(b.cache, b.base) :
        \E e \in AllEntries : e.page = page /\ e.base = b.base

\* What kmalloc counts as active is what is allocated from its caches and in large
\* pieces: the tables and what was lost included.  What a malloc type counts are
\* its allocations that callers have, and those lost when they were freed, with
\* the bytes kmalloc_size gives for each, when it is made as when it is freed.
StatsExact ==
  ~s.halted =>
    /\ s.active_allocs = SumFunctionOnSet([b \in Tracked |-> Cardinality(b.used)], Tracked)
                         + Cardinality(s.large)
    /\ s.active_bytes =
         SumFunctionOnSet([b \in Tracked |-> Cardinality(b.used) * object_size[b.cache]], Tracked)
         + SumFunctionOnSet([l \in s.large |-> l.size], s.large)
    /\ LET typed == {h \in held \cup lost : h.typed}
       IN /\ s.type_allocs = Cardinality(typed)
          /\ s.type_bytes =
               SumFunctionOnSet([h \in typed |-> kmalloc_size(s, h.ptr)], typed)

\* kmalloc_size of a large allocation is the size that was asked for, as long as
\* the caller has it.
LargeSizeHolds ==
  \A h \in held : h.ptr[1] = "large" => kmalloc_size(s, h.ptr) = large_size
=============================================================================
