-------------------------------- MODULE Slab --------------------------------
(***************************************************************************)
(* One cache of the slab allocator (kernel/memory/slab.c): its three lists *)
(* of slabs, the free list threaded through each slab, and the statistics. *)
(*                                                                         *)
(* A slab is named by the pages it occupies.  An object is <<slab, index>>.*)
(* The counters allocs and frees, which only grow, are left out.  Entering *)
(* slabs in the lookup table is left to the table's own model.  held is a  *)
(* history variable: the objects given out and not yet returned.           *)
(***************************************************************************)
EXTENDS Integers, Sequences, FiniteSetsExt

CONSTANTS
  Slabs,             \* the runs of pages the PMM may give to the cache
  objects_per_slab

ASSUME SlabAssumption ==
  /\ IsFiniteSet(Slabs)
  /\ objects_per_slab \in Nat \ {0}

Index == 0 .. objects_per_slab - 1
END == -1                    \* 0xFFFFFFFF, the end marker of a free list

VARIABLES
  exists, noreap,            \* whether there is a cache; KMEM_CACHE_NOREAP
  full, partial, empty,      \* full_slabs, partial_slabs, empty_slabs
  slab,                      \* slab[s]: the header of s
  active_objs, total_objs, active_slabs, total_slabs,   \* cache->stats
  pages,                     \* the slabs whose memory the cache has
  held                       \* history: objects allocated and not freed

stats == <<active_objs, total_objs, active_slabs, total_slabs>>
lists == <<full, partial, empty>>
vars == <<exists, noreap, lists, slab, stats, pages, held>>

\* The header slab_create makes: the free list runs through all indices.
Fresh == [num_free |-> objects_per_slab, freelist_head |-> 0,
          freelist |-> [i \in Index |-> IF i = objects_per_slab - 1 THEN END ELSE i + 1]]

NoCache ==
  /\ full = <<>> /\ partial = <<>> /\ empty = <<>>
  /\ slab = [s \in Slabs |-> Fresh]
  /\ active_objs = 0 /\ total_objs = 0 /\ active_slabs = 0 /\ total_slabs = 0
  /\ pages = {} /\ held = {}

Init == exists = FALSE /\ noreap = FALSE /\ NoCache

kmem_cache_create ==
  /\ ~exists
  /\ exists' = TRUE /\ noreap' \in BOOLEAN
  /\ UNCHANGED <<lists, slab, stats, pages, held>>

\* The slabs kmem_cache_destroy gives back.
Destroyed == Range(full) \cup Range(partial) \cup Range(empty)

\* The cache goes with all its slabs, objects still held included.  Its
\* statistics go with it, and what is left of a slab's header is of no use.
kmem_cache_destroy ==
  /\ exists
  /\ exists' = FALSE /\ noreap' = FALSE
  /\ pages' = pages \ Destroyed
  /\ full' = <<>> /\ partial' = <<>> /\ empty' = <<>>
  /\ slab' = [s \in Slabs |-> Fresh]
  /\ active_objs' = 0 /\ total_objs' = 0 /\ active_slabs' = 0 /\ total_slabs' = 0
  /\ held' = {}

-----------------------------------------------------------------------------
(* kmem_cache_alloc. *)

\* Mutant: the next index is taken, not the next entry of the list.
UnlinkFirstBump(b) == [b EXCEPT !.num_free = @ - 1, !.freelist_head = @ + 1]

\* The first object leaves the free list.
UnlinkFirst(b) ==
  [b EXCEPT !.num_free = @ - 1, !.freelist_head = b.freelist[b.freelist_head]]

\* Take an object from slab s with header b, the head of the partial list.
\* (A slab without a free object would make the call return NULL; ListsByUse
\* excludes it.)
Take(s, b, partials) ==
  /\ b.num_free > 0
  /\ slab' = [slab EXCEPT ![s] = UnlinkFirst(b)]
  /\ IF b.num_free = 1
     THEN full' = <<s>> \o full /\ partial' = Tail(partials)
     ELSE full' = full /\ partial' = partials
  /\ active_objs' = active_objs + 1
  /\ held' = held \cup {<<s, b.freelist_head>>}
  /\ UNCHANGED <<exists, noreap>>

AllocFromPartial ==
  /\ exists /\ partial # <<>>
  /\ Take(Head(partial), slab[Head(partial)], partial)
  /\ UNCHANGED <<empty, pages, total_objs, active_slabs, total_slabs>>

AllocFromEmpty ==
  /\ exists /\ partial = <<>> /\ empty # <<>>
  /\ Take(Head(empty), slab[Head(empty)], <<Head(empty)>>)
  /\ empty' = Tail(empty)
  /\ active_slabs' = active_slabs + 1
  /\ UNCHANGED <<pages, total_objs, total_slabs>>

\* slab_create; when the PMM has no pages the call fails and changes nothing.
AllocFromNew ==
  /\ exists /\ partial = <<>> /\ empty = <<>>
  /\ \E s \in Slabs \ pages :
       /\ Take(s, Fresh, <<s>>)
       /\ pages' = pages \cup {s}
  /\ active_slabs' = active_slabs + 1
  /\ total_slabs' = total_slabs + 1
  /\ total_objs' = total_objs + objects_per_slab
  /\ UNCHANGED empty

-----------------------------------------------------------------------------
(* kmem_cache_free. *)

\* The header of s after object i joined the free list.
LinkFirst(s, i) ==
  [slab[s] EXCEPT !.num_free = @ + 1, !.freelist_head = i,
                  !.freelist[i] = slab[s].freelist_head]

\* Every free: the object is found in a full or a partial slab.
Return(s, i) ==
  /\ exists
  /\ s \in Range(full) \cup Range(partial)
  /\ active_objs' = active_objs - 1
  /\ held' = held \ {<<s, i>>}
  /\ UNCHANGED <<exists, noreap>>

\* The list without its link k.
Spliced(list, k) == SubSeq(list, 1, k - 1) \o SubSeq(list, k + 1, Len(list))

\* SLAB_LIST_REMOVE: the link of s leaves the list it is on.
Unlink(list, s) ==
  IF s \in Range(list) THEN Spliced(list, CHOOSE k \in DOMAIN list : list[k] = s)
                       ELSE list

\* Mutant: the slab stays on the full list.
FreeOfFullStays(s, i) ==
  /\ Return(s, i)
  /\ slab[s].num_free + 1 = 1
  /\ slab' = [slab EXCEPT ![s] = LinkFirst(s, i)]
  /\ UNCHANGED <<lists, pages, total_objs, active_slabs, total_slabs>>

\* num_free = 1: a slab of the full list becomes a partial one.  This is
\* tested first, also for a slab of one object, which is then empty.
FreeOfFull(s, i) ==
  /\ Return(s, i)
  /\ slab[s].num_free + 1 = 1
  /\ slab' = [slab EXCEPT ![s] = LinkFirst(s, i)]
  /\ IF s \in Range(full)
     THEN full' = Unlink(full, s) /\ partial' = <<s>> \o partial
     ELSE UNCHANGED <<full, partial>>
  /\ UNCHANGED <<empty, pages, total_objs, active_slabs, total_slabs>>

FreeOfPartial(s, i) ==
  /\ Return(s, i)
  /\ slab[s].num_free + 1 \notin {1, objects_per_slab}
  /\ slab' = [slab EXCEPT ![s] = LinkFirst(s, i)]
  /\ UNCHANGED <<lists, pages, total_objs, active_slabs, total_slabs>>

\* Mutant: reaping takes the head of the partial list.
ReapedPartial(empties) ==
  IF noreap \/ Len(empties) < 2 \/ partial = <<>> THEN {} ELSE {Head(partial)}

\* Of two empty slabs the second is given back, unless KMEM_CACHE_NOREAP.
Reaped(empties) == IF noreap \/ Len(empties) < 2 THEN {} ELSE {empties[2]}

\* The memory of the slabs in gone returns to the PMM.
slab_destroy(gone) ==
  /\ pages' = pages \ gone
  /\ total_slabs' = total_slabs - Cardinality(gone)
  /\ total_objs' = total_objs - objects_per_slab * Cardinality(gone)

\* The slab became empty.
FreeOfLast(s, i) ==
  LET empties == <<s>> \o empty
      gone == Reaped(empties)
  IN /\ Return(s, i)
     /\ slab[s].num_free + 1 = objects_per_slab /\ objects_per_slab # 1
     /\ slab_destroy(gone)
     /\ slab' = [x \in Slabs |-> IF x \in gone THEN Fresh
                                 ELSE IF x = s THEN LinkFirst(s, i) ELSE slab[x]]
     /\ full' = Unlink(full, s) /\ partial' = Unlink(partial, s)
     /\ empty' = IF gone = {} THEN empties ELSE Spliced(empties, 2)
     /\ active_slabs' = active_slabs - 1

\* Callers free objects they hold.
kmem_cache_free ==
  \E obj \in held :
    \/ FreeOfFull(obj[1], obj[2])
    \/ FreeOfPartial(obj[1], obj[2])
    \/ FreeOfLast(obj[1], obj[2])

Next ==
  \/ kmem_cache_create \/ kmem_cache_destroy
  \/ AllocFromPartial \/ AllocFromEmpty \/ AllocFromNew
  \/ kmem_cache_free

Spec == Init /\ [][Next]_vars

-----------------------------------------------------------------------------
(* Properties. *)

HeldIn(s) == {i \in Index : <<s, i>> \in held}

\* Following a slab's free list from its head meets every object that no one
\* holds, once, and none that someone does, and then the end marker, after
\* num_free steps; whatever order objects were taken and returned in.  So no
\* object is given out twice and none is lost.
FreelistExact ==
  \A s \in pages :
    LET b == slab[s]
        steps == 0 .. b.num_free - 1
    IN /\ b.num_free = Cardinality(Index \ HeldIn(s))
       /\ \E walk \in [0 .. b.num_free -> Index \cup {END}] :
            /\ walk[0] = b.freelist_head /\ walk[b.num_free] = END
            /\ {walk[k] : k \in steps} = Index \ HeldIn(s)
            /\ \A k \in steps : walk[k + 1] = b.freelist[walk[k]]
            /\ \A j, k \in steps : walk[j] = walk[k] => j = k

\* A slab is on one list, once, and on the one its use calls for.  Allocation
\* relies on it to find a free object at the head of the partial list, and
\* freeing to find the object, as it does not search the empty list.  (A slab
\* of one object is the exception: freed, it stays partial and is never empty.)
ListsByUse ==
  /\ IsInjective(full \o partial \o empty)
  /\ \A s \in Range(full) : slab[s].num_free = 0
  /\ \A s \in Range(partial) : /\ slab[s].num_free > 0
                                /\ objects_per_slab > 1 => slab[s].num_free < objects_per_slab
  /\ \A s \in Range(empty) : slab[s].num_free = objects_per_slab

\* The cache has the memory of the slabs on its lists and no other, every object
\* someone holds lies in it, and the statistics count both: over any order of
\* frees in several slabs, reaping gives back no slab in use and loses none.
\* (active_slabs is the "Number of slabs with allocated objects" of slab.h,
\* unless slabs have one object, when one that is freed still counts.)
MemoryExact ==
  /\ pages = Range(full \o partial \o empty)
  /\ \A obj \in held : obj[1] \in pages
  /\ active_objs = Cardinality(held)
  /\ total_slabs = Cardinality(pages)
  /\ total_objs = objects_per_slab * Cardinality(pages)
  /\ objects_per_slab > 1 => active_slabs = Cardinality({s \in pages : HeldIn(s) # {}})
=============================================================================
