----------------------------- MODULE SlabProofs -----------------------------
(***************************************************************************)
(* The lists, the free lists and the counters of a slab cache are right    *)
(* for every number of slabs and of objects in a slab                      *)
(* (kernel/memory/slab.c).                                                 *)
(***************************************************************************)
EXTENDS Slab, ListLemmas, FiniteSetTheorems

-----------------------------------------------------------------------------
(* Lists. *)

\* Unlink takes exactly s off the list, if it is on it.
LEMMA UnlinkOne ==
  ASSUME NEW S, NEW list, Distinct(list, S), NEW s
  PROVE  /\ Distinct(Unlink(list, s), S)
         /\ Range(Unlink(list, s)) = Range(list) \ {s}
<1>1. CASE s \in Range(list)
  <2> DEFINE k == CHOOSE k \in DOMAIN list : list[k] = s
  <2>1. k \in DOMAIN list /\ list[k] = s
    BY <1>1 DEF Range
  <2> QED BY <1>1, <2>1, RemoveLink DEF Unlink, Spliced
<1>2. CASE s \notin Range(list)
  BY <1>2 DEF Unlink
<1> QED BY <1>1, <1>2

-----------------------------------------------------------------------------
(* The free list of one slab. *)

Header == [num_free : 0 .. objects_per_slab, freelist_head : Index \cup {END},
           freelist : [Index -> Index \cup {END}]]

\* walk lists the objects of the free list of header b, in order.
Walk(walk, b, free) ==
  /\ walk \in [0 .. b.num_free -> Index \cup {END}]
  /\ walk[0] = b.freelist_head /\ walk[b.num_free] = END
  /\ {walk[k] : k \in 0 .. b.num_free - 1} = free
  /\ \A k \in 0 .. b.num_free - 1 : walk[k + 1] = b.freelist[walk[k]]
  /\ \A j, k \in 0 .. b.num_free - 1 : walk[j] = walk[k] => j = k

\* The free list of header b holds exactly the objects of free.
Lists(b, free) == b.num_free = Cardinality(free) /\ \E walk : Walk(walk, b, free)

LEMMA FreelistExactIsLists ==
  FreelistExact <=> \A s \in pages : Lists(slab[s], Index \ HeldIn(s))
  BY DEF FreelistExact, Lists, Walk

LEMMA IndexFinite ==
  /\ IsFiniteSet(Index) /\ Cardinality(Index) = objects_per_slab
  /\ END \notin Index
  /\ \A free \in SUBSET Index : IsFiniteSet(free) /\ Cardinality(free) \in 0 .. objects_per_slab
<1>1. IsFiniteSet(Index) /\ Cardinality(Index) = objects_per_slab
  BY FS_Interval, SlabAssumption DEF Index
<1>2. \A free \in SUBSET Index : IsFiniteSet(free) /\ Cardinality(free) <= objects_per_slab
  BY <1>1, FS_Subset
<1>3. \A free \in SUBSET Index : Cardinality(free) \in Nat
  BY <1>2, FS_CardinalityType
<1> QED
  BY <1>1, <1>2, <1>3, SlabAssumption DEF Index, END

\* slab_create threads the list through all objects.
LEMMA FreshLists == Fresh \in Header /\ Lists(Fresh, Index)
<1> DEFINE n == objects_per_slab
<1>w. PICK walk : walk = [k \in 0 .. n |-> IF k = n THEN END ELSE k]
  OBVIOUS
<1>1. n \in Nat \ {0}
  BY SlabAssumption
<1>2. /\ Fresh \in Header /\ Fresh.num_free = n /\ Fresh.freelist_head = 0
      /\ Fresh.freelist = [i \in Index |-> IF i = n - 1 THEN END ELSE i + 1]
  BY <1>1 DEF Fresh, Header, Index, END
<1>3. Walk(walk, Fresh, Index)
  <2>1. walk \in [0 .. n -> Index \cup {END}] /\ walk[0] = 0 /\ walk[n] = END
    BY <1>1, <1>w DEF Index
  <2>2. \A k \in 0 .. n - 1 : walk[k] = k /\ k \in Index
    BY <1>1, <1>w DEF Index
  <2>3. {walk[k] : k \in 0 .. n - 1} = Index
    BY <2>2 DEF Index
  <2>4. \A k \in 0 .. n - 1 : walk[k + 1] = Fresh.freelist[walk[k]]
    <3> SUFFICES ASSUME NEW k \in 0 .. n - 1
                 PROVE  walk[k + 1] = Fresh.freelist[walk[k]]
      OBVIOUS
    <3>1. walk[k + 1] = IF k + 1 = n THEN END ELSE k + 1
      BY <1>1, <1>w
    <3>2. Fresh.freelist[k] = IF k = n - 1 THEN END ELSE k + 1
      BY <1>2, <2>2
    <3>3. k + 1 = n <=> k = n - 1
      BY <1>1
    <3> QED BY <2>2, <3>1, <3>2, <3>3
  <2> QED
    BY <1>2, <2>1, <2>2, <2>3, <2>4 DEF Walk
<1> QED
  BY <1>2, <1>3, IndexFinite DEF Lists

\* kmem_cache_alloc takes the first object of the list, which no one holds.
LEMMA UnlinkFirstLists ==
  ASSUME NEW b \in Header, NEW free \in SUBSET Index, Lists(b, free), b.num_free > 0
  PROVE  /\ b.freelist_head \in free
         /\ UnlinkFirst(b) \in Header
         /\ UnlinkFirst(b).num_free = b.num_free - 1
         /\ Lists(UnlinkFirst(b), free \ {b.freelist_head})
<1> DEFINE n == b.num_free
           h == b.freelist_head
<1>1. PICK walk : Walk(walk, b, free)
  BY DEF Lists
<1>2. /\ n \in Nat /\ n \in 1 .. objects_per_slab /\ walk[0] = h /\ walk[n] = END
      /\ \A k \in 0 .. n - 1 : walk[k] \in free
      /\ objects_per_slab \in Nat
  BY <1>1, SlabAssumption DEF Walk, Header
<1>3. h \in free /\ h \in Index
  BY <1>2
<1>r. PICK c, rest : c = UnlinkFirst(b) /\ rest = [k \in 0 .. n - 1 |-> walk[k + 1]]
  OBVIOUS
<1>4. /\ c.num_free = n - 1 /\ c.freelist_head = b.freelist[h] /\ c.freelist = b.freelist
      /\ c \in Header
  <2>1. b.freelist[h] \in Index \cup {END} /\ n - 1 \in 0 .. objects_per_slab
    BY <1>2, <1>3 DEF Header
  <2>2. c = [num_free |-> n - 1, freelist_head |-> b.freelist[h], freelist |-> b.freelist]
    BY <1>r DEF UnlinkFirst, Header
  <2>3. b.freelist \in [Index -> Index \cup {END}]
    BY DEF Header
  <2> QED BY <2>1, <2>2, <2>3 DEF Header
<1>5. Walk(rest, c, free \ {h})
  <2>0. /\ \A k \in 0 .. n - 1 : rest[k] = walk[k + 1] /\ k + 1 \in 0 .. n
        /\ \A k \in 0 .. n - 2 : k \in 0 .. n - 1 /\ k + 1 \in 0 .. n - 1 /\ k + 1 # 0
        /\ 0 \in 0 .. n - 1 /\ n - 1 \in 0 .. n - 1 /\ (n - 1) + 1 = n /\ 0 + 1 = 1
        /\ DOMAIN rest = 0 .. n - 1
    BY <1>2, <1>r
  <2>a. /\ walk \in [0 .. n -> Index \cup {END}]
        /\ {walk[k] : k \in 0 .. n - 1} = free
        /\ \A k \in 0 .. n - 1 : walk[k + 1] = b.freelist[walk[k]]
        /\ \A j, k \in 0 .. n - 1 : walk[j] = walk[k] => j = k
    BY <1>1 DEF Walk
  <2>1. /\ rest \in [0 .. n - 1 -> Index \cup {END}]
        /\ rest[0] = c.freelist_head /\ rest[n - 1] = END
    BY <1>2, <1>r, <1>4, <2>0, <2>a
  <2>2. {rest[k] : k \in 0 .. n - 2} = free \ {h}
    <3>1. ASSUME NEW k \in 0 .. n - 2 PROVE rest[k] \in free \ {h}
      <4>1. rest[k] = walk[k + 1] /\ k + 1 \in 0 .. n - 1 /\ k + 1 # 0
        BY <2>0
      <4>2. walk[k + 1] # walk[0]
        BY <2>0, <2>a, <4>1
      <4> QED BY <1>2, <4>1, <4>2
    <3>2. ASSUME NEW i \in free \ {h} PROVE \E k \in 0 .. n - 2 : rest[k] = i
      <4>1. PICK k \in 0 .. n - 1 : walk[k] = i
        BY <1>1 DEF Walk
      <4>2. k # 0
        BY <1>2, <4>1
      <4>3. k - 1 \in 0 .. n - 2 /\ (k - 1) + 1 = k /\ k - 1 \in 0 .. n - 1
        BY <1>2, <4>2
      <4>4. rest[k - 1] = walk[k]
        BY <1>r, <4>3
      <4> QED BY <4>1, <4>3, <4>4
    <3> QED BY <3>1, <3>2
  <2>3. \A k \in 0 .. n - 2 : rest[k + 1] = c.freelist[rest[k]]
    BY <1>4, <2>0, <2>a
  <2>4. \A j, k \in 0 .. n - 2 : rest[j] = rest[k] => j = k
    <3> SUFFICES ASSUME NEW j \in 0 .. n - 2, NEW k \in 0 .. n - 2, rest[j] = rest[k]
                 PROVE  j = k
      OBVIOUS
    <3>1. j + 1 = k + 1
      BY <2>0, <2>a
    <3> QED BY <3>1
  <2>5. c.num_free - 1 = n - 2
    BY <1>2, <1>4
  <2> QED BY <1>4, <2>1, <2>2, <2>3, <2>4, <2>5 DEF Walk
<1>6. Cardinality(free \ {h}) = n - 1
  BY <1>3, IndexFinite, FS_RemoveElement DEF Lists
<1> QED
  BY <1>3, <1>4, <1>5, <1>6, <1>r DEF Lists

\* kmem_cache_free puts an object that is not on the list before its first.
LEMMA LinkFirstLists ==
  ASSUME NEW s \in Slabs, slab \in [Slabs -> Header],
         NEW free \in SUBSET Index, Lists(slab[s], free), NEW i \in Index \ free
  PROVE  /\ LinkFirst(s, i) \in Header
         /\ LinkFirst(s, i).num_free = slab[s].num_free + 1
         /\ slab[s].num_free < objects_per_slab
         /\ Lists(LinkFirst(s, i), free \cup {i})
<1> DEFINE b == slab[s]
           n == b.num_free
<1>1. PICK walk : Walk(walk, b, free)
  BY DEF Lists
<1>m. PICK c, more : /\ c = LinkFirst(s, i)
                     /\ more = [k \in 0 .. n + 1 |-> IF k = 0 THEN i ELSE walk[k - 1]]
  OBVIOUS
<1>2. Cardinality(free \cup {i}) = n + 1 /\ n + 1 \in 0 .. objects_per_slab
  <2>1. Cardinality(free \cup {i}) = n + 1
    BY IndexFinite, FS_AddElement DEF Lists
  <2>2. free \cup {i} \in SUBSET Index
    OBVIOUS
  <2> QED BY <2>1, <2>2, IndexFinite
<1>3. /\ n \in Nat /\ walk[0] = b.freelist_head /\ walk[n] = END
      /\ \A k \in 0 .. n - 1 : walk[k] \in free
      /\ objects_per_slab \in Nat /\ b \in Header
  BY <1>1, SlabAssumption DEF Walk, Header
<1>4. /\ c.num_free = n + 1 /\ c.freelist_head = i
      /\ c.freelist = [b.freelist EXCEPT ![i] = b.freelist_head]
      /\ c \in Header
  BY <1>2, <1>3, <1>m DEF LinkFirst, Header
<1>5. Walk(more, c, free \cup {i})
  <2>1. /\ more \in [0 .. n + 1 -> Index \cup {END}]
        /\ more[0] = c.freelist_head /\ more[n + 1] = END
    BY <1>1, <1>3, <1>m, <1>4 DEF Walk
  <2>2. \A k \in 1 .. n : more[k] = walk[k - 1] /\ k - 1 \in 0 .. n - 1
    BY <1>3, <1>m
  <2>3. {more[k] : k \in 0 .. n} = free \cup {i}
    <3>1. \A k \in 0 .. n : more[k] \in free \cup {i}
      BY <1>3, <1>m, <2>2
    <3>2. \E k \in 0 .. n : more[k] = i
      BY <1>3, <1>m
    <3>3. ASSUME NEW j \in free PROVE \E k \in 0 .. n : more[k] = j
      <4>1. PICK k \in 0 .. n - 1 : walk[k] = j
        BY <1>1 DEF Walk
      <4>2. k + 1 \in 0 .. n /\ k + 1 \in 1 .. n /\ (k + 1) - 1 = k
        BY <1>3, <1>m
      <4> QED BY <2>2, <4>1, <4>2
    <3> QED BY <3>1, <3>2, <3>3
  <2>4. ASSUME NEW k \in 0 .. n PROVE more[k + 1] = c.freelist[more[k]]
    <3>1. CASE k = 0
      BY <1>3, <1>m, <1>4, <3>1 DEF Header
    <3>2. CASE k # 0
      <4>1. k \in 1 .. n /\ k + 1 \in 0 .. n + 1 /\ (k + 1) - 1 = k /\ k - 1 \in 0 .. n - 1
        BY <1>3, <1>m, <3>2
      <4>2. more[k + 1] = walk[k] /\ more[k] = walk[k - 1]
        BY <1>3, <1>m, <4>1
      <4>3. walk[(k - 1) + 1] = b.freelist[walk[k - 1]] /\ (k - 1) + 1 = k
        BY <1>1, <4>1 DEF Walk
      <4>4. walk[k - 1] # i /\ walk[k - 1] \in Index
        BY <1>3, <1>m, <4>1
      <4>5. c.freelist[walk[k - 1]] = b.freelist[walk[k - 1]]
        BY <1>3, <1>m, <1>4, <4>4 DEF Header
      <4> QED BY <4>2, <4>3, <4>5
    <3> QED BY <3>1, <3>2
  <2>5. ASSUME NEW j \in 0 .. n, NEW k \in 0 .. n, more[j] = more[k]
        PROVE  j = k
    <3>1. \A m \in 1 .. n : more[m] # i
      BY <1>3, <1>m, <2>2
    <3>2. more[0] = i
      BY <1>3, <1>m
    <3>3. CASE j = 0 \/ k = 0
      BY <1>3, <1>m, <2>5, <3>1, <3>2, <3>3
    <3>4. CASE j # 0 /\ k # 0
      <4>1. j \in 1 .. n /\ k \in 1 .. n
        BY <1>3, <1>m, <3>4
      <4>2. j - 1 = k - 1
        BY <1>1, <2>2, <2>5, <4>1 DEF Walk
      <4> QED BY <4>1, <4>2
    <3> QED BY <3>3, <3>4
  <2>6. c.num_free - 1 = n
    BY <1>3, <1>4
  <2> QED BY <1>4, <2>1, <2>3, <2>4, <2>5, <2>6 DEF Walk
<1>6. n < objects_per_slab
  BY <1>2, <1>3
<1> QED
  BY <1>2, <1>4, <1>5, <1>6, <1>m DEF Lists

-----------------------------------------------------------------------------
(* The inductive invariant. *)

TypeOK ==
  /\ exists \in BOOLEAN /\ noreap \in BOOLEAN
  /\ slab \in [Slabs -> Header]
  /\ pages \in SUBSET Slabs
  /\ held \in SUBSET (Slabs \X Index)

\* No list has a slab twice and no slab is on two lists; the lists have the
\* slabs of the cache.
ListsApart ==
  /\ Distinct(full, Slabs) /\ Distinct(partial, Slabs) /\ Distinct(empty, Slabs)
  /\ Range(full) \cap Range(partial) = {}
  /\ Range(full) \cap Range(empty) = {}
  /\ Range(partial) \cap Range(empty) = {}
  /\ pages = Range(full) \cup Range(partial) \cup Range(empty)

\* The use of a slab decides its list.
Uses ==
  /\ \A s \in Range(full) : slab[s].num_free = 0
  /\ \A s \in Range(partial) : /\ slab[s].num_free > 0
                               /\ objects_per_slab > 1 => slab[s].num_free < objects_per_slab
  /\ \A s \in Range(empty) : slab[s].num_free = objects_per_slab

Threaded == \A s \in pages : Lists(slab[s], Index \ HeldIn(s))

\* The counters.  Also for slabs of one object, active_slabs counts the slabs
\* that are not on the empty list.
Counts ==
  /\ \A obj \in held : obj[1] \in pages
  /\ IsFiniteSet(held) /\ active_objs = Cardinality(held)
  /\ total_slabs = Cardinality(pages)
  /\ total_objs = objects_per_slab * Cardinality(pages)
  /\ active_slabs = Cardinality(Range(full) \cup Range(partial))

IInv == TypeOK /\ ListsApart /\ Uses /\ Threaded /\ Counts

\* Every set of slabs is finite.
LEMMA SlabsFinite ==
  ASSUME NEW S \in SUBSET Slabs
  PROVE  IsFiniteSet(S) /\ Cardinality(S) \in Nat
  BY SlabAssumption, FS_Subset, FS_CardinalityType

\* A slab with some objects free and some held is on the partial list.
LEMMA PartialByUse ==
  ASSUME IInv, NEW s \in pages, slab[s].num_free # 0, slab[s].num_free # objects_per_slab
  PROVE  s \in Range(partial) /\ s \notin Range(full) /\ s \notin Range(empty)
  BY DEF IInv, Uses, ListsApart

\* A slab has a held object unless all of its objects are free.
LEMMA HeldUnlessAllFree ==
  ASSUME IInv, NEW s \in pages
  PROVE  HeldIn(s) # {} <=> slab[s].num_free # objects_per_slab
<1>1. slab[s].num_free = Cardinality(Index \ HeldIn(s)) /\ HeldIn(s) \subseteq Index
  BY DEF IInv, Threaded, Lists, HeldIn
<1>2. CASE HeldIn(s) = {}
  BY <1>1, <1>2, IndexFinite
<1>3. ASSUME NEW i \in HeldIn(s) PROVE slab[s].num_free # objects_per_slab
  <2>1. IsFiniteSet(Index \ {i}) /\ Cardinality(Index \ {i}) = objects_per_slab - 1
    BY <1>1, IndexFinite, FS_RemoveElement
  <2>2. Cardinality(Index \ HeldIn(s)) <= objects_per_slab - 1
    BY <2>1, FS_Subset
  <2>3. Cardinality(Index \ HeldIn(s)) \in Nat
    BY IndexFinite
  <2> QED BY <1>1, <2>2, <2>3, SlabAssumption
<1> QED BY <1>2, <1>3

\* The invariant implies the properties the runs check.
LEMMA IInvImplies == IInv => FreelistExact /\ ListsByUse /\ MemoryExact
<1> SUFFICES ASSUME IInv PROVE FreelistExact /\ ListsByUse /\ MemoryExact
  OBVIOUS
<1>1. FreelistExact
  BY FreelistExactIsLists DEF IInv, Threaded
<1>2. PICK all : all = full \o partial \o empty
  OBVIOUS
<1>3. IsInjective(all) /\ Range(all) = pages
  <2>1. /\ Distinct(full \o partial, Slabs)
        /\ Range(full \o partial) = Range(full) \cup Range(partial)
    <3>1. Distinct(full, Slabs) /\ Distinct(partial, Slabs) /\ Range(full) \cap Range(partial) = {}
      BY DEF IInv, ListsApart
    <3>2. PICK f, p : f = full /\ p = partial
      OBVIOUS
    <3>3. Distinct(f \o p, Slabs) /\ Range(f \o p) = Range(f) \cup Range(p)
      BY <3>1, <3>2, Append2
    <3> QED BY <3>2, <3>3
  <2>2. PICK fp : fp = full \o partial
    OBVIOUS
  <2>3. Range(fp) \cap Range(empty) = {} /\ Distinct(fp, Slabs) /\ Distinct(empty, Slabs)
    BY <2>1, <2>2 DEF IInv, ListsApart
  <2>4. Distinct(fp \o empty, Slabs) /\ Range(fp \o empty) = Range(fp) \cup Range(empty)
    BY <2>3, Append2
  <2> QED BY <1>2, <2>1, <2>2, <2>4 DEF IInv, ListsApart, Distinct
<1>4. ListsByUse
  BY <1>2, <1>3 DEF ListsByUse, IInv, Uses
<1>5. ASSUME objects_per_slab > 1
      PROVE  {s \in pages : HeldIn(s) # {}} = Range(full) \cup Range(partial)
  <2>1. \A s \in pages : HeldIn(s) # {} <=> slab[s].num_free # objects_per_slab
    BY HeldUnlessAllFree
  <2>2. \A s \in pages : slab[s].num_free \in Nat
    BY DEF IInv, TypeOK, Header
  <2> QED BY <1>5, <2>1, <2>2, SlabAssumption DEF IInv, Uses, ListsApart
<1>6. MemoryExact
  BY <1>2, <1>3, <1>5 DEF MemoryExact, IInv, Counts
<1> QED BY <1>1, <1>4, <1>6

-----------------------------------------------------------------------------
(* Allocation. *)

\* What Take does, whichever list the slab comes from: the slab with header b
\* heads the list partials, and the other slabs are left alone.
LEMMA TakeOne ==
  ASSUME TypeOK, NEW s \in Slabs, NEW b \in Header, NEW partials,
         Distinct(full, Slabs), Distinct(partials, Slabs),
         Range(full) \cap Range(partials) = {},
         partials # <<>>, Head(partials) = s,
         Lists(b, Index \ HeldIn(s)), IsFiniteSet(held),
         objects_per_slab > 1 => b.num_free <= objects_per_slab,
         Take(s, b, partials)
  PROVE  /\ TypeOK' \/ pages' \notin SUBSET Slabs
         /\ Distinct(full, Slabs)' /\ Distinct(partial, Slabs)'
         /\ Range(full') \cap Range(partial') = {}
         /\ Range(full') \cup Range(partial') = Range(full) \cup Range(partials)
         /\ \A x \in Slabs : x # s => slab'[x] = slab[x] /\ HeldIn(x)' = HeldIn(x)
         /\ s \in Range(full') => slab'[s].num_free = 0
         /\ s \in Range(partial') => /\ slab'[s].num_free > 0
                                     /\ slab'[s].num_free < objects_per_slab
         /\ \A x \in Slabs : x # s => /\ x \in Range(full') <=> x \in Range(full)
                                      /\ x \in Range(partial') <=> x \in Range(partials)
         /\ Lists(slab'[s], Index \ HeldIn(s)')
         /\ \A obj \in held' : obj \in held \/ obj[1] = s
         /\ IsFiniteSet(held') /\ Cardinality(held') = Cardinality(held) + 1
<1> DEFINE h == b.freelist_head
<1>1. /\ h \in Index \ HeldIn(s) /\ UnlinkFirst(b) \in Header
      /\ UnlinkFirst(b).num_free = b.num_free - 1
      /\ Lists(UnlinkFirst(b), (Index \ HeldIn(s)) \ {h})
  BY UnlinkFirstLists DEF Take
<1>2. /\ slab' \in [Slabs -> Header] /\ slab'[s] = UnlinkFirst(b)
      /\ \A x \in Slabs : x # s => slab'[x] = slab[x]
  BY <1>1 DEF Take, TypeOK
<1>3. held' = held \cup {<<s, h>>} /\ held' \in SUBSET (Slabs \X Index)
  BY <1>1 DEF Take, TypeOK
<1>4. /\ HeldIn(s)' = HeldIn(s) \cup {h}
      /\ \A x \in Slabs : x # s => HeldIn(x)' = HeldIn(x)
  BY <1>1, <1>3 DEF HeldIn
<1>5. Lists(slab'[s], Index \ HeldIn(s)')
  <2>1. (Index \ HeldIn(s)) \ {h} = Index \ HeldIn(s)'
    BY <1>4
  <2> QED BY <1>1, <1>2, <2>1
<1>6. IsFiniteSet(held') /\ Cardinality(held') = Cardinality(held) + 1
  <2>1. <<s, h>> \notin held
    BY <1>1 DEF HeldIn
  <2> QED BY <1>3, <2>1, FS_AddElement
<1>7. s \in Range(partials) /\ s \notin Range(full)
      /\ Distinct(Tail(partials), Slabs) /\ Range(Tail(partials)) = Range(partials) \ {s}
  BY RemoveHead
<1>8. b.num_free \in Nat /\ b.num_free > 0 /\ b.num_free <= objects_per_slab
  BY SlabAssumption DEF Take, Header
<1>9. /\ Distinct(full', Slabs) /\ Distinct(partial', Slabs)
      /\ Range(full') \cap Range(partial') = {}
      /\ Range(full') \cup Range(partial') = Range(full) \cup Range(partials)
      /\ s \in Range(full') => slab'[s].num_free = 0
      /\ s \in Range(partial') => /\ slab'[s].num_free > 0
                                  /\ slab'[s].num_free < objects_per_slab
      /\ \A x \in Slabs : x # s => /\ x \in Range(full') <=> x \in Range(full)
                                   /\ x \in Range(partial') <=> x \in Range(partials)
  <2>1. CASE b.num_free = 1
    <3>1. full' = <<s>> \o full /\ partial' = Tail(partials)
      BY <2>1 DEF Take
    <3>2. Distinct(<<s>> \o full, Slabs) /\ Range(<<s>> \o full) = Range(full) \cup {s}
      BY <1>7, InsertHead
    <3>3. slab'[s].num_free = 0
      BY <1>1, <1>2, <2>1
    <3> QED BY <1>7, <3>1, <3>2, <3>3
  <2>2. CASE b.num_free # 1
    <3>1. full' = full /\ partial' = partials
      BY <2>2 DEF Take
    <3>2. slab'[s].num_free > 0 /\ slab'[s].num_free < objects_per_slab
      BY <1>1, <1>2, <1>8, <2>2, SlabAssumption
    <3> QED BY <1>7, <3>1, <3>2
  <2> QED BY <2>1, <2>2
<1>10. TypeOK' \/ pages' \notin SUBSET Slabs
  BY <1>2, <1>3 DEF TypeOK, Take
<1>11. \A obj \in held' : obj \in held \/ obj[1] = s
  BY <1>3
<1> QED
  BY <1>2, <1>4, <1>5, <1>6, <1>9, <1>10, <1>11 DEF Distinct

\* The parts of the invariant that follow once a Take is described.
LEMMA AllocKeeps ==
  ASSUME IInv, NEW s \in Slabs, NEW b \in Header, NEW partials,
         Distinct(partials, Slabs), partials # <<>>, Head(partials) = s,
         Range(full) \cap Range(partials) = {},
         Lists(b, Index \ HeldIn(s)), Take(s, b, partials),
         \A x \in Range(partials) : x = s \/ x \in Range(partial),
         Distinct(empty', Slabs), Range(empty') \subseteq Range(empty),
         Range(empty') \cap (Range(full) \cup Range(partials)) = {},
         pages' = Range(full) \cup Range(partials) \cup Range(empty'),
         pages' = pages \cup {s},
         total_slabs' = Cardinality(pages'),
         total_objs' = objects_per_slab * Cardinality(pages'),
         active_slabs' = Cardinality(Range(full) \cup Range(partials))
  PROVE  IInv'
<1>1. /\ TypeOK' \/ pages' \notin SUBSET Slabs
      /\ Distinct(full, Slabs)' /\ Distinct(partial, Slabs)'
      /\ Range(full') \cap Range(partial') = {}
      /\ Range(full') \cup Range(partial') = Range(full) \cup Range(partials)
      /\ \A x \in Slabs : x # s => slab'[x] = slab[x] /\ HeldIn(x)' = HeldIn(x)
      /\ s \in Range(full') => slab'[s].num_free = 0
      /\ s \in Range(partial') => /\ slab'[s].num_free > 0
                                  /\ slab'[s].num_free < objects_per_slab
      /\ \A x \in Slabs : x # s => /\ x \in Range(full') <=> x \in Range(full)
                                   /\ x \in Range(partial') <=> x \in Range(partials)
      /\ Lists(slab'[s], Index \ HeldIn(s)')
      /\ \A obj \in held' : obj \in held \/ obj[1] = s
      /\ IsFiniteSet(held') /\ Cardinality(held') = Cardinality(held) + 1
  <2>1. TypeOK /\ Distinct(full, Slabs) /\ IsFiniteSet(held)
    BY DEF IInv, ListsApart, Counts
  <2>2. objects_per_slab > 1 => b.num_free <= objects_per_slab
    BY SlabAssumption DEF Header
  <2> QED BY <2>1, <2>2, TakeOne
<1>2. pages' \in SUBSET Slabs /\ s \in pages'
  BY DEF IInv, TypeOK
<1>3. TypeOK'
  BY <1>1, <1>2
<1>4. ListsApart'
  BY <1>1 DEF ListsApart
<1>5. Uses'
  <2>1. \A x \in Range(full') \cup Range(partial') \cup Range(empty') : x \in Slabs
    BY <1>2, <1>4 DEF ListsApart
  <2>2. s \notin Range(empty')
    BY RemoveHead
  <2>3. \A x \in Range(full') : slab'[x].num_free = 0
    BY <1>1, <2>1 DEF Uses, IInv
  <2>4. \A x \in Range(partial') :
          /\ slab'[x].num_free > 0
          /\ objects_per_slab > 1 => slab'[x].num_free < objects_per_slab
    BY <1>1, <2>1 DEF Uses, IInv
  <2>5. \A x \in Range(empty') : slab'[x].num_free = objects_per_slab
    BY <1>1, <2>1, <2>2 DEF Uses, IInv
  <2> QED BY <2>3, <2>4, <2>5 DEF Uses
<1>6. Threaded'
  <2>1. \A x \in pages' : x \in Slabs /\ (x = s \/ x \in pages)
    BY <1>2
  <2> QED BY <1>1, <2>1 DEF Threaded, IInv
<1>7. Counts'
  BY <1>1 DEF Counts, IInv, Take
<1> QED BY <1>3, <1>4, <1>5, <1>6, <1>7 DEF IInv

LEMMA AllocFromPartialKeeps == IInv /\ AllocFromPartial => IInv'
<1> SUFFICES ASSUME IInv, AllocFromPartial PROVE IInv'
  OBVIOUS
<1> DEFINE s == Head(partial)
<1>1. /\ Distinct(partial, Slabs) /\ partial # <<>>
      /\ Range(full) \cap Range(partial) = {}
  BY DEF AllocFromPartial, IInv, ListsApart
<1>2. s \in Slabs /\ s \in Range(partial) /\ s \in pages
  BY <1>1, RemoveHead DEF IInv, ListsApart
<1>3. slab[s] \in Header /\ Lists(slab[s], Index \ HeldIn(s))
  BY <1>2 DEF IInv, TypeOK, Threaded
<1>4. /\ empty' = empty /\ pages' = pages /\ total_objs' = total_objs
      /\ active_slabs' = active_slabs /\ total_slabs' = total_slabs
      /\ Take(s, slab[s], partial)
  BY DEF AllocFromPartial
<1>5. /\ Distinct(empty', Slabs) /\ Range(empty') \subseteq Range(empty)
      /\ Range(empty') \cap (Range(full) \cup Range(partial)) = {}
      /\ pages' = Range(full) \cup Range(partial) \cup Range(empty')
      /\ pages' = pages \cup {s}
  BY <1>2, <1>4 DEF IInv, ListsApart
<1>6. /\ total_slabs' = Cardinality(pages')
      /\ total_objs' = objects_per_slab * Cardinality(pages')
      /\ active_slabs' = Cardinality(Range(full) \cup Range(partial))
  BY <1>4 DEF IInv, Counts
<1> HIDE DEF s
<1> QED
  BY <1>1, <1>2, <1>3, <1>4, <1>5, <1>6, AllocKeeps DEF s

LEMMA AllocFromEmptyKeeps == IInv /\ AllocFromEmpty => IInv'
<1> SUFFICES ASSUME IInv, AllocFromEmpty PROVE IInv'
  OBVIOUS
<1>s. PICK s : s = Head(empty)
  OBVIOUS
<1>1. /\ Distinct(empty, Slabs) /\ empty # <<>> /\ partial = <<>> /\ Range(partial) = {}
      /\ Range(full) \cap Range(empty) = {}
  <2>1. empty # <<>> /\ partial = <<>>
    BY DEF AllocFromEmpty
  <2>2. Distinct(empty, Slabs) /\ Range(full) \cap Range(empty) = {}
    BY DEF IInv, ListsApart
  <2> QED BY <2>1, <2>2 DEF Range
<1>2. /\ s \in Slabs /\ s \in Range(empty) /\ s \in pages
      /\ Distinct(Tail(empty), Slabs) /\ Range(Tail(empty)) = Range(empty) \ {s}
  <2>1. PICK e : e = empty
    OBVIOUS
  <2>2. /\ Head(e) \in Slabs /\ Head(e) \in Range(e)
        /\ Distinct(Tail(e), Slabs) /\ Range(Tail(e)) = Range(e) \ {Head(e)}
    BY <1>1, <2>1, RemoveHead
  <2> QED BY <1>s, <2>1, <2>2 DEF IInv, ListsApart
<1>3. slab[s] \in Header /\ Lists(slab[s], Index \ HeldIn(s))
  BY <1>2 DEF IInv, TypeOK, Threaded
<1>4. /\ empty' = Tail(empty) /\ pages' = pages /\ total_objs' = total_objs
      /\ active_slabs' = active_slabs + 1 /\ total_slabs' = total_slabs
      /\ Take(s, slab[s], <<s>>)
  BY <1>s DEF AllocFromEmpty
<1>5. /\ Distinct(<<s>>, Slabs) /\ Range(<<s>>) = {s} /\ <<s>> # <<>> /\ Head(<<s>>) = s
  BY <1>2, Singleton
<1>6. /\ Distinct(empty', Slabs) /\ Range(empty') \subseteq Range(empty)
      /\ Range(empty') \cap (Range(full) \cup Range(<<s>>)) = {}
      /\ Range(full) \cap Range(<<s>>) = {}
      /\ pages' = Range(full) \cup Range(<<s>>) \cup Range(empty')
      /\ pages' = pages \cup {s}
  BY <1>1, <1>2, <1>4, <1>5 DEF IInv, ListsApart
<1>7. /\ total_slabs' = Cardinality(pages')
      /\ total_objs' = objects_per_slab * Cardinality(pages')
  BY <1>4 DEF IInv, Counts
<1>8. active_slabs' = Cardinality(Range(full) \cup Range(<<s>>))
  <2>1. IsFiniteSet(Range(full)) /\ active_slabs = Cardinality(Range(full))
    <3>1. Range(full) \in SUBSET Slabs /\ Range(full) \cup Range(partial) = Range(full)
      BY <1>1 DEF IInv, ListsApart, TypeOK
    <3> QED BY <3>1, SlabsFinite DEF IInv, Counts
  <2>2. s \notin Range(full)
    BY <1>1, <1>2
  <2> QED BY <1>4, <1>5, <2>1, <2>2, FS_AddElement
<1>9. \A x \in Range(<<s>>) : x = s \/ x \in Range(partial)
  BY <1>5
<1> QED
  BY <1>2, <1>3, <1>4, <1>5, <1>6, <1>7, <1>8, <1>9, AllocKeeps

LEMMA AllocFromNewKeeps == IInv /\ AllocFromNew => IInv'
<1> SUFFICES ASSUME IInv, AllocFromNew PROVE IInv'
  OBVIOUS
<1>1. PICK s \in Slabs \ pages : Take(s, Fresh, <<s>>) /\ pages' = pages \cup {s}
  BY DEF AllocFromNew
<1>2. /\ partial = <<>> /\ empty = <<>> /\ Range(partial) = {} /\ Range(empty) = {}
      /\ empty' = empty /\ active_slabs' = active_slabs + 1
      /\ total_slabs' = total_slabs + 1 /\ total_objs' = total_objs + objects_per_slab
  BY DEF AllocFromNew, Range
<1>3. /\ Distinct(<<s>>, Slabs) /\ Range(<<s>>) = {s} /\ <<s>> # <<>> /\ Head(<<s>>) = s
  BY <1>1, Singleton
<1>4. /\ Distinct(empty', Slabs) /\ Range(empty') \subseteq Range(empty)
      /\ Range(empty') \cap (Range(full) \cup Range(<<s>>)) = {}
      /\ Range(full) \cap Range(<<s>>) = {}
      /\ pages' = Range(full) \cup Range(<<s>>) \cup Range(empty')
      /\ pages = Range(full) /\ pages = Range(full) \cup Range(partial)
  BY <1>1, <1>2, <1>3 DEF IInv, ListsApart
<1>5. HeldIn(s) = {}
  BY <1>1 DEF IInv, Counts, HeldIn
<1>6. Fresh \in Header /\ Lists(Fresh, Index \ HeldIn(s))
  BY <1>5, FreshLists
<1>7. Cardinality(pages') = Cardinality(pages) + 1 /\ Cardinality(pages) \in Nat
  BY <1>1, SlabsFinite, FS_AddElement DEF IInv, TypeOK
<1>8. /\ total_slabs' = Cardinality(pages')
      /\ active_slabs' = Cardinality(Range(full) \cup Range(<<s>>))
  BY <1>1, <1>2, <1>3, <1>4, <1>7 DEF IInv, Counts
<1>9. total_objs' = objects_per_slab * Cardinality(pages')
  BY <1>2, <1>7, SlabAssumption DEF IInv, Counts
<1>10. \A x \in Range(<<s>>) : x = s \/ x \in Range(partial)
  BY <1>3
<1> QED
  BY <1>1, <1>3, <1>4, <1>6, <1>8, <1>9, <1>10, AllocKeeps

-----------------------------------------------------------------------------
(* Freeing. *)

\* What every free does to the object's slab and to the objects held.
LEMMA ReturnOne ==
  ASSUME IInv, NEW s \in Slabs, NEW i \in Index, <<s, i>> \in held, Return(s, i)
  PROVE  /\ exists' = exists /\ noreap' = noreap /\ held' \in SUBSET (Slabs \X Index)
         /\ s \in pages /\ slab[s].num_free < objects_per_slab /\ slab[s].num_free \in Nat
         /\ \A x \in Slabs : x # s => HeldIn(x)' = HeldIn(x)
         /\ LinkFirst(s, i) \in Header
         /\ LinkFirst(s, i).num_free = slab[s].num_free + 1
         /\ Lists(LinkFirst(s, i), Index \ HeldIn(s)')
         /\ IsFiniteSet(held') /\ active_objs' = Cardinality(held')
         /\ held' \subseteq held
<1>1. held' = held \ {<<s, i>>} /\ active_objs' = active_objs - 1 /\ exists' = exists /\ noreap' = noreap
  BY DEF Return
<1>2. s \in pages /\ slab \in [Slabs -> Header]
  BY DEF IInv, Counts, TypeOK
<1>3. /\ \A x \in Slabs : x # s => HeldIn(x)' = HeldIn(x)
      /\ HeldIn(s)' = HeldIn(s) \ {i} /\ i \in HeldIn(s) /\ HeldIn(s) \subseteq Index
  BY <1>1 DEF HeldIn
<1>4. PICK free \in SUBSET Index : free = Index \ HeldIn(s)
  OBVIOUS
<1>5. Lists(slab[s], free) /\ i \in Index \ free /\ free \cup {i} = Index \ HeldIn(s)'
  BY <1>2, <1>3, <1>4 DEF IInv, Threaded
<1>6. /\ LinkFirst(s, i) \in Header
      /\ LinkFirst(s, i).num_free = slab[s].num_free + 1
      /\ slab[s].num_free < objects_per_slab
      /\ Lists(LinkFirst(s, i), Index \ HeldIn(s)')
  BY <1>2, <1>5, LinkFirstLists
<1>7. IsFiniteSet(held') /\ active_objs' = Cardinality(held')
  BY <1>1, FS_RemoveElement DEF IInv, Counts
<1>8. slab[s].num_free \in Nat
  BY <1>2 DEF Header
<1> QED
  BY <1>1, <1>2, <1>3, <1>6, <1>7, <1>8 DEF IInv, TypeOK

\* The parts of the invariant that every free keeps in the same way: gone is
\* the set of slabs that are given back.
LEMMA FreeKeeps ==
  ASSUME IInv, NEW s \in Slabs, NEW i \in Index, <<s, i>> \in held, Return(s, i),
         NEW gone \in SUBSET (pages \ {s}),
         \A x \in gone : HeldIn(x) = {},
         slab' \in [Slabs -> Header], slab'[s] = LinkFirst(s, i),
         \A x \in pages' : x # s => slab'[x] = slab[x],
         pages' = pages \ gone,
         total_slabs' = Cardinality(pages'),
         total_objs' = objects_per_slab * Cardinality(pages'),
         active_slabs' = Cardinality(Range(full') \cup Range(partial')),
         ListsApart', Uses'
  PROVE  IInv'
<1>1. /\ exists' = exists /\ noreap' = noreap /\ held' \in SUBSET (Slabs \X Index)
      /\ \A x \in Slabs : x # s => HeldIn(x)' = HeldIn(x)
      /\ Lists(LinkFirst(s, i), Index \ HeldIn(s)')
      /\ IsFiniteSet(held') /\ active_objs' = Cardinality(held')
      /\ held' \subseteq held
  BY ReturnOne
<1>2. TypeOK'
  BY <1>1 DEF IInv, TypeOK
<1>3. Threaded'
  <2> SUFFICES ASSUME NEW x \in pages' PROVE Lists(slab'[x], Index \ HeldIn(x)')
    BY DEF Threaded
  <2>1. x \in Slabs /\ x \in pages
    BY DEF IInv, TypeOK
  <2> QED BY <1>1, <2>1 DEF IInv, Threaded
<1>4. Counts'
  <2>1. ASSUME NEW obj \in held' PROVE obj[1] \in pages'
    <3>1. obj \in held /\ obj[1] \in pages /\ obj \in Slabs \X Index
      BY <1>1 DEF IInv, Counts, TypeOK
    <3>2. obj[2] \in HeldIn(obj[1])
      BY <3>1 DEF HeldIn
    <3> QED BY <3>1, <3>2
  <2> QED BY <1>1, <2>1 DEF Counts
<1> QED BY <1>2, <1>3, <1>4 DEF IInv

LEMMA FreeOfFullKeeps ==
  ASSUME IInv, NEW s \in Slabs, NEW i \in Index, <<s, i>> \in held, FreeOfFull(s, i)
  PROVE  IInv'
<1>0. Return(s, i)
  BY DEF FreeOfFull
<1>1. /\ s \in pages /\ LinkFirst(s, i) \in Header /\ LinkFirst(s, i).num_free = 1
      /\ slab[s].num_free = 0
  <2>1. /\ s \in pages /\ slab[s].num_free \in Nat
        /\ LinkFirst(s, i) \in Header /\ LinkFirst(s, i).num_free = slab[s].num_free + 1
    BY <1>0, ReturnOne
  <2>2. slab[s].num_free + 1 = 1
    BY DEF FreeOfFull
  <2> QED BY <2>1, <2>2
<1>2. s \in Range(full) /\ s \notin Range(partial) /\ s \notin Range(empty)
  BY <1>1, SlabAssumption DEF IInv, Uses, ListsApart
<1>3. /\ full' = Unlink(full, s) /\ partial' = <<s>> \o partial /\ empty' = empty
      /\ slab' = [slab EXCEPT ![s] = LinkFirst(s, i)] /\ pages' = pages
      /\ total_objs' = total_objs /\ active_slabs' = active_slabs /\ total_slabs' = total_slabs
  BY <1>2 DEF FreeOfFull
<1>4. Distinct(full, Slabs) /\ Distinct(partial, Slabs)
  BY DEF IInv, ListsApart
<1>5. Distinct(full', Slabs) /\ Range(full') = Range(full) \ {s}
  BY <1>3, <1>4, UnlinkOne
<1>6. Distinct(partial', Slabs) /\ Range(partial') = Range(partial) \cup {s}
  <2>1. PICK p : p = partial
    OBVIOUS
  <2>2. Distinct(<<s>> \o p, Slabs) /\ Range(<<s>> \o p) = Range(p) \cup {s}
    BY <1>2, <1>4, <2>1, InsertHead
  <2> QED BY <1>3, <2>1, <2>2
<1>7. /\ slab' \in [Slabs -> Header] /\ slab'[s] = LinkFirst(s, i)
      /\ \A x \in Slabs : x # s => slab'[x] = slab[x]
  BY <1>1, <1>3 DEF IInv, TypeOK
<1>8. ListsApart'
  BY <1>2, <1>3, <1>5, <1>6 DEF IInv, ListsApart, Distinct
<1>9. Uses'
  <2>1. \A x \in pages : x \in Slabs
    BY DEF IInv, TypeOK
  <2>2. objects_per_slab > 1 => 1 < objects_per_slab
    BY SlabAssumption
  <2> QED BY <1>1, <1>2, <1>3, <1>5, <1>6, <1>7, <2>1, <2>2 DEF IInv, Uses, ListsApart
<1>10. Range(full') \cup Range(partial') = Range(full) \cup Range(partial)
  BY <1>2, <1>5, <1>6
<1>11. /\ total_slabs' = Cardinality(pages')
       /\ total_objs' = objects_per_slab * Cardinality(pages')
       /\ active_slabs' = Cardinality(Range(full') \cup Range(partial'))
  BY <1>3, <1>10 DEF IInv, Counts
<1>12. \A x \in pages' : x # s => slab'[x] = slab[x]
  BY <1>3, <1>7 DEF IInv, TypeOK
<1>13. PICK gone \in SUBSET (pages \ {s}) : gone = {} /\ pages' = pages \ gone
  BY <1>3
<1> QED
  BY <1>0, <1>7, <1>8, <1>9, <1>11, <1>12, <1>13, FreeKeeps

LEMMA FreeOfPartialKeeps ==
  ASSUME IInv, NEW s \in Slabs, NEW i \in Index, <<s, i>> \in held, FreeOfPartial(s, i)
  PROVE  IInv'
<1>0. Return(s, i)
  BY DEF FreeOfPartial
<1>1. /\ s \in pages /\ LinkFirst(s, i) \in Header
      /\ LinkFirst(s, i).num_free = slab[s].num_free + 1
      /\ slab[s].num_free > 0 /\ slab[s].num_free + 1 < objects_per_slab
      /\ slab[s].num_free \in Nat
  <2>1. /\ s \in pages /\ slab[s].num_free < objects_per_slab /\ slab[s].num_free \in Nat
        /\ LinkFirst(s, i) \in Header /\ LinkFirst(s, i).num_free = slab[s].num_free + 1
    BY <1>0, ReturnOne
  <2>2. slab[s].num_free + 1 # 1 /\ slab[s].num_free + 1 # objects_per_slab
    BY DEF FreeOfPartial
  <2>3. objects_per_slab \in Nat
    BY SlabAssumption
  <2>4. slab[s].num_free > 0 /\ slab[s].num_free + 1 < objects_per_slab
    BY <2>1, <2>2, <2>3
  <2> QED BY <2>1, <2>4
<1>2. s \in Range(partial) /\ s \notin Range(full) /\ s \notin Range(empty)
  <2>1. slab[s].num_free # 0 /\ slab[s].num_free # objects_per_slab
    BY <1>1, SlabAssumption
  <2> QED BY <1>1, <2>1, PartialByUse
<1>3. /\ full' = full /\ partial' = partial /\ empty' = empty
      /\ slab' = [slab EXCEPT ![s] = LinkFirst(s, i)] /\ pages' = pages
      /\ total_objs' = total_objs /\ active_slabs' = active_slabs /\ total_slabs' = total_slabs
  BY DEF FreeOfPartial, lists
<1>4. /\ slab' \in [Slabs -> Header] /\ slab'[s] = LinkFirst(s, i)
      /\ \A x \in Slabs : x # s => slab'[x] = slab[x]
  BY <1>1, <1>3 DEF IInv, TypeOK
<1>5. ListsApart'
  BY <1>3 DEF IInv, ListsApart, Distinct
<1>6. Uses'
  <2>1. \A x \in pages : x \in Slabs
    BY DEF IInv, TypeOK
  <2>2. LinkFirst(s, i).num_free > 0 /\ LinkFirst(s, i).num_free < objects_per_slab
    BY <1>1, SlabAssumption
  <2> QED BY <1>2, <1>3, <1>4, <2>1, <2>2 DEF IInv, Uses, ListsApart
<1>7. /\ total_slabs' = Cardinality(pages')
      /\ total_objs' = objects_per_slab * Cardinality(pages')
      /\ active_slabs' = Cardinality(Range(full') \cup Range(partial'))
  BY <1>3 DEF IInv, Counts
<1>8. \A x \in pages' : x # s => slab'[x] = slab[x]
  BY <1>3, <1>4 DEF IInv, TypeOK
<1>9. PICK gone \in SUBSET (pages \ {s}) : gone = {} /\ pages' = pages \ gone
  BY <1>3
<1> QED
  BY <1>0, <1>4, <1>5, <1>6, <1>7, <1>8, <1>9, FreeKeeps

LEMMA FreeOfLastKeeps ==
  ASSUME IInv, NEW s \in Slabs, NEW i \in Index, <<s, i>> \in held, FreeOfLast(s, i)
  PROVE  IInv'
<1>0. Return(s, i)
  BY DEF FreeOfLast
<1>1. /\ s \in pages /\ LinkFirst(s, i) \in Header
      /\ LinkFirst(s, i).num_free = objects_per_slab
      /\ slab[s].num_free > 0 /\ slab[s].num_free < objects_per_slab
  <2>1. /\ s \in pages /\ slab[s].num_free < objects_per_slab /\ slab[s].num_free \in Nat
        /\ LinkFirst(s, i) \in Header /\ LinkFirst(s, i).num_free = slab[s].num_free + 1
    BY <1>0, ReturnOne
  <2>2. slab[s].num_free + 1 = objects_per_slab /\ objects_per_slab # 1
    BY DEF FreeOfLast
  <2> QED BY <2>1, <2>2, SlabAssumption
<1>2. s \in Range(partial) /\ s \notin Range(full) /\ s \notin Range(empty)
  <2>1. slab[s].num_free # 0 /\ slab[s].num_free # objects_per_slab
    BY <1>1, SlabAssumption
  <2> QED BY <1>1, <2>1, PartialByUse
<1>3. PICK empties, gone : empties = <<s>> \o empty /\ gone = Reaped(empties)
  OBVIOUS
<1>4. /\ slab_destroy(gone) /\ full' = Unlink(full, s) /\ partial' = Unlink(partial, s)
      /\ slab' = [x \in Slabs |-> IF x \in gone THEN Fresh
                                  ELSE IF x = s THEN LinkFirst(s, i) ELSE slab[x]]
      /\ empty' = IF gone = {} THEN empties ELSE Spliced(empties, 2)
      /\ active_slabs' = active_slabs - 1
  BY <1>3 DEF FreeOfLast
<1>5. /\ gone \subseteq Range(empty)
      /\ gone = {} \/ \E x \in Range(empty) : gone = {x}
      /\ Distinct(empty', Slabs)
      /\ Range(empty') = (Range(empty) \cup {s}) \ gone
  <2>1. PICK e : e = empty
    OBVIOUS
  <2>2. Distinct(e, Slabs)
    BY <2>1 DEF IInv, ListsApart
  <2>3. Distinct(<<s>> \o e, Slabs) /\ Range(<<s>> \o e) = Range(e) \cup {s}
    BY <1>2, <2>1, <2>2, InsertHead
  <2>4. Distinct(empties, Slabs) /\ Range(empties) = Range(empty) \cup {s} /\ empties[1] = s
    BY <1>3, <2>1, <2>2, <2>3 DEF Distinct
  <2>5. CASE noreap \/ Len(empties) < 2
    <3>1. gone = {}
      BY <1>3, <2>5 DEF Reaped
    <3> QED BY <1>4, <2>4, <3>1
  <2>6. CASE ~noreap /\ Len(empties) >= 2
    <3>1. gone = {empties[2]}
      BY <1>3, <2>4, <2>6 DEF Reaped, Distinct
    <3>2. /\ Distinct(Spliced(empties, 2), Slabs) /\ empties[1] # empties[2]
          /\ empties[2] \in Range(empties)
          /\ Range(Spliced(empties, 2)) = Range(empties) \ {empties[2]}
      BY <2>4, <2>6, RemoveSecond DEF Spliced
    <3>3. empty' = Spliced(empties, 2)
      BY <1>4, <3>1
    <3> QED BY <2>4, <3>1, <3>2, <3>3
  <2> QED BY <2>4, <2>5, <2>6 DEF Distinct
<1>6. /\ Distinct(full', Slabs) /\ Range(full') = Range(full) \ {s}
      /\ Distinct(partial', Slabs) /\ Range(partial') = Range(partial) \ {s}
  <2>1. Distinct(full, Slabs) /\ Distinct(partial, Slabs)
    BY DEF IInv, ListsApart
  <2> QED BY <1>4, <2>1, UnlinkOne
<1>7. /\ gone \in SUBSET (pages \ {s}) /\ pages' = pages \ gone
      /\ total_slabs' = total_slabs - Cardinality(gone)
      /\ total_objs' = total_objs - objects_per_slab * Cardinality(gone)
  BY <1>2, <1>4, <1>5 DEF slab_destroy, IInv, ListsApart
<1>8. /\ slab' \in [Slabs -> Header] /\ slab'[s] = LinkFirst(s, i)
      /\ \A x \in Slabs : x # s /\ x \notin gone => slab'[x] = slab[x]
  BY <1>1, <1>4, <1>7, FreshLists DEF IInv, TypeOK
<1>9. ListsApart'
  BY <1>2, <1>5, <1>6, <1>7 DEF IInv, ListsApart, Distinct
<1>10. Uses'
  <2>1. \A x \in pages : x \in Slabs
    BY DEF IInv, TypeOK
  <2> QED BY <1>1, <1>2, <1>5, <1>6, <1>7, <1>8, <2>1 DEF IInv, Uses, ListsApart
<1>11. \A x \in gone : HeldIn(x) = {}
  <2>1. ASSUME NEW x \in gone PROVE HeldIn(x) = {}
    <3>1. x \in pages /\ slab[x].num_free = objects_per_slab
      BY <1>5, <1>7 DEF IInv, Uses
    <3> QED BY <3>1, HeldUnlessAllFree
  <2> QED BY <2>1
<1>12. /\ IsFiniteSet(pages) /\ Cardinality(pages) \in Nat
       /\ Cardinality(gone) \in Nat
       /\ Cardinality(pages') = Cardinality(pages) - Cardinality(gone)
  <2>1. IsFiniteSet(pages) /\ Cardinality(pages) \in Nat
    BY SlabsFinite DEF IInv, TypeOK
  <2>2. CASE gone = {}
    BY <1>7, <2>1, <2>2, FS_EmptySet
  <2>3. ASSUME NEW x \in Range(empty), gone = {x}
        PROVE  Cardinality(gone) = 1 /\ Cardinality(pages') = Cardinality(pages) - 1
    BY <1>7, <2>1, <2>3, FS_Singleton, FS_RemoveElement
  <2> QED BY <1>5, <2>1, <2>2, <2>3
<1>13. total_slabs' = Cardinality(pages')
  BY <1>7, <1>12 DEF IInv, Counts
<1>14. total_objs' = objects_per_slab * Cardinality(pages')
  <2>1. total_objs = objects_per_slab * Cardinality(pages)
    BY DEF IInv, Counts
  <2> QED BY <1>7, <1>12, <2>1, SlabAssumption
<1>15. active_slabs' = Cardinality(Range(full') \cup Range(partial'))
  <2>1. PICK used : used = Range(full) \cup Range(partial)
    OBVIOUS
  <2>2. /\ IsFiniteSet(used) /\ s \in used /\ active_slabs = Cardinality(used)
        /\ Range(full') \cup Range(partial') = used \ {s}
    <3>1. used \in SUBSET Slabs
      BY <2>1 DEF IInv, ListsApart, TypeOK
    <3> QED BY <1>2, <1>6, <2>1, <3>1, SlabsFinite DEF IInv, Counts
  <2> QED BY <1>4, <2>2, FS_RemoveElement
<1>16. \A x \in pages' : x # s => slab'[x] = slab[x]
  BY <1>7, <1>8 DEF IInv, TypeOK
<1> QED
  BY <1>0, <1>7, <1>8, <1>9, <1>10, <1>11, <1>13, <1>14, <1>15, <1>16, FreeKeeps

-----------------------------------------------------------------------------
(* The invariant holds in every state. *)

\* A cache without slabs.
LEMMA NoCacheInv == exists \in BOOLEAN /\ noreap \in BOOLEAN /\ NoCache => IInv
<1> SUFFICES ASSUME exists \in BOOLEAN, noreap \in BOOLEAN, NoCache PROVE IInv
  OBVIOUS
<1>1. /\ Distinct(<<>>, Slabs) /\ Range(<<>>) = {}
      /\ IsFiniteSet({}) /\ Cardinality({}) = 0
  BY FS_EmptySet DEF Distinct, Range, IsInjective
<1>2. TypeOK
  BY FreshLists DEF NoCache, TypeOK
<1>3. ListsApart /\ Uses /\ Threaded
  BY <1>1 DEF NoCache, ListsApart, Uses, Threaded
<1>4. Counts
  <2>1. {} \cup {} = {} /\ objects_per_slab * 0 = 0
    BY SlabAssumption
  <2> QED BY <1>1, <2>1 DEF NoCache, Counts
<1> QED BY <1>2, <1>3, <1>4 DEF IInv

LEMMA StepKeeps == IInv /\ [Next]_vars => IInv'
<1> SUFFICES ASSUME IInv, [Next]_vars PROVE IInv'
  OBVIOUS
<1>1. CASE kmem_cache_create
  BY <1>1 DEF kmem_cache_create, lists, stats, IInv, TypeOK, ListsApart, Uses, Threaded,
              Counts, HeldIn, Distinct
<1>2. CASE kmem_cache_destroy
  <2>1. pages \ Destroyed = {}
    BY DEF IInv, ListsApart, Destroyed
  <2>2. exists' \in BOOLEAN /\ noreap' \in BOOLEAN /\ NoCache'
    BY <1>2, <2>1 DEF kmem_cache_destroy, NoCache
  <2>3. (exists \in BOOLEAN /\ noreap \in BOOLEAN /\ NoCache)' => IInv'
    BY NoCacheInv, PTL
  <2> QED BY <2>2, <2>3
<1>3. CASE AllocFromPartial
  BY <1>3, AllocFromPartialKeeps
<1>4. CASE AllocFromEmpty
  BY <1>4, AllocFromEmptyKeeps
<1>5. CASE AllocFromNew
  BY <1>5, AllocFromNewKeeps
<1>6. CASE kmem_cache_free
  <2>1. PICK obj \in held : \/ FreeOfFull(obj[1], obj[2])
                            \/ FreeOfPartial(obj[1], obj[2])
                            \/ FreeOfLast(obj[1], obj[2])
    BY <1>6 DEF kmem_cache_free
  <2>2. obj[1] \in Slabs /\ obj[2] \in Index /\ <<obj[1], obj[2]>> \in held
    BY DEF IInv, TypeOK
  <2> QED BY <2>1, <2>2, FreeOfFullKeeps, FreeOfPartialKeeps, FreeOfLastKeeps
<1>7. CASE UNCHANGED vars
  BY <1>7 DEF vars, lists, stats, IInv, TypeOK, ListsApart, Uses, Threaded, Counts,
              HeldIn, Distinct
<1> QED
  BY <1>1, <1>2, <1>3, <1>4, <1>5, <1>6, <1>7 DEF Next

\* The invariant holds however objects are taken and returned, in whatever
\* order over the slabs of a cache.
LEMMA AlwaysIInv == Spec => []IInv
<1>1. Init => IInv
  BY NoCacheInv DEF Init
<1>2. IInv /\ [Next]_vars => IInv'
  BY StepKeeps
<1> QED
  BY <1>1, <1>2, PTL DEF Spec

\* For any number of slabs and of objects in a slab, and any order in which
\* kmem_cache_alloc and kmem_cache_free take and link objects, the free list of
\* each slab has the objects nobody holds, each once, and ends.
THEOREM FreeListsIntact == Spec => []FreelistExact
<1>1. IInv => FreelistExact
  BY IInvImplies
<1> QED
  BY <1>1, AlwaysIInv, PTL

\* Every slab is on exactly one of the three lists of the cache, the one its
\* use calls for.
THEOREM SlabsOnTheirLists == Spec => []ListsByUse
<1>1. IInv => ListsByUse
  BY IInvImplies
<1> QED
  BY <1>1, AlwaysIInv, PTL

\* The cache has the memory of the slabs on its lists and no other, what is held
\* lies in it, and the statistics are exact, also when kmem_cache_free reaps.
THEOREM CacheMemoryExact == Spec => []MemoryExact
<1>1. IInv => MemoryExact
  BY IInvImplies
<1> QED
  BY <1>1, AlwaysIInv, PTL
=============================================================================
