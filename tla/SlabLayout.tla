----------------------------- MODULE SlabLayout -----------------------------
(***************************************************************************)
(* How many objects a slab has and where they lie (kernel/memory/slab.c).  *)
(* calculate_slab_parameters counts the objects from an aligned header;    *)
(* slab_create later computes the size of the slab anew, from a header     *)
(* without padding, and then places the objects behind the padding.        *)
(***************************************************************************)
EXTENDS Integers, FiniteSetsExt

CONSTANTS
  SlabSizes,                  \* the powers of two from MIN_SLAB_SIZE to
  MaxSlabSize,                \* MAX_SLAB_SIZE
  Header,                     \* sizeof(struct kmem_slab)
  IndexSize,                  \* sizeof(uint32_t)
  PointerSize,                \* sizeof(void *)
  Sizes, Aligns               \* the arguments of kmem_cache_create

\* Sizes double.  Alignments divide them and leave room in the largest slab: with
\* the constants of the kernel they are the powers of two up to MIN_SLAB_SIZE, a
\* page.  kmem_cache_create does not test this: with a larger one the space that
\* calculate_slab_parameters computes for a small slab would wrap below zero.
ASSUME LayoutAssumption ==
  /\ SlabSizes \subseteq Nat /\ MaxSlabSize \in SlabSizes
  /\ \A s, t \in SlabSizes : s < t => 2 * s <= t
  /\ Header \in Nat \ {0} /\ IndexSize \in 1 .. Header /\ PointerSize \in Nat \ {0}
  /\ Sizes \subseteq Nat /\ Aligns \subseteq Nat
  /\ \A a \in Aligns \cup {PointerSize} : a >= PointerSize =>
       /\ \A s \in SlabSizes : s % a = 0
       /\ (MaxSlabSize \div 2) % a = 0
       /\ Header + a + IndexSize <= MaxSlabSize \div 2

VARIABLES
  object_size, align, objects,   \* cache->hot: object_size, align, objects_per_slab
  slab_size, slab_base           \* of a slab of the cache; 0: none yet

layout == <<object_size, align, objects, slab_size, slab_base>>

align_up(x, a) == ((x + a - 1) \div a) * a

\* Objects that fit a slab of a given size, each with its free list entry.
Fitting(size, obj, a) == (size - align_up(Header, a)) \div (obj + IndexSize)

\* Mutant: the entries of the free list are not counted.
ParametersWithoutFreelist(obj, a) == (MaxSlabSize - align_up(Header, a)) \div obj

\* The first slab size below the largest that fits eight objects, or else
\* whatever the largest fits.
calculate_slab_parameters(obj, a) ==
  LET good == {s \in SlabSizes \ {MaxSlabSize} : Fitting(s, obj, a) >= 8}
  IN Fitting(IF good # {} THEN Min(good) ELSE MaxSlabSize, obj, a)

LayoutInit ==
  object_size = 0 /\ align = 0 /\ objects = 0 /\ slab_size = 0 /\ slab_base = 0

Alignment(a) == IF a < PointerSize THEN PointerSize ELSE a

CreateCache(size, a) ==
  /\ size # 0 /\ size <= MaxSlabSize \div 2
  /\ align' = Alignment(a)
  /\ object_size' = align_up(size, Alignment(a))
  /\ objects' = calculate_slab_parameters(object_size', align')
  /\ UNCHANGED <<slab_size, slab_base>>

\* Offsets are from the start of the slab, which the PMM aligns to a page.
slab_create ==
  LET needed == Header + objects * (object_size + IndexSize)
      enough == {s \in SlabSizes : s >= needed}
  IN /\ object_size # 0 /\ slab_size = 0
     /\ slab_size' = IF enough # {} THEN Min(enough) ELSE MaxSlabSize
     /\ slab_base' = align_up(Header, align)
     /\ UNCHANGED <<object_size, align, objects>>

LayoutNext ==
  \/ /\ object_size = 0      \* one cache is enough: the layout is its own
     /\ \E size \in Sizes, a \in Aligns : CreateCache(size, a)
  \/ slab_create

LayoutSpec == LayoutInit /\ [][LayoutNext]_layout

-----------------------------------------------------------------------------
(* Properties. *)

\* Every slab has an object (slab_create writes the end marker of the free list
\* at index objects_per_slab - 1), and the objects and the free list behind them
\* end within the pages of the slab, although the two computations of its size
\* disagree on the padding.
LayoutFits ==
  /\ object_size # 0 => objects >= 1
  /\ slab_size # 0 => slab_base + objects * (object_size + IndexSize) <= slab_size
=============================================================================
