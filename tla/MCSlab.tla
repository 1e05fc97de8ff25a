------------------------------- MODULE MCSlab -------------------------------
(* Two settings: a cache that can have three slabs of three objects, and the *)
(* layout of a slab for the arguments kmem_cache_create may get.  The layout *)
(* has the constants of the kernel; sizes are rounded up to a multiple of 8, *)
(* so these yield every object size, and alignments are the powers of two up *)
(* to a page, and 1 for those below the size of a pointer.                   *)
EXTENDS Slab, SlabLayout, TLC

CONSTANTS s1, s2, s3

MCSlabs == {s1, s2, s3}
SlabSymmetry == Permutations(MCSlabs)

MCSlabSizes == {4096 * 2^k : k \in 0 .. 6}
MCSizes == {8 * k - 1 : k \in 1 .. 16384}
MCAligns == {1} \cup {2^k : k \in 3 .. 12}

VARIABLE setting

MCInit == Init /\ LayoutInit /\ setting \in {"cache", "layout"}

CacheStep == setting = "cache" /\ Next /\ UNCHANGED <<setting, layout>>
LayoutStep == setting = "layout" /\ LayoutNext /\ UNCHANGED <<setting, vars>>

MCSpec == MCInit /\ [][CacheStep \/ LayoutStep]_<<setting, layout, vars>>
=============================================================================
