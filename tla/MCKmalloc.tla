----------------------------- MODULE MCKmalloc -----------------------------
(* Four size classes in use: one of callers, with slabs of two pages, that   *)
(* of the table and those of its buckets.                                    *)
EXTENDS Kmalloc

MCBucketClass == (8 :> "b8") @@ (16 :> "b16") @@ (32 :> "b32")
MCObjectSize ==
  ("user" :> 1) @@ ("lookup" :> 5) @@ ("b8" :> 7) @@ ("b16" :> 11) @@ ("b32" :> 13) @@ ("entry" :> 3)
MCObjectsPerSlab == [c \in Classes |-> IF c = "entry" THEN 4 ELSE 2]
MCSlabPages == [c \in Classes |-> IF c = "user" THEN 2 ELSE 1]
MCBlock == "block" :> 1
MCLarge == MCBlock @@ ("direct" :> 1)
=============================================================================
