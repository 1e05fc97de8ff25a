------------------------------- MODULE MCVmm -------------------------------
(* Tables of four entries.  The direct map is at page 16, devices are mapped  *)
(* from page 32 on, other callers from page 40 on, the kernel is at page 48.  *)
(* A region of memory that can be mapped by a block, and two regions that     *)
(* cannot.  Of the resources the first is a block, the second not page        *)
(* aligned, the third in a page of the second, the last inside the first.     *)
EXTENDS Vmm

MCMemInfo == {<<[base |-> 4, size |-> 6]>>,
              <<[base |-> 3, size |-> 2], [base |-> 6, size |-> 5]>>}

MCResources == <<[start |-> 24, size |-> 8], [start |-> 23, size |-> 2],
                 [start |-> 22, size |-> 1], [start |-> 26, size |-> 2]>>
=============================================================================
