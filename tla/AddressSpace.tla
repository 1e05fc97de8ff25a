---------------------------- MODULE AddressSpace ----------------------------
(* What page tables promise: a map from virtual to physical pages, in which  *)
(* a page that is mapped keeps its translation until it is unmapped.         *)

CONSTANTS VirtualPage, Translation, NoPage

VARIABLE space

Init == space \in [VirtualPage -> Translation \cup {NoPage}]

Map ==
  \A v \in VirtualPage : space[v] # NoPage => space'[v] = space[v]

Unmap ==
  \A v \in VirtualPage : space'[v] \in {space[v], NoPage}

Spec == Init /\ [][Map \/ Unmap]_space
=============================================================================
