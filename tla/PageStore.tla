----------------------------- MODULE PageStore -----------------------------
(***************************************************************************)
(* What the physical memory manager promises its callers, with no bitmap,  *)
(* no region and no counter: every page of Pages is free, held by a caller *)
(* or reserved.  A page changes hands only by being allocated while free,  *)
(* released while held, or reserved while free; a reserved page stays      *)
(* reserved for ever.                                                      *)
(***************************************************************************)
EXTENDS FiniteSets

CONSTANT Pages

VARIABLES free, held, reserved

storeVars == <<free, held, reserved>>

Init ==
  /\ free = Pages
  /\ held = {}
  /\ reserved = {}

Alloc ==
  \E S \in SUBSET free :
    /\ S # {}
    /\ free' = free \ S
    /\ held' = held \cup S
    /\ UNCHANGED reserved

Release ==
  \E S \in SUBSET held :
    /\ free' = free \cup S
    /\ held' = held \ S
    /\ UNCHANGED reserved

Reserve ==
  \E S \in SUBSET free :
    /\ free' = free \ S
    /\ reserved' = reserved \cup S
    /\ UNCHANGED held

Next == Alloc \/ Release \/ Reserve

Spec == Init /\ [][Next]_storeVars
=============================================================================
