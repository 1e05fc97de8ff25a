------------------------------- MODULE KeyMap -------------------------------
(* What a radix tree promises: a map from keys to items that only the calls   *)
(* for a key change, and only at that key.  A call may fail and change        *)
(* nothing; an insertion never replaces an item.                              *)

CONSTANTS Key, Item, NULL

VARIABLE map

Init == map = [k \in Key |-> NULL]

Insert == \E k \in Key, item \in Item : map[k] = NULL /\ map' = [map EXCEPT ![k] = item]
Delete == \E k \in Key : map' = [map EXCEPT ![k] = NULL]
Replace == \E k \in Key, item \in Item : map[k] # NULL /\ map' = [map EXCEPT ![k] = item]

Spec == Init /\ [][Insert \/ Delete \/ Replace]_map
=============================================================================
