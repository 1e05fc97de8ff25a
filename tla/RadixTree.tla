------------------------------ MODULE RadixTree ------------------------------
(***************************************************************************)
(* A radix tree (kernel/lib/radix_tree.c): nodes of MAP_SIZE slots, the    *)
(* height that grows and shrinks with the keys, a tag bit for each slot,   *)
(* and max_key, where iteration ends.                                      *)
(*                                                                         *)
(* A node of height h is named <<h, p>>, p being the digits that all keys  *)
(* below it have in common (leading zeros included, so that a node keeps   *)
(* its name when the tree grows or shrinks above it).  The slot of an      *)
(* inner node is in use if and only if the child is in nodes, the slots of *)
(* the leaves are slots.  Every operation runs under the lock of the tree  *)
(* and is one step.  There is one tag: the tags do not meet.               *)
(***************************************************************************)
EXTENDS Integers, FiniteSetsExt

CONSTANTS
  MAP_SHIFT, MAX_HEIGHT,   \* RADIX_TREE_MAP_SHIFT, RADIX_TREE_MAX_HEIGHT
  MAX_FREE_NODES,          \* nodes that the node cache keeps
  Item, NULL,
  Keys,                    \* keys that callers use
  ReplaceAbsent            \* whether callers replace a key that has no item

RadixTreeAssumption ==
  /\ MAP_SHIFT \in Nat \ {0} /\ MAX_HEIGHT \in Nat \ {0} /\ MAX_FREE_NODES \in Nat
  /\ NULL \notin Item /\ ReplaceAbsent \in BOOLEAN

VARIABLES
  height,            \* root->height, 0 when there is no node
  nodes,             \* nodes[n]: [count, tags] of the nodes there are
  slots,             \* slots[k]: the item in the leaf slot of key k
  max_key,
  free_count         \* nodes in the node cache

vars == <<height, nodes, slots, max_key, free_count>>

MAP_SIZE == 2^MAP_SHIFT
Key == 0 .. MAP_SIZE^MAX_HEIGHT - 1    \* of the 32-bit keys as many as there are

Fresh == [count |-> 0, tags |-> {}]

\* radix_tree_get_slot, and the node of height h on the path to key k.
get_slot(k, h) == (k \div MAP_SIZE^h) % MAP_SIZE
NodeOf(k, h) == <<h, k \div MAP_SIZE^(h + 1)>>
Child(n, i) == <<n[1] - 1, n[2] * MAP_SIZE + i>>
Parent(n) == <<n[1] + 1, n[2] \div MAP_SIZE>>
maxindex(h) == IF h = 0 THEN 0 ELSE MAP_SIZE^h - 1

Root == <<height - 1, 0>>
Path(k) == {NodeOf(k, h) : h \in 0 .. height - 1}

\* The walk from the root to the leaf of k does not end early.
Reaches(k) == height > 0 /\ k <= maxindex(height) /\ Path(k) \subseteq DOMAIN nodes

Init ==
  /\ height = 0 /\ nodes = <<>> /\ max_key = 0 /\ free_count = 0
  /\ slots = [k \in Key |-> NULL]

\* Nodes come from the cache before they come from kmalloc, and go back to it
\* while it has room.
Created == Cardinality(DOMAIN nodes') - Cardinality(DOMAIN nodes)
radix_tree_node_alloc == free_count' = Max({free_count - Created, 0})
radix_tree_node_free == free_count' = Min({free_count - Created, MAX_FREE_NODES})

\* kmalloc has no memory for one more node: the cache is empty then.
NoNode == Created >= free_count /\ free_count' = 0

radix_tree_lookup(k) == IF Reaches(k) THEN slots[k] ELSE NULL

-----------------------------------------------------------------------------
(* Insertion. *)

\* The tags of a new root, whose slot 0 is the old root.
RootTags(old) == IF old.tags # {} THEN {0} ELSE {}

\* The nodes radix_tree_extend adds for a height of h.  The first one, in an
\* empty tree, is a leaf for the lowest keys; each further one has the old
\* root in slot 0.
Extended(h) ==
  LET first == IF height = 0 THEN <<0, 0>> ELSE Root
      old == IF height = 0 THEN Fresh ELSE nodes[Root]
      above == {<<x, 0>> : x \in first[1] + 1 .. h - 1}
  IN [n \in DOMAIN nodes \cup {first} \cup above |->
        IF n \in above THEN [count |-> 1, tags |-> RootTags(old)]
        ELSE IF n = first THEN old ELSE nodes[n]]

\* The height key k needs.
HeightFor(k) == Max({height, Min({h \in 1 .. MAX_HEIGHT : k <= maxindex(h)})})

\* The nodes with those on the path to k added down to height low.  A node
\* counts itself in its parent.
WithPath(ns, k, top, low) ==
  LET new == {NodeOf(k, h) : h \in low .. top - 1} \ DOMAIN ns
  IN [n \in DOMAIN ns \cup new |->
        LET grown == IF \E m \in new : Parent(m) = n THEN 1 ELSE 0
        IN IF n \in new THEN [Fresh EXCEPT !.count = grown] ELSE [ns[n] EXCEPT !.count = @ + grown]]

\* radix_tree_insert, with memory for every node.
radix_tree_insert(k, item) ==
  LET h == HeightFor(k)
      ns == WithPath(Extended(h), k, h, 0)
      free == slots[k] = NULL
  IN /\ height' = h
     /\ nodes' = IF free THEN [ns EXCEPT ![NodeOf(k, 0)].count = @ + 1] ELSE ns
     /\ slots' = IF free THEN [slots EXCEPT ![k] = item] ELSE slots
     /\ max_key' = IF free THEN Max({max_key, k}) ELSE max_key
     /\ radix_tree_node_alloc

\* There is no memory for a node: the tree keeps what was added before.
InsertExtendFails(k) ==
  \E h \in height .. HeightFor(k) - 1 :
    /\ height' = h
    /\ nodes' = IF h = 0 THEN nodes ELSE Extended(h)
    /\ NoNode
    /\ UNCHANGED <<slots, max_key>>

InsertPathFails(k) ==
  LET h == HeightFor(k) IN
  \E low \in 1 .. h - 1 :
    /\ NodeOf(k, low - 1) \notin DOMAIN Extended(h)
    /\ height' = h
    /\ nodes' = WithPath(Extended(h), k, h, low)
    /\ NoNode
    /\ UNCHANGED <<slots, max_key>>

-----------------------------------------------------------------------------
(* Deletion. *)

\* Mutant: a leaf with one item left is freed.
EmptiedEarly(k, ns) ==
  LET low == {h \in 0 .. height - 1 :
        ns[NodeOf(k, 0)].count <= 1 /\ \A x \in 1 .. h : ns[NodeOf(k, x)].count = 1}
  IN {NodeOf(k, h) : h \in low}

\* The nodes from the leaf of k up that get empty when k goes: each but the
\* first has no other child.
Emptied(k, ns) ==
  LET low == {h \in 0 .. height - 1 :
        ns[NodeOf(k, 0)].count = 0 /\ \A x \in 1 .. h : ns[NodeOf(k, x)].count = 1}
  IN {NodeOf(k, h) : h \in low}

\* The nodes in gone, a path that ends in a leaf, are freed.
Without(ns, gone) ==
  [n \in DOMAIN ns \ gone |->
     [ns[n] EXCEPT !.count = @ - Cardinality({m \in gone : Parent(m) = n})]]

\* radix_tree_shrink: the height while the root has but the child in slot 0.
ShrunkHeight(ns, h) ==
  Min({x \in 1 .. h : \A y \in x .. h - 1 :
         {<<y, 0>>, <<y - 1, 0>>} \subseteq DOMAIN ns /\ ns[<<y, 0>>].count = 1})

radix_tree_delete(k) ==
  LET unset == [nodes EXCEPT ![NodeOf(k, 0)].count = @ - 1]
      gone == Emptied(k, unset)
      left == Without(unset, gone)
      h == ShrunkHeight(left, height)
      kept == [n \in {x \in DOMAIN left : x[1] < h} |-> left[n]]
      none == Root \in gone \/ (h = 1 /\ kept[<<0, 0>>].count = 0)
  IN /\ Reaches(k) /\ slots[k] # NULL
     /\ height' = IF none THEN 0 ELSE h
     /\ nodes' = IF none THEN <<>> ELSE kept
     /\ slots' = [slots EXCEPT ![k] = NULL]
     /\ max_key' = IF none \/ k = max_key THEN 0 ELSE max_key
     /\ radix_tree_node_free

\* With an item; without one it is radix_tree_delete.
radix_tree_replace(k, item) ==
  /\ Reaches(k) /\ (ReplaceAbsent \/ slots[k] # NULL)
  /\ slots' = [slots EXCEPT ![k] = item]
  /\ UNCHANGED <<height, nodes, max_key, free_count>>

-----------------------------------------------------------------------------
(* Tags. *)

Tagged(k) == Reaches(k) /\ get_slot(k, 0) \in nodes[NodeOf(k, 0)].tags   \* radix_tree_tag_get

\* The heights at which radix_tree_tag_set tags the slot of k: up to the first
\* node above the leaf that has it tagged.
TagHeights(k) ==
  {h \in 0 .. height - 1 :
     \A x \in 1 .. h : get_slot(k, x) \notin nodes[NodeOf(k, x)].tags}

radix_tree_tag_set(k) ==
  /\ Reaches(k) /\ slots[k] # NULL
  /\ nodes' = [n \in DOMAIN nodes |->
       IF \E h \in TagHeights(k) : n = NodeOf(k, h)
       THEN [nodes[n] EXCEPT !.tags = @ \cup {get_slot(k, n[1])}] ELSE nodes[n]]
  /\ UNCHANGED <<height, slots, max_key, free_count>>

\* radix_tree_tag_clear looks, in the node of height h above the leaf, at the
\* slot that k has one level further down.
ClearSlot(k, h) == IF h = 0 THEN get_slot(k, 0) ELSE get_slot(k, h - 1)

\* Mutant: the slot is cleared whatever is tagged below it.
UntaggedBelowAny(ns, k, h) == TRUE

\* The child there has no tag, so that the tag of the slot goes.
UntaggedBelow(ns, k, h) ==
  LET child == Child(NodeOf(k, h), ClearSlot(k, h))
  IN child \in DOMAIN ns => ns[child].tags = {}

\* The nodes when the tags of heights 0 .. h have gone.  The loop stops at the
\* first node whose slot keeps its tag.
Cleared(k) ==
  LET clear[h \in 0 .. height - 1] ==
        LET below == IF h = 0 THEN [nodes |-> nodes, on |-> TRUE] ELSE clear[h - 1]
            on == below.on /\ (h = 0 \/ UntaggedBelow(below.nodes, k, h))
        IN [nodes |-> IF on THEN [below.nodes EXCEPT ![NodeOf(k, h)].tags = @ \ {ClearSlot(k, h)}]
                            ELSE below.nodes,
            on |-> on]
  IN clear[height - 1].nodes

radix_tree_tag_clear(k) ==
  /\ Tagged(k)
  /\ nodes' = Cleared(k)
  /\ UNCHANGED <<height, slots, max_key, free_count>>

-----------------------------------------------------------------------------
(* Iteration.  Nowhere is what the loops return at their end. *)

Nowhere == -1

\* The first key behind the subtree of height h that holds i.
Skip(i, h) == (i \div MAP_SIZE^h + 1) * MAP_SIZE^h

\* The greatest height at which the path to i has no node; it has one at all.
Gap(i) == Max({h \in 0 .. height - 1 : NodeOf(i, h) \notin DOMAIN nodes})

\* radix_tree_next_slot: the key it finds from i on.
radix_tree_next_slot(i) ==
  LET next[j \in 0 .. MAP_SIZE^MAX_HEIGHT] ==
        IF j > max_key \/ height = 0 \/ j > maxindex(height) THEN Nowhere
        ELSE IF ~Reaches(j) THEN next[Skip(j, Gap(j) + 1)]
        ELSE IF slots[j] # NULL THEN j
        ELSE next[j + 1]
  IN next[i]

\* The first slot from the one of i on, in the node of height h above i, that
\* is tagged and in use.
TaggedSlots(i, h) ==
  {x \in nodes[NodeOf(i, h)].tags :
     /\ x >= get_slot(i, h)
     /\ IF h = 0 THEN slots[NodeOf(i, 0)[2] * MAP_SIZE + x] # NULL
                 ELSE Child(NodeOf(i, h), x) \in DOMAIN nodes}

\* The way down from height h to a tagged entry at or behind i.
TagDescent(i) ==
  LET down[h \in 0 .. height - 1, j \in Key] ==
        IF TaggedSlots(j, h) = {} THEN [found |-> FALSE, index |-> Skip(j, h + 1)]
        ELSE LET x == Min(TaggedSlots(j, h))
                 to == IF x = get_slot(j, h) THEN j
                       ELSE (j \div MAP_SIZE^(h + 1)) * MAP_SIZE^(h + 1) + x * MAP_SIZE^h
             IN IF h = 0 THEN [found |-> TRUE, index |-> to] ELSE down[h - 1, to]
  IN down[height - 1, i]

radix_tree_next_tagged(i) ==
  LET next[j \in 0 .. MAP_SIZE^MAX_HEIGHT] ==
        IF j > max_key \/ height = 0 \/ j > maxindex(height) THEN Nowhere
        ELSE LET d == TagDescent(j) IN IF d.found THEN d.index ELSE next[d.index]
  IN next[i]

Next ==
  \E k \in Keys :
    \/ \E item \in Item : radix_tree_insert(k, item) \/ radix_tree_replace(k, item)
    \/ InsertExtendFails(k) \/ InsertPathFails(k)
    \/ radix_tree_delete(k)
    \/ radix_tree_tag_set(k) \/ radix_tree_tag_clear(k)

Spec == Init /\ [][Next]_vars

-----------------------------------------------------------------------------
(* Properties. *)

Present == {k \in Key : radix_tree_lookup(k) # NULL}

\* What the callers see: a run checks that it implements KeyMap.
Items == [k \in Key |-> radix_tree_lookup(k)]

\* radix_tree_next_slot finds the next item up to max_key from every key on,
\* whatever subtrees are missing on the way.
SlotsFound ==
  \A i \in Key :
    LET ahead == {k \in Present : i <= k /\ k <= max_key}
    IN radix_tree_next_slot(i) = IF ahead = {} THEN Nowhere ELSE Min(ahead)

\* radix_tree_next_tagged skips no tagged item: the tags of the inner nodes lead
\* to every one, after the tree has grown, shrunk and lost nodes.  (Deleting
\* the greatest key sets max_key to 0, and the items below it are not seen.)
TaggedFound ==
  (\A k \in Present : k <= max_key) =>
    \A i \in Key :
      LET ahead == {k \in Present : i <= k /\ Tagged(k)}
      IN radix_tree_next_tagged(i) = IF ahead = {} THEN Nowhere ELSE Min(ahead)

\* Both iterations visit what they should: SlotsFound and TaggedFound.
IterationExact == SlotsFound /\ TaggedFound
=============================================================================
