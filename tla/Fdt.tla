-------------------------------- MODULE Fdt --------------------------------
(***************************************************************************)
(* The flattened device tree as kernel/drivers/fdt/fdt.c reads it: the     *)
(* structure block is a sequence of tokens, and every question about the   *)
(* tree is answered by a scan that counts nesting.  A node is named by the *)
(* offset of its FDT_BEGIN_NODE token; the root is at offset 0.            *)
(*                                                                         *)
(* A token with the name or the property that follows it is one element of *)
(* the sequence, so the skipping of names and values, which fdt_align pads *)
(* to words, is the step to the next element.  Names and values are those  *)
(* the callers tell apart.                                                 *)
(***************************************************************************)
EXTENDS Integers, Sequences, FiniteSets

BEGIN_NODE(name) == [token |-> "BEGIN_NODE", name |-> name]
PROP(name, val)  == [token |-> "PROP", name |-> name, val |-> val]
END_NODE == [token |-> "END_NODE"]
NOP      == [token |-> "NOP"]
END      == [token |-> "END"]

Token(b, p) == b[p + 1].token
InBlock(b, p) == 0 <= p /\ p < Len(b)

NotFound == -1
NoProp == << >>   \* NULL: the values of properties are other sequences

-----------------------------------------------------------------------------
(* The scans.  p is the offset of the token at hand, d the nesting depth.  *)

\* Mutant: the nodes inside the first subnode are not told from its siblings.
fdt_first_subnode_any(b, offset) ==
  LET After == {p \in offset + 1 .. Len(b) - 1 : Token(b, p) = "BEGIN_NODE"}
  IN  IF After = {} THEN NotFound ELSE CHOOSE p \in After : \A q \in After : p <= q

\* The first token after the node's own that begins a node, unless the node
\* ends before.
fdt_first_subnode(b, offset) ==
  LET Scan[p \in 0 .. Len(b)] ==
        IF ~ InBlock(b, p) THEN NotFound
        ELSE CASE Token(b, p) = "BEGIN_NODE" -> p
               [] Token(b, p) \in {"END_NODE", "END"} -> NotFound
               [] OTHER -> Scan[p + 1]
  IN  IF InBlock(b, offset) THEN Scan[offset + 1] ELSE NotFound

\* Past the end of the node at offset, the next token that begins a node,
\* unless the parent ends before.
fdt_next_subnode(b, offset) ==
  LET Next[p \in 0 .. Len(b)] ==
        IF ~ InBlock(b, p) THEN NotFound
        ELSE CASE Token(b, p) = "BEGIN_NODE" -> p
               [] Token(b, p) \in {"END_NODE", "END"} -> NotFound
               [] OTHER -> Next[p + 1]
      Scan[p \in 0 .. Len(b), d \in 0 .. Len(b)] ==
        IF ~ InBlock(b, p) THEN NotFound
        ELSE CASE Token(b, p) = "BEGIN_NODE" -> Scan[p + 1, d + 1]
               [] Token(b, p) = "END_NODE" ->
                    IF d = 1 THEN Next[p + 1] ELSE Scan[p + 1, d - 1]
               [] Token(b, p) = "END" -> NotFound
               [] OTHER -> Scan[p + 1, d]
  IN  IF InBlock(b, offset) THEN Scan[offset, 0] ELSE NotFound

\* fdt_for_each_subnode: the subnodes in the order of the loop.
Subnodes(b, offset) ==
  LET From[node \in NotFound .. Len(b) - 1] ==
        IF node = NotFound THEN << >>
        ELSE <<node>> \o From[fdt_next_subnode(b, node)]
  IN  From[fdt_first_subnode(b, offset)]

fdt_get_name(b, offset) == b[offset + 1].name

\* The first property of that name before the node ends, subnodes skipped.
fdt_getprop(b, offset, name) ==
  LET Scan[p \in 0 .. Len(b), d \in 0 .. Len(b)] ==
        IF ~ InBlock(b, p) THEN NoProp
        ELSE CASE Token(b, p) = "BEGIN_NODE" -> Scan[p + 1, d + 1]
               [] Token(b, p) = "END_NODE" ->
                    IF d = 0 THEN NoProp ELSE Scan[p + 1, d - 1]
               [] Token(b, p) = "PROP" /\ d = 0 /\ b[p + 1].name = name -> b[p + 1].val
               [] Token(b, p) = "END" -> NoProp
               [] OTHER -> Scan[p + 1, d]
  IN  IF InBlock(b, offset) /\ Token(b, offset) = "BEGIN_NODE"
      THEN Scan[offset + 1, 0] ELSE NoProp

\* The scan stops when it reaches the node, before it could see the node's
\* own token, and then reports that there is no parent.
fdt_parent_offset(b, offset) ==
  LET Scan[p \in 0 .. Len(b), parent \in 0 .. Len(b), d \in -1 .. Len(b)] ==
        IF ~ InBlock(b, p) \/ p >= offset THEN NotFound
        ELSE CASE Token(b, p) = "BEGIN_NODE" /\ p = offset -> parent
               [] Token(b, p) = "BEGIN_NODE" /\ p # offset ->
                    Scan[p + 1, IF d = 0 THEN p ELSE parent, d + 1]
               [] Token(b, p) = "END_NODE" -> Scan[p + 1, parent, d - 1]
               [] Token(b, p) = "END" -> NotFound
               [] OTHER -> Scan[p + 1, parent, d]
  IN  IF offset <= 0 THEN NotFound ELSE Scan[0, 0, 0]

\* The next node in the order of the block, whatever its depth.
fdt_next_node(b, offset) ==
  LET Scan[p \in 0 .. Len(b)] ==
        IF ~ InBlock(b, p) THEN NotFound
        ELSE CASE Token(b, p) = "BEGIN_NODE" -> p
               [] Token(b, p) = "END" -> NotFound
               [] OTHER -> Scan[p + 1]
  IN  IF offset < 0 THEN Scan[0] ELSE Scan[offset + 1]

\* The first subnode of that name.
fdt_subnode_offset(b, offset, name) ==
  LET Named == SelectSeq(Subnodes(b, offset), LAMBDA n : fdt_get_name(b, n) = name)
  IN  IF Named = << >> THEN NotFound ELSE Head(Named)

\* A path is the sequence of its components.
fdt_path_offset(b, path) ==
  LET Down[i \in 0 .. Len(path)] ==
        IF i = 0 THEN 0
        ELSE IF Down[i - 1] = NotFound THEN NotFound
        ELSE fdt_subnode_offset(b, Down[i - 1], path[i])
  IN  Down[Len(path)]

-----------------------------------------------------------------------------
(* Reference definitions: the tree the block is the preorder of.           *)

Nodes(b) == {p \in 0 .. Len(b) - 1 : Token(b, p) = "BEGIN_NODE"}

\* The nodes open at p: begun before it and not ended.
DepthAt(b, p) ==
  Cardinality({q \in 0 .. p - 1 : Token(b, q) = "BEGIN_NODE"})
    - Cardinality({q \in 0 .. p - 1 : Token(b, q) = "END_NODE"})

IsParent(b, n, p) ==
  /\ n \in Nodes(b)
  /\ n < p
  /\ DepthAt(b, n) = DepthAt(b, p) - 1
  /\ \A q \in n + 1 .. p : DepthAt(b, q) > DepthAt(b, n)

Children(b, n) == {p \in Nodes(b) : IsParent(b, n, p)}
=============================================================================
