----------------------------- MODULE MCIrqDesc -----------------------------
(* IrqDesc on a small instance: two devices on the line, and either of the  *)
(* two dispatchers.  The module itself is the descriptor with the riscv one *)
(* and Arm the one with arm64's; setting says which a behaviour has, or     *)
(* that it is one of the controller below the descriptors, Gic, of up to    *)
(* six lines of which one is private, or of the radix tree in which tree    *)
(* domains look descriptors' numbers up, RadixTree, here Tree.              *)
EXTENDS IrqDesc, Gic

CONSTANTS
  d1, d2,
  MAP_SHIFT, MAX_HEIGHT, MAX_FREE_NODES, NULL, Item, Keys, ReplaceAbsent   \* of RadixTree

MCDev == {d1, d2}

\* A range that starts below the shared lines, one of which the smaller of the
\* two controllers has one line, and one that ends beyond the registers.
MCSpiRanges == {<<0, 2>>, <<3, 3>>, <<4, 3>>}

VARIABLES setting, height, nodes, slots, max_key, free_count

Arm == INSTANCE IrqDesc WITH Arch <- "arm64"

Tree == INSTANCE RadixTree

ASSUME Tree!RadixTreeAssumption

treeVars == <<height, nodes, slots, max_key, free_count>>
allVars == <<vars, gicVars, treeVars, setting>>

MCCallStep ==
  /\ \/ setting = "riscv" /\ CallStep
     \/ setting = "arm64" /\ Arm!CallStep
  /\ UNCHANGED <<gicVars, treeVars, setting>>

MCTrap ==
  /\ \/ setting = "riscv" /\ Trap
     \/ setting = "arm64" /\ Arm!Trap
  /\ UNCHANGED <<gicVars, treeVars, setting>>

MCIrqStep ==
  /\ \/ setting = "riscv" /\ IrqStep
     \/ setting = "arm64" /\ Arm!IrqStep
  /\ UNCHANGED <<gicVars, treeVars, setting>>

MCNext ==
  \/ /\ \/ setting = "riscv" /\ Next
        \/ setting = "arm64" /\ Arm!Next
     /\ UNCHANGED <<gicVars, treeVars, setting>>
  \/ /\ setting = "gic" /\ GicNext
     /\ UNCHANGED <<vars, treeVars, setting>>
  \/ /\ setting = "tree" /\ Tree!Next
     /\ UNCHANGED <<vars, gicVars, setting>>

MCInit ==
  /\ Init /\ Tree!Init
  /\ setting \in {"riscv", "arm64", "gic", "tree"}
  /\ GicInit
  /\ setting # "gic" => enabled = {} /\ edge = {}

MCSpec ==
  /\ MCInit /\ [][MCNext]_allVars
  /\ WF_allVars(MCCallStep) /\ WF_allVars(MCIrqStep) /\ WF_allVars(MCTrap)

\* With either dispatcher, a device that asserts its line while it has a
\* handler and the descriptor is enabled is served, unless it is freed or
\* disabled first or the handler spins on a lock of its own CPU: arm64's
\* irq_handler takes no desc->lock and has only irq_desc_lock to spin on.
ServedByEither ==
  /\ setting = "riscv" => Served
  /\ setting = "arm64" => Arm!Served

\* Both iterations of the radix tree visit what they should: radix_tree_next_slot
\* every item up to max_key and radix_tree_next_tagged every tagged one.
IterationExact == setting = "tree" => Tree!IterationExact

\* To its callers the radix tree is a map: growing, shrinking, freeing of nodes
\* and insertions that fail half way change no item but that of the key of the
\* call.
Map == INSTANCE KeyMap WITH Key <- Tree!Key,
  map <- IF setting = "tree" THEN Tree!Items ELSE [k \in Tree!Key |-> NULL]
MapSpec == Map!Spec
=============================================================================
