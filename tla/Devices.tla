------------------------------- MODULE Devices -------------------------------
(***************************************************************************)
(* The device layer from the blob to a running console: the device pool    *)
(* (kernel/device/device_pool.c), the registry and tree of devices         *)
(* (device_core.c), their resources (resource.c), the enumeration of the   *)
(* flattened tree (device_tree.c), the binding of drivers                  *)
(* (kernel/drivers/driver_core.c), the UART drivers' probe, attach and     *)
(* detach, the console (uart_core.c, uart_console.c) and the probing of    *)
(* interrupt controllers (irqchip.c).                                      *)
(*                                                                         *)
(* kernel_main runs these once in order; after that the calls of the       *)
(* device and driver interfaces come in any order.  A device is its index  *)
(* in the pool's order of allocation, the root device is 1.  The lists     *)
(* that the code links through next and sibling are sequences, head first. *)
(***************************************************************************)
EXTENDS Fdt, SequencesExt

CONSTANTS
  Boards,                \* sequence of records [arch, blob]
  CELL,                  \* the values of a 32-bit cell
  SPI_BASE, PPI_BASE,    \* 32 and 16
  POOL_ALIGN, PAGE_SIZE, PoolHeader,
  Pools,                 \* pairs of the pool's size and the times it can grow
  DeviceSize, ResourceSize, NameSize,  \* in bytes of the pool
  DEVICE_MAX_RESOURCES,
  Softcs,                \* addresses that kmalloc has for UART contexts
  LinkOrders,            \* orders of the drivers in their section
  Names,                 \* names of devices that are registered later
  Removable,             \* bound: drivers that may be unregistered
  MaxMoves               \* bound: calls that change the tree after the boot

NULL == 0        \* of devices and contexts
None == "none"   \* of drivers and compatible strings
root == 1

Driver == {"pl011_uart", "ns16550_uart", "sifive_uart", "riscv-plic"}
UartDriver == Driver \ {"riscv-plic"}

ASSUME DevicesAssumption ==
  /\ PAGE_SIZE \in Nat \ {0} /\ POOL_ALIGN \in Nat \ {0}
  /\ NULL \notin Softcs
  /\ LinkOrders \subseteq SetToSeqs(UartDriver)

VARIABLES
  pc,            \* the step of kernel_main, then "run"
  board,
  pool,          \* [used, size, extra]: extra is what the PMM can still add
  dev,           \* sequence of devices
  devices,       \* device_registry.devices, head first
  mapped,        \* devices whose first memory resource has a mapped_addr
  registry,      \* driver_registry, head first
  ref_count,
  console_uart,
  uart_devices,  \* [list, ends]: the UART contexts, and whether the last has no next
  moves

vars == <<pc, board, pool, dev, devices, mapped, registry, ref_count,
          console_uart, uart_devices, moves>>
deviceVars == <<board, pool, dev, devices, mapped>>

blob == Boards[board].blob

-----------------------------------------------------------------------------
(* The pool, as part of a state s = [pool, dev, devices, ok].              *)

align_size(n) == ((n + POOL_ALIGN - 1) \div POOL_ALIGN) * POOL_ALIGN

Grown(n) == ((n + PAGE_SIZE - 1) \div PAGE_SIZE) * PAGE_SIZE

device_pool_alloc(s, size) ==
  LET n == align_size(size) IN
  IF s.pool.used + n <= s.pool.size
  THEN [s EXCEPT !.pool.used = @ + n, !.ok = TRUE]
  ELSE IF s.pool.extra > 0
  THEN [s EXCEPT !.pool = [used |-> @.used + n, size |-> @.size + Grown(n),
                           extra |-> @.extra - 1], !.ok = TRUE]
  ELSE [s EXCEPT !.ok = FALSE]

\* A name that cannot be copied is left out; nothing else depends on it.
device_pool_strdup(s) == device_pool_alloc(s, NameSize)

-----------------------------------------------------------------------------
(* The registry and the tree.                                              *)

device_remove_child(s, parent, child) ==
  IF s.dev[child].parent # parent THEN s
  ELSE [s EXCEPT !.dev[parent].children = SelectSeq(@, LAMBDA c : c # child),
                 !.dev[child].parent = NULL]

Linked(s, parent, child) ==
  [s EXCEPT !.dev[child].parent = parent, !.dev[parent].children = <<child>> \o @]

device_add_child(s, parent, child) ==
  Linked(IF s.dev[child].parent = NULL THEN s
         ELSE device_remove_child(s, s.dev[child].parent, child), parent, child)

NewDevice(name, type) ==
  [name |-> name, type |-> type, compatible |-> None, fdt_offset |-> 0,
   parent |-> NULL, children |-> << >>, resources |-> << >>, array |-> FALSE,
   driver |-> None, driver_data |-> NULL, active |-> FALSE]

RootDevice == [NewDevice("root", "platform") EXCEPT !.active = TRUE]

\* The device new is added, if there was memory for it.
Allocated(got, new) == IF got.ok THEN [got EXCEPT !.dev = Append(@, new)] ELSE got

\* The root device is not in the list of devices.
device_core_init(s) ==
  IF s.dev # << >> THEN [s EXCEPT !.ok = TRUE]
  ELSE Allocated(device_pool_alloc(s, DeviceSize), RootDevice)

AllocatedAfter(ready, new) ==
  IF ready.ok THEN Allocated(device_pool_alloc(ready, DeviceSize), new) ELSE ready

device_alloc(s, name, type) == AllocatedAfter(device_core_init(s), NewDevice(name, type))

\* The last device of the pool becomes one of the list and a child of the root.
Entered(got) ==
  IF got.ok
  THEN device_add_child([got EXCEPT !.devices = <<Len(got.dev)>> \o @], root, Len(got.dev))
  ELSE got

device_register(s, name, type) == Entered(device_alloc(s, name, type))

Removed(s, d) ==
  [s EXCEPT !.devices = SelectSeq(@, LAMBDA e : e # d), !.dev[d].active = FALSE]

device_unregister(s, d) ==
  Removed(IF s.dev[d].parent = NULL THEN s
          ELSE device_remove_child(s, s.dev[d].parent, d), d)

First(list, Test(_)) ==
  LET found == SelectSeq(list, Test) IN IF found = << >> THEN NULL ELSE Head(found)
device_find_by_name(name) == First(devices, LAMBDA d : dev[d].name = name)
device_find_by_type(type) == First(devices, LAMBDA d : dev[d].type = type)

-----------------------------------------------------------------------------
(* Resources.                                                              *)

\* The array comes from the pool with the first resource.
ResourceArray(s, d) ==
  IF s.dev[d].array THEN [s EXCEPT !.ok = TRUE]
  ELSE device_pool_alloc(s, DEVICE_MAX_RESOURCES * ResourceSize)

AddedResource(got, d, res) ==
  IF got.ok
  THEN device_pool_strdup([got EXCEPT !.dev[d].array = TRUE, !.dev[d].resources = Append(@, res)])
  ELSE got

device_add_resource(s, d, res) ==
  IF Len(s.dev[d].resources) >= DEVICE_MAX_RESOURCES THEN s
  ELSE AddedResource(ResourceArray(s, d), d, res)

device_add_mem_resource(s, d, start, size) ==
  IF size = 0 THEN s
  ELSE device_add_resource(s, d, [type |-> "mem", start |-> start, end |-> start + size - 1])

device_add_irq_resource(s, d, irq) ==
  device_add_resource(s, d, [type |-> "irq", start |-> irq, end |-> irq])

\* device_get_resource finds a first memory resource.
HasMemory(d) == \E i \in DOMAIN dev[d].resources : dev[d].resources[i].type = "mem"

-----------------------------------------------------------------------------
(* From a node to a device.  A property is the sequence of its cells or    *)
(* of its strings; Pieces are the strings that strstr finds in a           *)
(* compatible string.                                                      *)

Pieces == [c \in {"arm,pl011", "arm,primecell", "ns16550a", "snps,16550",
                  "sifive,uart0", "sifive,uart-16550", "riscv,plic0", "simple-bus"} |->
             CASE c = "arm,primecell" -> {c, "arm,"}
               [] c = "arm,pl011"     -> {c, "arm,", "pl011"}
               [] c = "ns16550a"      -> {c, "ns16550", "16550"}
               [] c = "snps,16550"    -> {"16550"}
               [] c = "sifive,uart0"  -> {c, "sifive,uart"}
               [] c = "sifive,uart-16550" -> {"sifive,uart", "16550"}
               [] c = "riscv,plic0"   -> {c, "riscv"}
               [] OTHER               -> {c}]

arm64_device_map == << <<"arm,pl011", "uart">>, <<"arm,", "platform">> >>
riscv_device_map ==
  << <<"riscv", "cpu">>, <<"riscv,plic0", "interrupt">>, <<"ns16550a", "uart">>,
     <<"sifive,uart0", "uart">> >>
device_type_map ==
  << <<"ns16550a", "uart">>, <<"ns16550", "uart">>, <<"pl011", "uart">>,
     <<"arm,pl011", "uart">>, <<"sifive,uart0", "uart">>, <<"simple-bus", "platform">> >>

InMap(map, c) ==
  LET found == SelectSeq(map, LAMBDA e : e[1] \in Pieces[c])
  IN  IF found = << >> THEN "unknown" ELSE Head(found)[2]
arch_get_device_type(c) ==
  InMap(IF Boards[board].arch = "arm64" THEN arm64_device_map ELSE riscv_device_map, c)

device_tree_compatible_to_type(c) ==
  IF arch_get_device_type(c) # "unknown" THEN arch_get_device_type(c)
  ELSE IF InMap(device_type_map, c) # "unknown" THEN InMap(device_type_map, c)
  ELSE "platform"

Prop(node, name) == fdt_getprop(blob, node, name)

device_tree_get_device_type(node) ==
  IF Prop(node, "interrupt-controller") # NoProp THEN "interrupt"
  ELSE IF Prop(node, "device_type") # NoProp /\ Head(Prop(node, "device_type")) \in {"cpu", "memory"}
  THEN Head(Prop(node, "device_type"))
  ELSE IF Prop(node, "compatible") # NoProp
  THEN device_tree_compatible_to_type(Head(Prop(node, "compatible")))
  ELSE "platform"

device_tree_is_device_enabled(node) ==
  \/ Prop(node, "status") = NoProp
  \/ Head(Prop(node, "status")) \in {"okay", "ok"}

\* fdt_parent_offset finds no parent, so the cells are always two.
Cells(node, name) ==
  LET parent == fdt_parent_offset(blob, node) IN
  IF parent >= 0 /\ Prop(parent, name) # NoProp THEN Head(Prop(parent, name)) ELSE 2
Number(cells) == FoldLeft(LAMBDA acc, c : acc * CELL + c, 0, cells)

\* The entries of reg: addr address cells, then size cells.
RegEntries(reg, addr, size) ==
  [i \in 1 .. Len(reg) \div (addr + size) |->
     LET at == (i - 1) * (addr + size) IN
     [addr |-> Number(SubSeq(reg, at + 1, at + addr)),
      size |-> Number(SubSeq(reg, at + addr + 1, at + addr + size))]]

device_tree_get_reg(node) ==
  RegEntries(Prop(node, "reg"), Cells(node, "#address-cells"), Cells(node, "#size-cells"))

\* Three cells per interrupt: its type, its number, its flags.
device_tree_get_interrupts(node) ==
  LET prop == Prop(node, "interrupts") IN
  [i \in 1 .. Len(prop) \div 3 |->
     prop[3 * i - 1] + (CASE prop[3 * i - 2] = 0 -> SPI_BASE
                          [] prop[3 * i - 2] = 1 -> PPI_BASE
                          [] OTHER -> 0)]

Upto(list, n) == SubSeq(list, 1, IF Len(list) < n THEN Len(list) ELSE n)

\* A name is copied for every entry before it is added.
device_tree_parse_reg(s, d, node) ==
  FoldLeft(LAMBDA acc, r : device_add_mem_resource(device_pool_strdup(acc), d, r.addr, r.size),
           s, Upto(device_tree_get_reg(node), DEVICE_MAX_RESOURCES))

device_tree_parse_interrupts(s, d, node) ==
  FoldLeft(LAMBDA acc, irq :
             IF Len(acc.dev[d].resources) < DEVICE_MAX_RESOURCES
             THEN device_add_irq_resource(device_pool_strdup(acc), d, irq) ELSE acc,
           s, device_tree_get_interrupts(node))

Skipped == {"", "aliases", "chosen", "cpus", "memory"}

\* The device d that was made for the node gets what the node says.
FilledFrom(made, d, node) ==
  IF made.ok
  THEN [device_tree_parse_interrupts(
          device_tree_parse_reg(
            [made EXCEPT !.dev[d].fdt_offset = node,
                         !.dev[d].compatible =
                            IF Prop(node, "compatible") = NoProp THEN None
                            ELSE Head(Prop(node, "compatible"))], d, node), d, node)
        EXCEPT !.ok = TRUE]
  ELSE made

Filled(made, node) == FilledFrom(made, Len(made.dev), node)

\* ok tells whether a device was made; it is the last one of the pool.
device_tree_create_device(s, node) ==
  IF ~ device_tree_is_device_enabled(node) \/ fdt_get_name(blob, node) \in Skipped
  THEN [s EXCEPT !.ok = FALSE]
  ELSE Filled(device_register(s, fdt_get_name(blob, node), device_tree_get_device_type(node)), node)

\* Mutant: the subnodes of a node without a device go to the root.
ParentBelowRoot(s, parent, made) == IF made THEN Len(s.dev) ELSE root

\* The parent for the subnodes: the new device, or the parent of the node
\* that has none.
ParentBelow(s, parent, made) == IF made THEN Len(s.dev) ELSE parent

Placed(made, parent) ==
  IF made.ok /\ parent # NULL THEN device_add_child(made, parent, Len(made.dev)) ELSE made

RECURSIVE enumerate_devices_recursive(_, _, _), EnumerateSubnodes(_, _, _)
EnumerateSubnodes(made, node, parent) ==
  FoldLeft(LAMBDA acc, child :
             enumerate_devices_recursive(acc, child, ParentBelow(made, parent, made.ok)),
           Placed(made, parent), Subnodes(blob, node))

enumerate_devices_recursive(s, node, parent) ==
  EnumerateSubnodes(device_tree_create_device(s, node), node, parent)

EnumerateFromRoot(ready) ==
  enumerate_devices_recursive(ready, 0, IF ready.ok THEN root ELSE NULL)

device_tree_populate_devices(s) == EnumerateFromRoot(device_core_init(s))

device_init ==
  /\ pc = "device_init"
  /\ \E s \in {device_tree_populate_devices(
                 [pool |-> pool, dev |-> dev, devices |-> devices, ok |-> TRUE])} :
       /\ pool' = s.pool
       /\ dev' = s.dev
       /\ devices' = s.devices
  /\ pc' = "devmap_init"
  /\ UNCHANGED <<board, mapped, registry, ref_count, console_uart, uart_devices, moves>>

\* The mapping of a device may fail; Vmm says when.
devmap_init ==
  /\ pc = "devmap_init"
  /\ mapped' \in SUBSET {d \in Range(devices) : HasMemory(d)}
  /\ pc' = "uart_init"
  /\ UNCHANGED <<board, pool, dev, devices, registry, ref_count, console_uart, uart_devices, moves>>

-----------------------------------------------------------------------------
(* Drivers.  None of them has priv_size.                                   *)

Built(drv) == drv = "riscv-plic" => Boards[board].arch = "riscv"
Class(drv)    == IF drv \in UartDriver THEN "uart" ELSE "intc"
Priority(drv) == IF drv \in UartDriver THEN 10 ELSE 0

PROBE_SCORE_EXACT   == 100
PROBE_SCORE_GENERIC == 50
PROBE_SCORE_NONE    == 0
PROBE_THRESHOLD     == 10

pl011_probe(c) ==
  IF "arm,pl011" \in Pieces[c] THEN PROBE_SCORE_EXACT
  ELSE IF "arm,primecell" \in Pieces[c] THEN PROBE_SCORE_GENERIC
  ELSE PROBE_SCORE_NONE
ns16550_probe(c) ==
  IF c = "ns16550a" THEN PROBE_SCORE_EXACT
  ELSE IF "16550" \in Pieces[c] THEN PROBE_SCORE_GENERIC
  ELSE PROBE_SCORE_NONE
sifive_probe(c) ==
  IF {"sifive,uart", "sifive,fu540", "sifive,fu740"} \cap Pieces[c] # {} THEN PROBE_SCORE_EXACT
  ELSE PROBE_SCORE_NONE
plic_driver_probe(c) == IF "riscv,plic0" \in Pieces[c] THEN PROBE_SCORE_EXACT ELSE PROBE_SCORE_NONE

probe(drv, d) ==
  LET c == dev[d].compatible IN
  IF c = None THEN PROBE_SCORE_NONE
  ELSE CASE drv = "pl011_uart"   -> pl011_probe(c)
         [] drv = "ns16550_uart" -> ns16550_probe(c)
         [] drv = "sifive_uart"  -> sifive_probe(c)
         [] drv = "riscv-plic"   -> plic_driver_probe(c)

\* The class that a device of a known type asks for.
Suits(drv, d) ==
  CASE dev[d].type = "uart" -> Class(drv) = "uart"
    [] dev[d].type = "interrupt" -> Class(drv) = "intc"
    [] OTHER -> TRUE

Score(drv, d) == IF probe(drv, d) > 0 THEN probe(drv, d) + Priority(drv) ELSE probe(drv, d)

\* Mutant: any match ends the search.
PerfectAny(score) == score >= PROBE_THRESHOLD

Perfect(score) == score >= PROBE_SCORE_EXACT

\* The best driver of the registry, None if none reaches the threshold.
BestDriver(d) ==
  LET Try(best, drv) ==
        IF best.over \/ ~ Suits(drv, d) THEN best
        ELSE LET score == Score(drv, d) IN
             [driver |-> IF score > best.score THEN drv ELSE best.driver,
              score  |-> IF score > best.score THEN score ELSE best.score,
              over   |-> Perfect(score)]
      best == FoldLeft(Try, [driver |-> None, score |-> 0, over |-> FALSE], registry)
  IN  IF best.score >= PROBE_THRESHOLD THEN best.driver ELSE None

\* The context becomes the head; nothing takes it off the list again.  One that
\* was freed and is still on it leads back to itself, and what was behind it is
\* lost.
uart_register_device(sc) ==
  LET before == SelectInSeq(uart_devices.list, LAMBDA e : e = sc) IN
  uart_devices' =
    IF before = 0 THEN [uart_devices EXCEPT !.list = <<sc>> \o @]
    ELSE [list |-> <<sc>> \o SubSeq(uart_devices.list, 1, before - 1), ends |-> FALSE]

\* The context is registered; its registers are those of the device if they
\* are mapped.
uart_softc_init(sc) == uart_register_device(sc)

HasRegs(d) == HasMemory(d) /\ d \in mapped

\* The context sc is what kmalloc finds, or NULL.  It is registered, and freed
\* again unless the registers are mapped.  ns16550_attach has a second
\* allocation, whose failure is that of the first.  attached is what they return.
Context == {NULL} \cup (Softcs \ {dev[d].driver_data : d \in DOMAIN dev})

AttachUart(d, sc, attached) ==
  /\ attached = (sc # NULL /\ HasRegs(d))
  /\ IF sc = NULL THEN UNCHANGED uart_devices ELSE uart_softc_init(sc)

pl011_attach(d, sc, attached)   == AttachUart(d, sc, attached)
ns16550_attach(d, sc, attached) == AttachUart(d, sc, attached)
sifive_attach(d, sc, attached)  == AttachUart(d, sc, attached)

\* Without a mapping the PLIC is used at its physical address; its interrupt
\* domain needs memory.
plic_driver_attach(d, memory) == HasMemory(d) /\ memory

attach(drv, d, sc, attached) ==
  CASE drv = "pl011_uart"   -> pl011_attach(d, sc, attached)
    [] drv = "ns16550_uart" -> ns16550_attach(d, sc, attached)
    [] drv = "sifive_uart"  -> sifive_attach(d, sc, attached)
    [] drv = "riscv-plic"   -> /\ attached = plic_driver_attach(d, sc # NULL)
                               /\ UNCHANGED uart_devices

\* The device without its driver.  All three free the context.
pl011_detach(d)   == [dev[d] EXCEPT !.driver_data = NULL, !.active = FALSE]
ns16550_detach(d) == [dev[d] EXCEPT !.driver_data = NULL, !.active = FALSE]
sifive_detach(d)  == [dev[d] EXCEPT !.driver_data = NULL, !.active = FALSE]

driver_attach_device(d, drv, sc) ==
  \E attached \in BOOLEAN :
    /\ attach(drv, d, sc, attached)
    /\ IF attached
       THEN /\ dev' = [dev EXCEPT ![d].driver = drv, ![d].active = TRUE,
                                  ![d].driver_data = IF drv \in UartDriver THEN sc ELSE NULL]
            /\ ref_count' = [ref_count EXCEPT ![drv] = @ + 1]
       ELSE UNCHANGED <<dev, ref_count>>

driver_probe_device(d, sc) ==
  IF dev[d].driver = None /\ BestDriver(d) # None
  THEN driver_attach_device(d, BestDriver(d), sc)
  ELSE UNCHANGED <<dev, ref_count, uart_devices>>

\* The detach of an interrupt controller is refused.
driver_detach_device(d) ==
  LET drv == dev[d].driver IN
  /\ drv \in UartDriver
  /\ dev' = [dev EXCEPT ![d] =
       [(CASE drv = "pl011_uart"   -> pl011_detach(d)
           [] drv = "ns16550_uart" -> ns16550_detach(d)
           [] drv = "sifive_uart"  -> sifive_detach(d)) EXCEPT !.driver = None]]
  /\ ref_count' = [ref_count EXCEPT ![drv] = @ - 1]

\* The search for devices to bind starts at the root device and follows next,
\* which the root does not have: it alone is probed, and nothing matches it.
Registered(drvs) ==
  /\ registry' = Reverse(drvs) \o registry
  /\ ref_count' = [drv \in Driver |-> IF drv \in Range(drvs) THEN 0 ELSE ref_count[drv]]

driver_register(drv) ==
  /\ drv \notin Range(registry) /\ Built(drv)
  /\ Registered(<<drv>>)
  /\ UNCHANGED dev

\* Mutant: a driver in use is let go.
InUseNever(drv) == FALSE

InUse(drv) == ref_count[drv] > 0

driver_unregister(drv) ==
  /\ drv \in Range(registry)
  /\ ~ InUse(drv)
  /\ registry' = SelectSeq(registry, LAMBDA e : e # drv)
  /\ UNCHANGED <<dev, ref_count>>

-----------------------------------------------------------------------------
(* kernel_main after the enumeration.                                      *)

\* There is no context yet that uart_framework_init could forget.  The order of
\* the drivers in the section is the linker's.
uart_init ==
  /\ pc = "uart_init"
  /\ \E order \in LinkOrders : Registered(order)
  /\ console_uart' = NULL /\ uart_devices' = [list |-> << >>, ends |-> TRUE]
  /\ pc' = "uart_console_auto_select"
  /\ UNCHANGED <<deviceVars, moves>>

\* stdout-path is a path from the root, as the sequence of its components.
uart_find_console_device ==
  LET chosen == fdt_path_offset(blob, <<"chosen">>)
      path   == IF chosen < 0 THEN NoProp ELSE Prop(chosen, "stdout-path")
  IN  IF path = NoProp THEN NULL ELSE device_find_by_name(Last(path))

\* The context of device d among devs, NULL unless a UART driver has it.
uart_device_get_softc(devs, d) ==
  IF devs[d].driver \in UartDriver THEN devs[d].driver_data ELSE NULL

\* The first console stays.
uart_console_attach(sc) == IF console_uart = NULL THEN sc ELSE console_uart

\* Mutant: the first UART of the list, else the device named by the blob.
ConsoleDeviceByType ==
  IF device_find_by_type("uart") # NULL THEN device_find_by_type("uart")
  ELSE uart_find_console_device

\* The device named by the blob, else the first UART of the list.
ConsoleDevice ==
  IF uart_find_console_device # NULL THEN uart_find_console_device
  ELSE device_find_by_type("uart")

uart_console_auto_select ==
  /\ pc = "uart_console_auto_select"
  /\ \E d \in {ConsoleDevice} :
       IF d = NULL THEN UNCHANGED <<dev, ref_count, console_uart, uart_devices>>
       ELSE \E sc \in Context :
              /\ driver_probe_device(d, sc)
              /\ console_uart' = uart_console_attach(uart_device_get_softc(dev', d))
  /\ pc' = "irqchip_init"
  /\ UNCHANGED <<board, pool, devices, mapped, registry, moves>>

\* The drivers of the interrupt controllers, then every device of that type
\* in the tree below the root.
InTree(d) ==
  LET Up[n \in 0 .. Len(dev), e \in 0 .. Len(dev)] ==
        e = root \/ (n > 0 /\ e # NULL /\ Up[n - 1, dev[e].parent])
  IN  Up[Len(dev), d]

Controllers ==
  {d \in DOMAIN dev : /\ dev[d].type = "interrupt" /\ InTree(d) /\ dev[d].driver = None
                      /\ Built("riscv-plic") /\ probe("riscv-plic", d) > 0
                      /\ plic_driver_attach(d, TRUE)}

irqchip_init ==
  /\ pc = "irqchip_init"
  /\ registry' = SelectSeq(<<"riscv-plic">>, Built) \o registry
  /\ \E found \in {Controllers, {}} :
         /\ dev' = [d \in DOMAIN dev |->
                      IF d \in found THEN [dev[d] EXCEPT !.driver = "riscv-plic", !.active = TRUE]
                      ELSE dev[d]]
         /\ ref_count' = [ref_count EXCEPT !["riscv-plic"] = Cardinality(found)]
  /\ pc' = "run"
  /\ UNCHANGED <<board, pool, devices, mapped, console_uart, uart_devices, moves>>

-----------------------------------------------------------------------------
(* The running kernel: calls of the interfaces.                            *)

driverStep == UNCHANGED <<board, pool, devices, mapped, console_uart, moves>>

Tree == [pool |-> pool, dev |-> dev, devices |-> devices, ok |-> TRUE]
Becomes(s) ==
  /\ moves < MaxMoves
  /\ moves' = moves + 1
  /\ pool' = s.pool /\ dev' = s.dev /\ devices' = s.devices
  /\ UNCHANGED <<board, mapped, registry, ref_count, console_uart, uart_devices>>

Register(name) ==
  Becomes(device_register(Tree, name, "platform"))

\* The caller hands in a device of the list that has no children left.
Unregister(d) ==
  /\ dev[d].children = << >>
  /\ Becomes(device_unregister(Tree, d))

\* The caller does not put a device below itself.
AddChild(parent, child) ==
  /\ parent # child /\ InTree(parent)
  /\ child # root /\ dev[child].children = << >>
  /\ Becomes(device_add_child(Tree, parent, child))

RemoveChild(d) ==
  /\ dev[d].parent # NULL
  /\ Becomes(device_remove_child(Tree, dev[d].parent, d))

Probe(d) ==
  /\ \E sc \in Context : driver_probe_device(d, sc)
  /\ UNCHANGED registry /\ driverStep

\* console_uart and the list keep the context that is freed.
Detach(d) ==
  /\ driver_detach_device(d)
  /\ UNCHANGED <<registry, uart_devices>> /\ driverStep

Run ==
  /\ pc = "run"
  /\ UNCHANGED pc
  /\ \/ \E name \in Names : Register(name)
     \/ \E d \in Range(devices) : Unregister(d) \/ RemoveChild(d) \/ Probe(d) \/ Detach(d)
     \/ \E d \in Range(devices) : \E p \in Range(devices) \cup {root} : AddChild(p, d)
     \/ \E drv \in Removable : driver_register(drv) /\ UNCHANGED uart_devices /\ driverStep
     \/ \E drv \in Removable : driver_unregister(drv) /\ UNCHANGED uart_devices /\ driverStep

-----------------------------------------------------------------------------

Init ==
  /\ pc = "device_init"
  /\ board \in DOMAIN Boards
  /\ \E p \in Pools : pool = [used |-> PoolHeader, size |-> p[1], extra |-> p[2]]
  /\ dev = << >> /\ devices = << >> /\ mapped = {}
  /\ registry = << >> /\ ref_count = [drv \in Driver |-> 0]
  /\ console_uart = NULL /\ uart_devices = [list |-> << >>, ends |-> TRUE]
  /\ moves = 0

Next == device_init \/ devmap_init \/ uart_init \/ uart_console_auto_select
          \/ irqchip_init \/ Run

Spec == Init /\ [][Next]_vars

-----------------------------------------------------------------------------
(* Properties.                                                             *)

\* No allocation of the pool was refused so far.
NeverFull ==
  \/ pool.extra > 0
  \/ pool.used + align_size(DEVICE_MAX_RESOURCES * ResourceSize) <= pool.size

\* The nodes that stand for devices, those of them that have one, and the
\* closest of these above a node.
DeviceNodes ==
  {n \in Nodes(blob) : /\ fdt_get_name(blob, n) \notin Skipped
                       /\ device_tree_is_device_enabled(n)}
Made == {dev[d].fdt_offset : d \in 2 .. Len(dev)}
DeviceOf(n) == CHOOSE d \in 2 .. Len(dev) : dev[d].fdt_offset = n
Above(n) ==
  {m \in Made : /\ m < n /\ DepthAt(blob, m) < DepthAt(blob, n)
                /\ \A q \in m + 1 .. n : DepthAt(blob, q) > DepthAt(blob, m)}

\* What the tree says, without the scans of the parser: the value of a property
\* of the node, and the cells of a register range below it.
Said(n, name) ==
  LET At == {p \in n + 1 .. Len(blob) - 1 :
               Token(blob, p) = "PROP" /\ blob[p + 1].name = name /\ IsParent(blob, n, p)}
  IN  IF At = {} THEN NoProp ELSE blob[Min(At) + 1].val
CellsBelow(n, name) == IF Said(n, name) = NoProp THEN 2 ELSE Said(n, name)[1]
ParentOf(n) == CHOOSE p \in Nodes(blob) : IsParent(blob, p, n)
ParentCells(n) == <<CellsBelow(ParentOf(n), "#address-cells"), CellsBelow(ParentOf(n), "#size-cells")>>

\* The value of the cells at the places from .. to of a property.
Value(cells, from, to) == MapThenSumSet(LAMBDA i : cells[i] * CELL ^ (to - i), from .. to)

\* The resources that the node lists when a register range has two address and
\* two size cells: its ranges that are not empty, then its interrupts, of three
\* cells each, as many as a device holds.
Listed(n) ==
  LET reg == Said(n, "reg")
      int == Said(n, "interrupts")
      Start(i) == Value(reg, 4 * i - 3, 4 * i - 2)
      Size(i)  == Value(reg, 4 * i - 1, 4 * i)
      ranges == [i \in 1 .. Min({Len(reg) \div 4, DEVICE_MAX_RESOURCES}) |->
                   [type |-> "mem", start |-> Start(i), end |-> Start(i) + Size(i) - 1]]
      lines  == [i \in 1 .. Len(int) \div 3 |->
                   LET irq == int[3 * i - 1] + (0 :> SPI_BASE @@ 1 :> PPI_BASE)[int[3 * i - 2]]
                   IN  [type |-> "irq", start |-> irq, end |-> irq]]
      all == SelectSeq(ranges, LAMBDA r : r.start <= r.end) \o lines
  IN  SubSeq(all, 1, Min({Len(all), DEVICE_MAX_RESOURCES}))

\* device_init makes one device of every enabled node, below the device of the
\* closest node above it that has one, with the resources that the node lists if
\* its parent has two address and two size cells.  (With other cells they are
\* misread: device_tree.c gets no parent from fdt_parent_offset.)  A pool that
\* runs out leaves out the nodes that come last in the blob, and of a device
\* either all resources or none; it is never used past its end.
EnumerationExact ==
  /\ pool.used <= pool.size
  /\ pc = "devmap_init" =>
       /\ Made \subseteq DeviceNodes /\ Cardinality(Made) = Len(dev) - 1
       /\ \A n \in Made, m \in DeviceNodes : m < n => m \in Made
       /\ NeverFull => Made = DeviceNodes
       /\ \A n \in Made : LET d == dev[DeviceOf(n)] IN
            /\ \/ d.resources = Listed(n)
               \/ d.resources = << >> /\ ~ NeverFull
               \/ ParentCells(n) # <<2, 2>>
            /\ d.parent = IF Above(n) = {} THEN root ELSE DeviceOf(Max(Above(n)))

\* The links of the device layer agree, through every registration, move,
\* binding and removal.  A device is among the children of its parent, once, and
\* of no other device; it is listed at most once, and one that left the list has
\* left the tree.  The references of a driver are the devices bound to it, one
\* that is not registered has none, and each device bound to a UART driver has a
\* context of its own.  The list of UARTs has all these contexts, unless it has
\* become a cycle, as it does when a context that was freed is registered again.
BindingsExact ==
  /\ \A d, p \in DOMAIN dev :
       Cardinality({i \in DOMAIN dev[p].children : dev[p].children[i] = d}) =
         IF dev[d].parent = p THEN 1 ELSE 0
  /\ IsInjective(devices)
  /\ \A d \in DOMAIN dev : d \notin Range(devices) => dev[d].parent = NULL
  /\ \A drv \in Driver :
       /\ ref_count[drv] = Cardinality({d \in DOMAIN dev : dev[d].driver = drv})
       /\ ref_count[drv] > 0 => drv \in Range(registry)
  /\ \A d \in DOMAIN dev :
       /\ dev[d].driver_data # NULL <=> dev[d].driver \in UartDriver
       /\ \A e \in DOMAIN dev \ {d} :
            dev[d].driver_data # NULL => dev[d].driver_data # dev[e].driver_data
  /\ uart_devices.ends => {dev[d].driver_data : d \in DOMAIN dev} \ {NULL} \subseteq Range(uart_devices.list)

\* driver_probe_device binds a device to a driver that no other registered
\* driver of the class outbids, unless the match is an exact one.
BestBound ==
  [][\A d \in DOMAIN dev :
       (dev[d].driver = None /\ dev'[d].driver # None) =>
         LET drv == dev'[d].driver IN
         \/ Score(drv, d) >= PROBE_SCORE_EXACT
         \/ \A other \in Range(registry) : Suits(other, d) => Score(other, d) <= Score(drv, d)]_vars

\* The node that stdout-path leads to, -1 if there is none.
StdoutNode ==
  LET chosen == fdt_path_offset(blob, <<"chosen">>) IN
  IF chosen = NotFound \/ Prop(chosen, "stdout-path") = NoProp THEN NotFound
  ELSE fdt_path_offset(blob, Prop(chosen, "stdout-path"))

\* The device whose context the console has: bound to a UART driver, with its
\* registers mapped.
Serving(d) ==
  /\ console_uart # NULL /\ dev[d].driver_data = console_uart
  /\ dev[d].driver \in UartDriver /\ d \in mapped

\* uart_console_auto_select gives the console a device that serves it.  It is the
\* device of the node that stdout-path leads to, when that node has a device and
\* no other device has its name: the device is looked up by the last component of
\* the path.  The device serves the console, which never changes, and no other
\* device gets the context, until the device is detached; from then on
\* console_uart is a context that was freed.
ConsoleServes ==
  [][/\ console_uart # console_uart' =>
         /\ console_uart = NULL
         /\ \E d \in DOMAIN dev' :
              /\ Serving(d)'
              /\ LET Name(e) == dev[e].name IN
                 StdoutNode \in Made /\ (\A e \in Range(devices) :
                      Name(e) = Name(DeviceOf(StdoutNode)) => e = DeviceOf(StdoutNode))
                   => dev[d].fdt_offset = StdoutNode
     /\ \A d \in DOMAIN dev :
          Serving(d) =>
            \/ Serving(d)' /\ \A e \in DOMAIN dev' \ {d} : ~ Serving(e)'
            \/ dev'[d].driver = None]_vars
=============================================================================
