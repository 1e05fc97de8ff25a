-------------------------------- MODULE Msi --------------------------------
(***************************************************************************)
(* Message signalled interrupts (kernel/irq/msi.c) on top of a tree        *)
(* domain: the vectors of a device are a reserved range of hardware        *)
(* numbers, each mapped by irq_create_mapping and recorded in a descriptor *)
(* on the list of the device.                                              *)
(*                                                                         *)
(* A call is one step, as in IrqDomain.  msi_alloc_vectors tests the       *)
(* number of a vector against 0, and irq_create_mapping fails with         *)
(* IRQ_INVALID: a vector that could not be mapped stays on the list.       *)
(***************************************************************************)
EXTENDS IrqDomain, SequencesExt

CONSTANTS
  MsiDev,           \* the devices
  msi_domain,       \* their domain
  MSI_MAX_VECTORS

ASSUME MsiAssumption ==
  /\ msi_domain \in Domain /\ type[msi_domain] = "TREE"
  /\ MSI_MAX_VECTORS \in Nat

VARIABLES
  msi_data,         \* msi_data[dev]: whether it exists, list and num_vectors
  leaked            \* history: the descriptors of devices that went with them

msiVars == <<msi_data, leaked>>

NoData == [live |-> FALSE, list |-> <<>>, num_vectors |-> 0]

MsiInit == Init /\ msi_data = [dev \in MsiDev |-> NoData] /\ leaked = {}

msi_device_init(dev) ==
  /\ Running /\ ~msi_data[dev].live
  /\ msi_data' = [msi_data EXCEPT ![dev].live = TRUE]
  /\ UNCHANGED <<vars, leaked>>

\* The descriptors have a second reference since they were added to the
\* list, so that they are unlinked and not freed; the mappings stay.
msi_device_cleanup(dev) ==
  /\ Running /\ msi_data[dev].live
  /\ msi_data' = [msi_data EXCEPT ![dev] = NoData]
  /\ leaked' = leaked \cup ToSet(msi_data[dev].list)
  /\ UNCHANGED vars

-----------------------------------------------------------------------------
(* msi_alloc_vectors works on s, a record of the mappings st, the data of  *)
(* the device and how many vectors are done; ok turns FALSE at the goto.   *)

\* The largest power of two up to n.
PowerBelow(n) == Max({k \in 1 .. n : \E e \in 0 .. n : k = 2 ^ e})

msi_desc_list_add(data, desc) ==
  [data EXCEPT !.list = Append(@, desc), !.num_vectors = @ + 1]

msi_desc_unlink(data, i) ==
  [data EXCEPT !.list = RemoveAt(@, i), !.num_vectors = @ - 1]

\* The vector with hardware number h; what fails is kmalloc, or one of the
\* steps of irq_create_mapping.
AddVector(s, h, fail) ==
  LET t == irq_create_mapping(s.st, msi_domain, h, fail, "none")
      desc == [hwirq |-> h, irq |-> irq_find_mapping(t, msi_domain, h)]
  IN IF ~s.ok THEN s
     ELSE IF fail = "kmalloc" THEN [s EXCEPT !.ok = FALSE]
     ELSE [s EXCEPT !.st = t, !.data = msi_desc_list_add(@, desc), !.done = @ + 1]

\* The first descriptor of the list with hardware number h goes.
DropVector(s, h) ==
  LET At == {i \in DOMAIN s.data.list : s.data.list[i].hwirq = h} IN
  IF At = {} THEN s
  ELSE [s EXCEPT !.st = irq_dispose_mapping(@, s.data.list[Min(At)].irq),
                 !.data = msi_desc_unlink(@, Min(At))]

\* Mutant: only the vectors that were mapped are given back.
CleanupMapped(s, base, nvec) ==
  LET t == FoldLeft(DropVector, s, [i \in 1 .. s.done |-> base + s.done - i])
  IN [t EXCEPT !.st = irq_domain_free_hwirq_range(@, msi_domain, base, s.done)]

\* The cleanup label: the vectors done, last first, then the range.
Cleanup(s, base, nvec) ==
  LET t == FoldLeft(DropVector, s, [i \in 1 .. s.done |-> base + s.done - i])
  IN [t EXCEPT !.st = irq_domain_free_hwirq_range(@, msi_domain, base, nvec)]

\* How many vectors a call makes of the least and the most that are asked for.
VectorCounts ==
  {nvec \in 1 .. MSI_MAX_VECTORS :
     \E min_vecs, max_vecs \in 1 .. MSI_MAX_VECTORS :
       min_vecs <= max_vecs /\ nvec = PowerBelow(max_vecs) /\ nvec >= min_vecs}

msi_alloc_vectors(dev, nvec) ==
  /\ msi_data[dev].live /\ msi_domain \in Registered
  /\ FreeHwRanges(st, msi_domain, nvec) # {}
  /\ \E fail \in [1 .. nvec -> Fail \cup {"kmalloc"}] :
       LET base == Min(FreeHwRanges(st, msi_domain, nvec))
           Add(s, i) == AddVector(s, base + i - 1, fail[i])
           s0 == [st |-> irq_domain_alloc_hwirq_range(st, msi_domain, nvec, "none"),
                  data |-> msi_data[dev], done |-> 0, ok |-> TRUE]
           s1 == FoldLeft(Add, s0, [i \in 1 .. nvec |-> i])
           s2 == IF s1.ok THEN s1 ELSE Cleanup(s1, base, nvec)
       IN Becomes(s2.st) /\ msi_data' = [msi_data EXCEPT ![dev] = s2.data]
  /\ UNCHANGED leaked

\* The last marker of the range cannot be inserted.
msi_alloc_no_range(nvec) ==
  /\ msi_domain \in Registered
  /\ Becomes(irq_domain_alloc_hwirq_range(st, msi_domain, nvec, "insert"))
  /\ UNCHANGED msiVars

FreeVector(s, desc) ==
  irq_domain_free_hwirq_range(irq_dispose_mapping(s, desc.irq),
                              msi_domain, desc.hwirq, 1)

msi_free_vectors(dev) ==
  /\ msi_data[dev].live /\ msi_domain \in Registered
  /\ Becomes(FoldLeft(FreeVector, st, msi_data[dev].list))
  /\ msi_data' = [msi_data EXCEPT ![dev].list = <<>>,
                    ![dev].num_vectors = @ - Len(msi_data[dev].list)]
  /\ UNCHANGED leaked

MsiOp ==
  \/ \E dev \in MsiDev :
       \/ msi_device_init(dev) \/ msi_device_cleanup(dev) \/ msi_free_vectors(dev)
       \/ \E nvec \in VectorCounts : msi_alloc_vectors(dev, nvec)
  \/ \E nvec \in VectorCounts \ {1} : msi_alloc_no_range(nvec)

MsiNext ==
  \/ irq_domain_create(msi_domain) /\ UNCHANGED msiVars
  \/ MsiOp

-----------------------------------------------------------------------------
(* Properties. *)

\* The places of the lists, and the descriptor at one.
Listed == UNION {{<<dev, i>> : i \in DOMAIN msi_data[dev].list} : dev \in MsiDev}
At(x) == msi_data[x[1]].list[x[2]]

\* Whatever failed in msi_alloc_vectors and in whatever order devices come,
\* allocate, free and go: a descriptor with a number has its mapping, which no
\* other one has; every hardware number that is taken in the domain is that of
\* some descriptor, so that none is taken for good; and num_vectors is the
\* length of the list.  Descriptors that msi_device_cleanup forgot count: their
\* mappings stay.  Of a descriptor without a number nothing is said: it has the
\* marker of its range only if the mapping failed before the marker was deleted.
VectorsExact ==
  LET Taken == {At(x) : x \in Listed} \cup leaked
  IN Running =>
       /\ \A dev \in MsiDev : msi_data[dev].num_vectors = Len(msi_data[dev].list)
       /\ \A x \in Listed : At(x).irq # IRQ_INVALID =>
            /\ \A y \in Listed : At(x).irq = At(y).irq => x = y
            /\ At(x) \notin leaked
       /\ \A c \in Taken : c.irq # IRQ_INVALID => st.map[msi_domain][c.hwirq] = c.irq
       /\ Keys(st, msi_domain) \subseteq {c.hwirq : c \in Taken}

\* Every vector that msi_alloc_vectors put on a list has a number, as the test
\* of its result says ("VIRQ should be mapped").
VectorsMapped == Running => \A x \in Listed : At(x).irq # IRQ_INVALID
=============================================================================
