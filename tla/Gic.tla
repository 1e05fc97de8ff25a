-------------------------------- MODULE Gic --------------------------------
(***************************************************************************)
(* The ARM interrupt controller as the kernel programs it, versions 2 and  *)
(* 3 (drivers/irqchip/arm-gic-common.c, arm-gic-v2.c, arm-gic-v3.c): which *)
(* lines are enabled, how they trigger, and the SPIs that are lent out for *)
(* messages.  A line is a number; that of a shared line, an SPI, is at     *)
(* least GIC_SPI_BASE.  The fields of a register word are written one at a *)
(* time, and the registers of private lines, which version 3 has in the    *)
(* redistributor, are not told from the others.                            *)
(***************************************************************************)
EXTENDS Integers

CONSTANTS
  GIC_SPI_BASE,
  GIC_MAX_INTERRUPTS,   \* numbers from here on have a special meaning
  ENABLER_LINES,        \* the lines for which there are registers, 1024
  MAX_NUM_SPI,          \* the most SPIs of a GICv2m frame
  NrIrqs,               \* numbers of lines that GICD_TYPER may give
  SpiRanges             \* ranges of SPIs, <<base, number>>, that MSI_TYPER or
                        \*   the device tree may give

\* Bound: the sum of a range's base and number does not wrap around at 32 bits.
ASSUME GicAssumption ==
  /\ GIC_SPI_BASE \in Nat \ {0}
  /\ GIC_MAX_INTERRUPTS \in Nat /\ ENABLER_LINES \in Nat
  /\ MAX_NUM_SPI \in 0 .. ENABLER_LINES
  /\ NrIrqs \subseteq GIC_SPI_BASE .. ENABLER_LINES
  /\ SpiRanges \subseteq Nat \X Nat

VARIABLES
  gic_primary,     \* a controller was probed
  version, nr_irqs,
  enabled, edge,   \* the lines that are enabled, and that trigger on edges
  prioritised,     \* the lines that have the default priority
  msi_flags,       \* messages are supported
  msi_spi_base, msi_spi_count, msi_bitmap,
  mapped,          \* the lines that have a descriptor
  lent,            \* ranges of SPIs that callers have: [base, count]
  silenced         \* lent SPIs that the chip's operations masked since

registers == <<enabled, edge, prioritised>>
msi == <<msi_flags, msi_spi_base, msi_spi_count, msi_bitmap>>
gicVars == <<gic_primary, version, nr_irqs, registers, msi, mapped, lent, silenced>>

Line == 0 .. ENABLER_LINES - 1
SPIs(n) == GIC_SPI_BASE .. n - 1
Span(base, count) == base .. base + count - 1
Lent == UNION {Span(r.base, r.count) : r \in lent}

-----------------------------------------------------------------------------
(* gic_probe, with the initialisation of either version.                   *)

\* Version 3 has the private lines' registers in the redistributor, which it
\* initialises too; version 2 leaves the priorities of private lines alone.
gicv2_dist_init(n) ==
  /\ enabled' = enabled \ (0 .. n - 1)
  /\ prioritised' = prioritised \cup SPIs(n)

gicv3_dist_init(n) ==
  /\ enabled' = (enabled \ SPIs(n)) \ (0 .. GIC_SPI_BASE - 1)
  /\ prioritised' = prioritised \cup SPIs(n) \cup (0 .. GIC_SPI_BASE - 1)

\* Messages on the SPIs from base on, count of them, all edge-triggered; none if
\* the range is wrong or kmalloc has no bitmap (~ok).
MsiRange(n, base, count, ok) ==
  /\ msi_flags' = ok
  /\ msi_spi_base' = base /\ msi_spi_count' = count /\ msi_bitmap' = {}
  /\ edge' = (edge \ SPIs(n)) \cup (IF ok THEN Span(base, count) \cap Line ELSE {})

\* There is no frame, or its range, which the device tree may override, is
\* wrong, or it is right; whether the controller has the lines is not tested.
gicv2_msi_init(n) ==
  \/ MsiRange(n, 0, 0, FALSE)
  \/ \E r \in SpiRanges, ok \in BOOLEAN :
       /\ r[1] >= GIC_SPI_BASE /\ r[1] < GIC_MAX_INTERRUPTS
       /\ r[2] # 0 /\ r[2] <= MAX_NUM_SPI
       /\ MsiRange(n, r[1], r[2], ok)

\* There is no MBI, or a range in the device tree, or the upper half of the SPIs.
gicv3_msi_init(n) ==
  LET half == (n - GIC_SPI_BASE) \div 2
  IN \/ MsiRange(n, 0, 0, FALSE)
     \/ \E r \in {q \in SpiRanges : q[1] # 0 /\ q[2] # 0} \cup {<<GIC_SPI_BASE + half, half>>},
           ok \in BOOLEAN :
          /\ ok => r[1] >= GIC_SPI_BASE /\ r[1] + r[2] <= n
          /\ MsiRange(n, r[1], r[2], ok)

\* The probe may fail after the registers are set, at the CPU interface or at
\* the domain, and another may follow, which starts from a cleared gic_data.
gic_probe ==
  /\ ~gic_primary
  /\ gic_primary' \in BOOLEAN
  /\ nr_irqs' \in NrIrqs
  /\ \/ version' = "GIC_V2" /\ gicv2_dist_init(nr_irqs') /\ gicv2_msi_init(nr_irqs')
     \/ version' = "GIC_V3" /\ gicv3_dist_init(nr_irqs') /\ gicv3_msi_init(nr_irqs')
  /\ UNCHANGED <<mapped, lent, silenced>>

-----------------------------------------------------------------------------
(* The operations of the domain and of the chip.  Nothing keeps a driver    *)
(* from mapping a line of the range for messages.                           *)

gic_domain_map(h) ==
  /\ gic_primary /\ h < nr_irqs /\ h \notin mapped
  /\ mapped' = mapped \cup {h}
  /\ prioritised' = prioritised \cup {h}
  /\ UNCHANGED <<gic_primary, version, nr_irqs, enabled, edge, msi, lent, silenced>>

Mask(h) ==
  /\ enabled' = enabled \ {h}
  /\ silenced' = silenced \cup ({h} \cap Lent)

gic_domain_unmap(h) ==
  /\ h \in mapped
  /\ Mask(h)
  /\ mapped' = mapped \ {h}
  /\ UNCHANGED <<gic_primary, version, nr_irqs, edge, prioritised, msi, lent>>

gic_irq_mask(h) ==
  /\ h \in mapped
  /\ Mask(h)
  /\ UNCHANGED <<gic_primary, version, nr_irqs, edge, prioritised, msi, mapped, lent>>

gic_irq_unmask(h) ==
  /\ h \in mapped
  /\ enabled' = enabled \cup {h}
  /\ silenced' = silenced \ {h}
  /\ UNCHANGED <<gic_primary, version, nr_irqs, edge, prioritised, msi, mapped, lent>>

-----------------------------------------------------------------------------
(* SPIs for messages.                                                       *)

\* Mutant: the search is not reset at an SPI that is taken.
RunsNotReset(count) ==
  {i \in 0 .. msi_spi_count - count : i \notin msi_bitmap}

\* Where runs of count free SPIs start.
Runs(count) ==
  {i \in 0 .. msi_spi_count - count : Span(i, count) \cap msi_bitmap = {}}

\* The registers that set the enable bits are followed by those that clear them:
\* to enable a number beyond the registers is to disable a line.
Unmasked(spis) ==
  (enabled \cup (spis \cap Line)) \ {spi - ENABLER_LINES : spi \in spis \ Line}

\* The first run, enabled at once.
gic_msi_alloc_spi(count) ==
  /\ gic_primary /\ msi_flags
  /\ \E start \in Runs(count) :
     LET spis == Span(msi_spi_base + start, count)
     IN /\ \A i \in Runs(count) : start <= i
        /\ msi_bitmap' = msi_bitmap \cup Span(start, count)
        /\ edge' = edge \cup (spis \cap Line)
        /\ prioritised' = prioritised \cup (spis \cap Line)
        /\ enabled' = Unmasked(spis)
        /\ silenced' = silenced \ spis
        /\ lent' = lent \cup {[base |-> msi_spi_base + start, count |-> count]}
  /\ UNCHANGED <<gic_primary, version, nr_irqs, msi_flags, msi_spi_base, msi_spi_count, mapped>>

\* By the caller that has them.
gic_msi_free_spi(r) ==
  /\ r \in lent
  /\ enabled' = enabled \ Span(r.base, r.count)
  /\ msi_bitmap' = msi_bitmap \ Span(r.base - msi_spi_base, r.count)
  /\ lent' = lent \ {r}
  /\ silenced' = silenced \ Span(r.base, r.count)
  /\ UNCHANGED <<gic_primary, version, nr_irqs, edge, prioritised, msi_flags, msi_spi_base,
                 msi_spi_count, mapped>>

-----------------------------------------------------------------------------

\* What the firmware leaves is unknown.
GicInit ==
  /\ gic_primary = FALSE /\ version = "GIC_V2" /\ nr_irqs = 0
  /\ enabled \in {{}, Line} /\ edge \in {{}, Line} /\ prioritised = {}
  /\ msi_flags = FALSE /\ msi_spi_base = 0 /\ msi_spi_count = 0 /\ msi_bitmap = {}
  /\ mapped = {} /\ lent = {} /\ silenced = {}

GicNext ==
  \/ gic_probe
  \/ \E h \in Line : \/ gic_domain_map(h) \/ gic_domain_unmap(h)
                     \/ gic_irq_mask(h) \/ gic_irq_unmask(h)
  \/ \E count \in 1 .. msi_spi_count : gic_msi_alloc_spi(count)
  \/ \E r \in lent : gic_msi_free_spi(r)

GicSpec == GicInit /\ [][GicNext]_gicVars

-----------------------------------------------------------------------------
(* Properties. *)

\* The bitmap has exactly the SPIs that callers have, and no two callers have
\* one; each that the controller has triggers on edges, has its priority and is
\* enabled unless the chip's mask was called on it, whatever was allocated,
\* freed, mapped and unmapped around it.  That the controller has all of them
\* holds for version 3 only: gicv2_msi_init does not test it.
LentLive ==
  /\ msi_bitmap = {i \in 0 .. msi_spi_count - 1 : msi_spi_base + i \in Lent}
  /\ \A r, s \in lent : r # s => Span(r.base, r.count) \cap Span(s.base, s.count) = {}
  /\ Lent \cap SPIs(nr_irqs) \subseteq edge \cap prioritised
  /\ (Lent \cap SPIs(nr_irqs)) \ silenced \subseteq enabled
  /\ version = "GIC_V3" => Lent \subseteq SPIs(nr_irqs)

\* A line is enabled only while it is mapped or lent for messages, whatever
\* state the firmware left it in and whoever had it before; and what is mapped
\* has its priority.
EnabledOwned ==
  /\ enabled \cap (0 .. nr_irqs - 1) \subseteq mapped \cup Lent
  /\ mapped \subseteq prioritised

\* Once gic_probe succeeded, LentLive and EnabledOwned hold.
LinesExact == gic_primary => LentLive /\ EnabledOwned
=============================================================================
