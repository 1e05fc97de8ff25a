--------------------------- MODULE IrqDescProofs ----------------------------
(***************************************************************************)
(* The invariants of IrqDesc, proved for every set of devices, both        *)
(* dispatchers, and any nesting and chain length; and those of Gic, for    *)
(* any number of lines, any ranges of SPIs and any sequence of calls.      *)
(***************************************************************************)
EXTENDS IrqDesc, Gic, SequenceTheorems, TLAPS

\* DepthStatusMask is not inductive: it says nothing of the descriptor while
\* desc->lock is held, where the status is ahead of the controller by the
\* chip call still to be made.  Consistent says what holds then, too.
Consistent ==
  /\ disabled <=> depth > 0
  /\ task = "mask" => disabled
  /\ task = "unmask" => ~disabled
  /\ task \notin {"mask", "unmask"} => (disabled <=> masked)

\* The interrupt being handled is the one in service, and its line was
\* enabled when it was taken: the task cannot have moved since.
InService ==
  /\ claimed <=> irq # "none"
  /\ claimed => ~masked
  /\ inprogress => irq = "handlers"

IInv ==
  /\ TypeOK
  /\ lock <=> task \in {"edit", "mask", "unmask", "unlock"}
  /\ Consistent
  /\ InService
  /\ AllAgreedToShare

USE DEF disabled, inprogress, lock, masked, claimed

LEMMA InitInv == Init => IInv
<1> SUFFICES ASSUME Init PROVE IInv
  OBVIOUS
<1>1. <<>> \in Seq(Action) /\ Len(<<>>) = 0
  BY EmptySeq
<1>2. TypeOK
  BY <1>1 DEF Init, TypeOK
<1>3. AllAgreedToShare
  BY <1>1 DEF Init, AllAgreedToShare
<1> QED BY <1>2, <1>3 DEF Init, IInv, Consistent, InService

\* Unlinking an action leaves a shorter chain of actions of the old one.
LEMMA Unlink ==
  ASSUME NEW s \in Seq(Action), NEW i \in 1 .. Len(s)
  PROVE  /\ RemoveAt(s, i) \in Seq(Action)
         /\ Len(RemoveAt(s, i)) = Len(s) - 1
         /\ \A j \in 1 .. Len(RemoveAt(s, i)) :
              \E k \in 1 .. Len(s) : RemoveAt(s, i)[j] = s[k]
<1> DEFINE l == SubSeq(s, 1, i - 1)
           r == SubSeq(s, i + 1, Len(s))
<1>0. Len(s) \in Nat
  OBVIOUS
<1>1. /\ l \in Seq(Action) /\ Len(l) = i - 1
      /\ \A j \in 1 .. i - 1 : l[j] = s[j]
  BY SubSeqProperties
<1>2. /\ r \in Seq(Action) /\ Len(r) = Len(s) - i
      /\ \A j \in 1 .. Len(s) - i : r[j] = s[i + j]
  BY SubSeqProperties
<1> HIDE DEF l, r
<1>3. /\ l \o r \in Seq(Action) /\ Len(l \o r) = Len(l) + Len(r)
      /\ \A j \in 1 .. Len(l) + Len(r) :
           (l \o r)[j] = IF j <= Len(l) THEN l[j] ELSE r[j - Len(l)]
  BY <1>1, <1>2, ConcatProperties
<1>4. ASSUME NEW j \in 1 .. Len(s) - 1
      PROVE  \E k \in 1 .. Len(s) : (l \o r)[j] = s[k]
  <2>0. j \in 1 .. Len(l) + Len(r)
    BY <1>0, <1>1, <1>2
  <2>1. CASE j <= i - 1
    <3>1. j \in 1 .. i - 1 /\ j \in 1 .. Len(s)
      BY <2>1, <1>0
    <3> QED BY <3>1, <2>0, <1>1, <1>3
  <2>2. CASE j > i - 1
    <3>1. /\ j - Len(l) = j - i + 1 /\ ~ (j <= Len(l))
          /\ j - i + 1 \in 1 .. Len(s) - i
          /\ i + (j - i + 1) = j + 1 /\ j + 1 \in 1 .. Len(s)
      BY <2>2, <1>0, <1>1
    <3>2. (l \o r)[j] = r[j - i + 1] /\ r[j - i + 1] = s[i + (j - i + 1)]
      BY <3>1, <2>0, <1>2, <1>3
    <3>3. (l \o r)[j] = s[j + 1]
      BY <3>1, <3>2
    <3> QED
      <4> DEFINE k == j + 1
      <4>1. k \in 1 .. Len(s) /\ (l \o r)[j] = s[k]
        BY <3>1, <3>3
      <4> HIDE DEF k
      <4> QED BY <4>1
  <2>3. j <= i - 1 \/ j > i - 1
    BY <1>0
  <2> QED BY <2>1, <2>2, <2>3, Zenon
<1>5. Len(l \o r) = Len(s) - 1
  BY <1>0, <1>1, <1>2, <1>3
<1>6. RemoveAt(s, i) = l \o r
  BY DEF RemoveAt, l, r
<1> QED BY <1>3, <1>4, <1>5, <1>6

\* The stores of a call keep the descriptor's own consistency.
LEMMA EditInv == IInv /\ Edit => IInv'
<1> SUFFICES ASSUME IInv, Edit PROVE IInv'
  OBVIOUS
<1>0. /\ task = "edit" /\ call \in Calls \cup {NoCall} /\ irq = "none"
      /\ UNCHANGED <<locked, hw, irqVars>>
      /\ lock /\ action \in Seq(Action) /\ depth \in Nat
      /\ status \subseteq {"IRQ_DISABLED", "IRQ_INPROGRESS"}
      /\ disabled <=> depth > 0
      /\ disabled <=> masked
      /\ ~inprogress
      /\ AllAgreedToShare
  BY DEF IInv, Edit, TaskAt, TypeOK, Consistent, InService
<1>1. ASSUME /\ action' \in Seq(Action) /\ AllAgreedToShare'
             /\ depth' \in Nat
             /\ status' \subseteq {"IRQ_DISABLED", "IRQ_INPROGRESS"}
             /\ ~inprogress'
             /\ disabled' <=> depth' > 0
             /\ call' = call
             /\ \/ task' = "unlock" /\ status' = status
                \/ task' = "mask" /\ disabled'
                \/ task' = "unmask" /\ ~disabled'
      PROVE  IInv'
  <2>1. TypeOK'
    BY <1>0, <1>1 DEF IInv, TypeOK, hw, irqVars
  <2>2. Consistent'
    BY <1>0, <1>1 DEF Consistent, hw
  <2>3. InService'
    BY <1>0, <1>1 DEF IInv, InService, hw, irqVars
  <2> QED BY <1>0, <1>1, <2>1, <2>2, <2>3 DEF IInv
<1>2. CASE request_irq
  <2>1. call.act \in Action
    BY <1>0, <1>2 DEF request_irq, Calls, NoCall
  <2> DEFINE act == call.act
  <2>2. CASE /\ action = <<>> /\ action' = <<act>>
             /\ status' = status \ {"IRQ_DISABLED"} /\ depth' = 0
             /\ Goto("unmask")
    <3>1. <<act>> \in Seq(Action) /\ Len(<<act>>) = 1
      BY <2>1
    <3>2. AllAgreedToShare'
      BY <2>2, <3>1 DEF AllAgreedToShare
    <3> QED BY <1>0, <1>1, <2>2, <3>1, <3>2 DEF Goto
  <2>3. CASE /\ CanShare(act) /\ action' = Append(action, act)
             /\ UNCHANGED <<status, depth>> /\ Goto("unlock")
    <3>1. /\ Append(action, act) \in Seq(Action)
          /\ Len(Append(action, act)) = Len(action) + 1
          /\ \A i \in 1 .. Len(action) : Append(action, act)[i] = action[i]
          /\ Append(action, act)[Len(action) + 1] = act
      BY <1>0, <2>1, AppendProperties
    <3>2. \A i \in 1 .. Len(action) : action[i].shared
      BY <1>0, <2>3 DEF CanShare, AllAgreedToShare
    <3>3. AllAgreedToShare'
      BY <1>0, <2>3, <3>1, <3>2 DEF CanShare, AllAgreedToShare
    <3> QED BY <1>0, <1>1, <2>3, <3>1, <3>3 DEF Goto
  <2>4. CASE UNCHANGED <<status, depth, action>> /\ Goto("unlock")
    <3>1. AllAgreedToShare'
      BY <1>0, <2>4 DEF AllAgreedToShare
    <3> QED BY <1>0, <1>1, <2>4, <3>1 DEF Goto
  <2> QED BY <1>2, <2>2, <2>3, <2>4 DEF request_irq
<1>3. CASE free_irq
  <2>1. CASE UNCHANGED <<status, depth, action>> /\ Goto("unlock")
    <3>1. AllAgreedToShare'
      BY <1>0, <2>1 DEF AllAgreedToShare
    <3> QED BY <1>0, <1>1, <2>1, <3>1 DEF Goto
  <2>2. ASSUME NEW i \in 1 .. Len(action), action' = RemoveAt(action, i),
               IF Len(action) > 1
               THEN UNCHANGED <<status, depth>> /\ Goto("unlock")
               ELSE /\ status' = status \cup {"IRQ_DISABLED"} /\ depth' = 1
                    /\ Goto("mask")
        PROVE  IInv'
    <3>1. /\ action' \in Seq(Action)
          /\ Len(action') = Len(action) - 1
          /\ \A j \in 1 .. Len(action') :
               \E k \in 1 .. Len(action) : action'[j] = action[k]
      <4>1. action \in Seq(Action) /\ action' = RemoveAt(action, i)
        BY <1>0, <2>2
      <4>2. /\ RemoveAt(action, i) \in Seq(Action)
            /\ Len(RemoveAt(action, i)) = Len(action) - 1
            /\ \A j \in 1 .. Len(RemoveAt(action, i)) :
                 \E k \in 1 .. Len(action) : RemoveAt(action, i)[j] = action[k]
        BY <4>1, Unlink, Zenon
      <4> QED BY <4>1, <4>2, Zenon
    <3>2. AllAgreedToShare'
      BY <1>0, <3>1 DEF AllAgreedToShare
    <3>3. CASE Len(action) > 1
      BY <1>0, <1>1, <2>2, <3>1, <3>2, <3>3 DEF Goto
    <3>4. CASE ~ (Len(action) > 1)
      <4>1. /\ status' = status \cup {"IRQ_DISABLED"} /\ depth' = 1
            /\ task' = "mask" /\ call' = call
        BY <2>2, <3>4 DEF Goto
      <4>2. /\ disabled' /\ ~inprogress' /\ depth' \in Nat /\ depth' > 0
            /\ status' \subseteq {"IRQ_DISABLED", "IRQ_INPROGRESS"}
        BY <1>0, <4>1
      <4> QED BY <1>1, <3>1, <3>2, <4>1, <4>2
    <3> QED BY <3>3, <3>4
  <2> QED BY <1>3, <2>1, <2>2 DEF free_irq
<1>4. CASE enable_irq
  <2>1. AllAgreedToShare' /\ action' \in Seq(Action)
    BY <1>0, <1>4 DEF enable_irq, AllAgreedToShare
  <2> QED BY <1>0, <1>1, <1>4, <2>1 DEF enable_irq, Goto
<1>5. CASE disable_irq
  <2>1. AllAgreedToShare' /\ action' \in Seq(Action)
    BY <1>0, <1>5 DEF disable_irq, AllAgreedToShare
  <2> QED BY <1>0, <1>1, <1>5, <2>1 DEF disable_irq, Goto
<1> QED BY <1>2, <1>3, <1>4, <1>5 DEF Edit

\* A call that does not store to the descriptor keeps the invariant.
LEMMA CallInv == IInv /\ ((\E c \in Calls : Call(c)) \/ CallStep) => IInv'
<1> SUFFICES ASSUME IInv, (\E c \in Calls : Call(c)) \/ CallStep
             PROVE  IInv'
  OBVIOUS
<1>1. CASE Edit
  BY <1>1, EditInv
<1>2. ASSUME UNCHANGED <<depth, action, status, asserted, irqVars>>,
             irq = "none", TypeOK',
             lock' <=> task' \in {"edit", "mask", "unmask", "unlock"},
             Consistent', source' \ {"enabled"} = source \ {"enabled"}
      PROVE  IInv'
  <2>1. AllAgreedToShare'
    BY <1>2 DEF IInv, AllAgreedToShare
  <2>2. InService'
    BY <1>2 DEF IInv, InService, irqVars
  <2> QED BY <1>2, <2>1, <2>2 DEF IInv
<1>3. ASSUME NEW c \in Calls, Call(c) PROVE IInv'
  BY <1>2, <1>3 DEF Call, TaskAt, IInv, TypeOK, Consistent, desc, hw, irqVars
<1>4. CASE irq_to_desc_lock
  BY <1>2, <1>4 DEF irq_to_desc_lock, TaskAt, Goto, IInv, TypeOK, Consistent, desc, hw, irqVars
<1>5. CASE irq_to_desc_unlock
  BY <1>2, <1>5 DEF irq_to_desc_unlock, TaskAt, Goto, IInv, TypeOK, Consistent, desc, hw, irqVars
<1>6. CASE kmalloc_action
  BY <1>2, <1>6 DEF kmalloc_action, TaskAt, Goto, Return, IInv, TypeOK, Consistent, desc, hw, irqVars
<1>7. CASE spin_lock
  BY <1>2, <1>7 DEF spin_lock, TaskAt, Goto, IInv, TypeOK, Consistent, desc, hw, irqVars
<1>8. CASE chip_mask
  BY <1>2, <1>8 DEF chip_mask, TaskAt, Goto, IInv, TypeOK, Consistent, desc, irqVars
<1>9. CASE chip_unmask
  BY <1>2, <1>9 DEF chip_unmask, TaskAt, Goto, IInv, TypeOK, Consistent, desc, irqVars
<1>10. CASE spin_unlock
  BY <1>2, <1>10 DEF spin_unlock, TaskAt, Goto, Return, IInv, TypeOK, Consistent, desc, hw, irqVars
<1>11. CASE disable_irq_wait
  BY <1>2, <1>11 DEF disable_irq_wait, TaskAt, Return, IInv, TypeOK, Consistent, desc, hw, irqVars
<1> QED BY <1>1, <1>3, <1>4, <1>5, <1>6, <1>7, <1>8, <1>9, <1>10, <1>11
         DEF CallStep

\* Interrupt context keeps the invariant: it changes nothing the task relies
\* on but IRQ_INPROGRESS, and that it clears before the task moves on.
LEMMA IrqInv == IInv /\ ((\E d \in Dev : AssertLine(d)) \/ Trap \/ IrqStep) => IInv'
<1> SUFFICES ASSUME IInv, (\E d \in Dev : AssertLine(d)) \/ Trap \/ IrqStep
             PROVE  IInv'
  OBVIOUS
<1>1. ASSUME UNCHANGED <<depth, action, locked, taskVars>>, TypeOK', InService',
             disabled' = disabled, masked' = masked
      PROVE  IInv'
  <2>1. AllAgreedToShare'
    BY <1>1 DEF IInv, AllAgreedToShare
  <2>2. Consistent'
    BY <1>1 DEF IInv, Consistent, taskVars
  <2> QED BY <1>1, <2>1, <2>2 DEF IInv, taskVars
<1>2. ASSUME NEW d \in Dev, AssertLine(d) PROVE IInv'
  BY <1>1, <1>2 DEF AssertLine, IInv, TypeOK, InService, desc, taskVars, irqVars
<1>3. CASE Trap
  BY <1>1, <1>3 DEF Trap, IrqGoto, IInv, TypeOK, InService, desc, taskVars
<1>4. CASE irq_irq_to_desc
  BY <1>1, <1>4 DEF irq_irq_to_desc, IrqGoto, IInv, TypeOK, InService, desc, hw, taskVars
<1>6. CASE generic_handle_irq
  <2>1. ~disabled
    BY <1>6 DEF generic_handle_irq, IInv, Consistent, InService
  <2>2. TypeOK' /\ irq' = "handlers"
    BY <1>6, <2>1 DEF generic_handle_irq, IInv, TypeOK, hw, taskVars
  <2> QED BY <1>1, <1>6, <2>1, <2>2 DEF generic_handle_irq, IInv, InService, hw, taskVars
<1>7. CASE irq_handler
  <2>1. TypeOK' /\ irq' = "handlers"
    BY <1>7 DEF irq_handler, IInv, TypeOK, desc, hw, taskVars
  <2> QED BY <1>1, <1>7, <2>1 DEF irq_handler, IInv, InService, desc, hw, taskVars
<1>8. CASE handle
  <2>1. TypeOK'
    BY <1>8 DEF handle, IInv, TypeOK, desc, taskVars
  <2> QED BY <1>1, <1>8, <2>1 DEF handle, IInv, InService, desc, taskVars
<1>9. CASE finish
  BY <1>1, <1>9 DEF finish, IrqGoto, IInv, TypeOK, InService, taskVars
<1> QED BY <1>2, <1>3, <1>4, <1>6, <1>7, <1>8, <1>9 DEF IrqStep

LEMMA NextInv == IInv /\ [Next]_vars => IInv'
<1>1. IInv /\ UNCHANGED vars => IInv'
  BY DEF vars, desc, hw, taskVars, irqVars, IInv, TypeOK, Consistent, InService,
         AllAgreedToShare
<1> QED BY <1>1, CallInv, IrqInv DEF Next

\* The descriptor's status, its nesting count and the controller agree
\* whenever no call is inside its critical section, however interrupts and
\* request_irq, free_irq, enable_irq, disable_irq interleave.
THEOREM StatusAgrees == Spec => []DepthStatusMask
<1>1. IInv => DepthStatusMask
  BY DEF IInv, Consistent, DepthStatusMask
<1> QED BY <1>1, InitInv, NextInv, PTL DEF Spec

\* generic_handle_irq never leaves by its early return with an interrupt
\* claimed: each one is completed, and IRQ_INPROGRESS cleared.
THEOREM EveryClaimCompleted == Spec => []ClaimsCompleted
<1>1. IInv => ClaimsCompleted
  BY DEF IInv, InService, ClaimsCompleted
<1> QED BY <1>1, InitInv, NextInv, PTL DEF Spec

\* Outside the critical sections, only handlers of an enabled descriptor run,
\* with either dispatcher, one of which does not test IRQ_DISABLED.
THEOREM NoHandlerWhenDisabled == Spec => []HandlersEnabledOnly
<1>1. IInv => HandlersEnabledOnly
  BY DEF IInv, Consistent, InService, HandlersEnabledOnly
<1> QED BY <1>1, InitInv, NextInv, PTL DEF Spec

\* Several handlers on one line all asked for IRQF_SHARED.
THEOREM SharedByConsent == Spec => []AllAgreedToShare
<1>1. IInv => AllAgreedToShare
  BY DEF IInv
<1> QED BY <1>1, InitInv, NextInv, PTL DEF Spec

-----------------------------------------------------------------------------
(* The lines of the GIC are enabled, triggered and lent as Gic says. *)

\* What the callers of gic_msi_alloc_spi have lies in the range for messages,
\* which starts at a shared line and is not longer than the registers, so that
\* no number of it beyond the registers stands for another of it; with version
\* 3 it ends within the controller's lines.  Nothing is lent or mapped before
\* the controller is there.
InRange ==
  /\ nr_irqs \in Int /\ msi_spi_base \in Int /\ msi_spi_count \in Int
  /\ lent \subseteq [base : Int, count : Int]
  /\ \A r \in lent : Span(r.base, r.count) \subseteq Span(msi_spi_base, msi_spi_count)
  /\ nr_irqs <= ENABLER_LINES
  /\ msi_flags => /\ msi_spi_base >= GIC_SPI_BASE /\ msi_spi_count <= ENABLER_LINES
                  /\ version = "GIC_V3" => msi_spi_base + msi_spi_count <= nr_irqs
  /\ lent # {} => msi_flags
  /\ gic_primary \/ (lent = {} /\ mapped = {})

LinesInv == InRange /\ LinesExact

-----------------------------------------------------------------------------

\* A probe leaves every line disabled and nothing lent.
LEMMA ProbeKeeps == LinesInv /\ gic_probe => LinesInv'
<1> SUFFICES ASSUME LinesInv, gic_probe PROVE LinesInv'
  OBVIOUS
<1>1. lent = {} /\ mapped = {} /\ lent' = {} /\ mapped' = {} /\ Lent' = {}
  BY DEF LinesInv, InRange, gic_probe, Lent
<1>2. /\ nr_irqs' \in Int /\ GIC_SPI_BASE \in Int /\ GIC_SPI_BASE > 0
      /\ nr_irqs' <= ENABLER_LINES /\ ENABLER_LINES \in Int
      /\ MAX_NUM_SPI \in Int /\ MAX_NUM_SPI <= ENABLER_LINES
      /\ \A q \in SpiRanges : q[1] \in Int /\ q[2] \in Int
  BY GicAssumption DEF gic_probe
<1>3. enabled' \cap (0 .. nr_irqs' - 1) = {}
  BY <1>2 DEF gic_probe, gicv2_dist_init, gicv3_dist_init, SPIs
<1> DEFINE Ranged ==
             /\ msi_spi_base' \in Int /\ msi_spi_count' \in Int /\ msi_bitmap' = {}
             /\ msi_flags' => /\ msi_spi_base' >= GIC_SPI_BASE
                              /\ msi_spi_count' <= ENABLER_LINES
                              /\ version' = "GIC_V3" =>
                                   msi_spi_base' + msi_spi_count' <= nr_irqs'
<1>4. Ranged
  <2>1. CASE MsiRange(nr_irqs', 0, 0, FALSE)
    BY <2>1 DEF MsiRange
  <2>2. ASSUME NEW base \in Int, NEW count \in Int, NEW ok \in BOOLEAN,
               ok => /\ base >= GIC_SPI_BASE /\ count <= ENABLER_LINES
                     /\ version' = "GIC_V3" => base + count <= nr_irqs',
               MsiRange(nr_irqs', base, count, ok)
        PROVE  Ranged
    BY <2>2 DEF MsiRange
  <2>3. CASE version' = "GIC_V2" /\ gicv2_msi_init(nr_irqs')
    <3>1. CASE \E q \in SpiRanges, ok \in BOOLEAN :
                 /\ q[2] <= MAX_NUM_SPI /\ q[1] >= GIC_SPI_BASE
                 /\ MsiRange(nr_irqs', q[1], q[2], ok)
      <4>1. PICK q \in SpiRanges, ok \in BOOLEAN :
              /\ q[2] <= MAX_NUM_SPI /\ q[1] >= GIC_SPI_BASE
              /\ MsiRange(nr_irqs', q[1], q[2], ok)
        BY <3>1
      <4>2. q[1] \in Int /\ q[2] \in Int /\ q[2] <= ENABLER_LINES
        BY <1>2, <4>1
      <4> HIDE DEF Ranged
      <4> QED
        BY <2>2, <2>3, <4>1, <4>2
    <3> QED
      BY <2>1, <2>3, <3>1 DEF gicv2_msi_init
  <2>4. CASE gicv3_msi_init(nr_irqs')
    <3> DEFINE half == (nr_irqs' - GIC_SPI_BASE) \div 2
    <3>1. half \in Int
      BY <1>2
    <3>2. CASE \E r \in {q \in SpiRanges : q[1] # 0 /\ q[2] # 0}
                          \cup {<<GIC_SPI_BASE + half, half>>}, ok \in BOOLEAN :
                 /\ ok => r[1] >= GIC_SPI_BASE /\ r[1] + r[2] <= nr_irqs'
                 /\ MsiRange(nr_irqs', r[1], r[2], ok)
      <4> HIDE DEF half
      <4> QED
        BY <1>2, <2>2, <3>1, <3>2
    <3> QED
      BY <2>1, <2>4, <3>2 DEF gicv3_msi_init
  <2> QED
    BY <2>3, <2>4 DEF gic_probe
<1>5. InRange'
  BY <1>1, <1>2, <1>4 DEF InRange
<1>6. LentLive' /\ EnabledOwned'
  BY <1>1, <1>3, <1>4 DEF LentLive, EnabledOwned
<1> QED
  BY <1>5, <1>6 DEF LinesInv, LinesExact

\* Mapping, unmapping, masking and unmasking change no range.
LEMMA LineKeeps ==
  ASSUME NEW h \in Line, LinesInv,
         gic_domain_map(h) \/ gic_domain_unmap(h) \/ gic_irq_mask(h) \/ gic_irq_unmask(h)
  PROVE  LinesInv'
<1>1. /\ UNCHANGED <<version, nr_irqs, msi_flags, msi_spi_base, msi_spi_count,
                     msi_bitmap, lent, gic_primary, edge>>
      /\ prioritised \subseteq prioritised' /\ Lent' = Lent
  BY DEF gic_domain_map, gic_domain_unmap, gic_irq_mask, gic_irq_unmask, msi, Lent
<1>2. gic_primary
  BY DEF LinesInv, InRange, gic_domain_map, gic_domain_unmap, gic_irq_mask, gic_irq_unmask
<1>3. InRange'
  BY <1>1, <1>2 DEF LinesInv, InRange, Span, SPIs
<1>4. LentLive /\ EnabledOwned
  BY <1>2 DEF LinesInv, LinesExact
<1>5. (Lent' \cap SPIs(nr_irqs')) \ silenced' \subseteq enabled'
  BY <1>1, <1>4 DEF SPIs, LentLive, gic_domain_map, gic_domain_unmap, gic_irq_mask,
     gic_irq_unmask, Mask
<1>6. LentLive'
  BY <1>1, <1>4, <1>5 DEF LentLive, Span, SPIs
<1>7. EnabledOwned'
  BY <1>1, <1>4 DEF EnabledOwned, gic_domain_map, gic_domain_unmap, gic_irq_mask,
     gic_irq_unmask, Mask
<1> QED
  BY <1>3, <1>6, <1>7 DEF LinesInv, LinesExact

-----------------------------------------------------------------------------

\* The run that gic_msi_alloc_spi finds is nobody's.
LEMMA AllocKeeps ==
  ASSUME NEW n \in 1 .. msi_spi_count, LinesInv, gic_msi_alloc_spi(n)
  PROVE  LinesInv'
<1>1. PICK start \in Runs(n) :
        /\ msi_bitmap' = msi_bitmap \cup Span(start, n)
        /\ edge' = edge \cup (Span(msi_spi_base + start, n) \cap Line)
        /\ prioritised' = prioritised \cup (Span(msi_spi_base + start, n) \cap Line)
        /\ enabled' = Unmasked(Span(msi_spi_base + start, n))
        /\ silenced' = silenced \ Span(msi_spi_base + start, n)
        /\ lent' = lent \cup {[base |-> msi_spi_base + start, count |-> n]}
  BY DEF gic_msi_alloc_spi
<1> DEFINE new == [base |-> msi_spi_base + start, count |-> n]
           spis == Span(msi_spi_base + start, n)
<1>2. /\ gic_primary /\ msi_flags
      /\ UNCHANGED <<gic_primary, version, nr_irqs, msi_flags, msi_spi_base,
                     msi_spi_count, mapped>>
  BY DEF gic_msi_alloc_spi
<1>3. InRange /\ LentLive /\ EnabledOwned
  BY <1>2 DEF LinesInv, LinesExact
<1>4. /\ msi_spi_base \in Int /\ msi_spi_count \in Int /\ nr_irqs \in Int /\ n \in Int
      /\ start \in Int /\ 0 <= start /\ start + n <= msi_spi_count
      /\ Span(start, n) \cap msi_bitmap = {}
  BY <1>3 DEF InRange, Runs
<1>5. spis \subseteq Span(msi_spi_base, msi_spi_count)
  BY <1>4 DEF Span
<1>6. spis \cap Lent = {}
  <2> SUFFICES ASSUME NEW spi \in spis, spi \in Lent PROVE FALSE
    OBVIOUS
  <2> DEFINE i == spi - msi_spi_base
  <2>1. i \in Span(start, n) /\ i \in 0 .. msi_spi_count - 1 /\ msi_spi_base + i = spi
    BY <1>4 DEF Span
  <2> HIDE DEF i
  <2>2. i \in msi_bitmap
    BY <1>3, <2>1 DEF LentLive
  <2> QED
    BY <1>4, <2>1, <2>2
<1>7. Span(new.base, new.count) = spis /\ new \in [base : Int, count : Int]
  BY <1>4
<1>8. Lent' = Lent \cup spis
  BY <1>1, <1>7 DEF Lent, Span
<1>9. InRange'
  BY <1>1, <1>2, <1>3, <1>5, <1>7 DEF InRange, Span
<1> DEFINE other == {spi - ENABLER_LINES : spi \in spis \ Line}
<1>12. SPIs(nr_irqs) \subseteq Line /\ ENABLER_LINES \in Int /\ GIC_SPI_BASE \in Int
  BY <1>3, GicAssumption DEF InRange, SPIs, Line
<1>13. other \cap Span(msi_spi_base, msi_spi_count) = {}
  BY <1>2, <1>3, <1>4, <1>5, <1>12 DEF InRange, Span
<1>14. (Lent \cup spis) \cap other = {}
  BY <1>3, <1>5, <1>13 DEF Lent, InRange
<1>15. enabled' = (enabled \cup (spis \cap Line)) \ other
  BY <1>1 DEF Unmasked
<1> HIDE DEF other, spis
<1>10. LentLive'
  <2>1. msi_bitmap' = {i \in 0 .. msi_spi_count' - 1 : msi_spi_base' + i \in Lent'}
    BY <1>1, <1>2, <1>3, <1>4, <1>8 DEF LentLive, Span, spis
  <2>2. \A r, s \in lent' : r # s => Span(r.base, r.count) \cap Span(s.base, s.count) = {}
    <3>1. \A r \in lent : Span(r.base, r.count) \subseteq Lent
      BY DEF Lent
    <3> HIDE DEF new, spis
    <3> QED
      BY <1>1, <1>3, <1>6, <1>7, <3>1 DEF LentLive, new
  <2>3. SPIs(nr_irqs') = SPIs(nr_irqs)
    BY <1>2 DEF SPIs
  <2>4. Lent' \cap SPIs(nr_irqs) \subseteq edge' \cap prioritised'
    BY <1>1, <1>3, <1>8, <1>12 DEF LentLive, spis
  <2>5. (Lent' \cap SPIs(nr_irqs)) \ silenced' \subseteq enabled'
    BY <1>1, <1>3, <1>8, <1>12, <1>14, <1>15 DEF LentLive, spis
  <2>6. ASSUME version' = "GIC_V3" PROVE Lent' \subseteq SPIs(nr_irqs)
    <3>1. Span(msi_spi_base, msi_spi_count) \subseteq SPIs(nr_irqs)
      BY <1>2, <1>3, <1>4, <1>12, <2>6 DEF InRange, Span, SPIs
    <3> QED
      BY <1>2, <1>3, <1>5, <1>8, <2>6, <3>1 DEF LentLive
  <2> QED
    BY <2>1, <2>2, <2>3, <2>4, <2>5, <2>6 DEF LentLive, Span
<1>11. EnabledOwned'
  BY <1>1, <1>2, <1>3, <1>8, <1>15 DEF EnabledOwned
<1> QED
  BY <1>9, <1>10, <1>11 DEF LinesInv, LinesExact

\* What is freed is all that goes: the other ranges are apart from it.
LEMMA FreeKeeps ==
  ASSUME NEW r \in lent, LinesInv, gic_msi_free_spi(r)
  PROVE  LinesInv'
<1> DEFINE spis == Span(r.base, r.count)
<1>1. /\ UNCHANGED <<gic_primary, version, nr_irqs, edge, prioritised, msi_flags,
                     msi_spi_base, msi_spi_count, mapped>>
      /\ enabled' = enabled \ spis /\ lent' = lent \ {r} /\ silenced' = silenced \ spis
      /\ msi_bitmap' = msi_bitmap \ Span(r.base - msi_spi_base, r.count)
  BY DEF gic_msi_free_spi
<1>2. gic_primary /\ InRange /\ LentLive /\ EnabledOwned
  BY DEF LinesInv, LinesExact, InRange
<1>3. Lent' = Lent \ spis
  BY <1>1, <1>2 DEF Lent, LentLive, Span
<1>4. InRange'
  BY <1>1, <1>2 DEF InRange, Span, SPIs
<1>5. LentLive'
  <2>1. msi_bitmap' = {i \in 0 .. msi_spi_count' - 1 : msi_spi_base' + i \in Lent'}
    <3>1. r.base \in Int /\ r.count \in Int /\ msi_spi_base \in Int /\ msi_spi_count \in Int
      BY <1>2 DEF InRange
    <3> QED
      BY <1>1, <1>2, <1>3, <3>1 DEF LentLive, Span
  <2>2. \A q, s \in lent' : q # s => Span(q.base, q.count) \cap Span(s.base, s.count) = {}
    BY <1>1, <1>2 DEF LentLive
  <2>3. /\ Lent' \cap SPIs(nr_irqs') \subseteq edge' \cap prioritised'
        /\ version' = "GIC_V3" => Lent' \subseteq SPIs(nr_irqs')
    BY <1>1, <1>2, <1>3 DEF LentLive, SPIs
  <2>4. (Lent' \cap SPIs(nr_irqs')) \ silenced' \subseteq enabled'
    BY <1>1, <1>2, <1>3 DEF LentLive, SPIs
  <2> QED
    BY <2>1, <2>2, <2>3, <2>4 DEF LentLive, Span
<1>6. EnabledOwned'
  BY <1>1, <1>2, <1>3 DEF EnabledOwned
<1> QED
  BY <1>4, <1>5, <1>6 DEF LinesInv, LinesExact

-----------------------------------------------------------------------------

\* For a controller of either version, any range that passes the tests of the
\* code and any sequence of calls of the domain, of the chip and of
\* gic_msi_alloc_spi and gic_msi_free_spi: no line is enabled without an owner,
\* and the SPIs lent for messages are apart and in the bitmap; those that the
\* controller has are live, and with version 3 it has them all.
THEOREM LinesAlwaysExact == GicSpec => []LinesExact
<1>1. GicInit => LinesInv
  BY GicAssumption DEF GicInit, LinesInv, InRange, LinesExact
<1>2. LinesInv /\ [GicNext]_gicVars => LinesInv'
  <2> SUFFICES ASSUME LinesInv, [GicNext]_gicVars PROVE LinesInv'
    OBVIOUS
  <2>1. CASE gic_probe
    BY <2>1, ProbeKeeps
  <2>2. CASE \E h \in Line : \/ gic_domain_map(h) \/ gic_domain_unmap(h)
                             \/ gic_irq_mask(h) \/ gic_irq_unmask(h)
    BY <2>2, LineKeeps
  <2>3. CASE \E n \in 1 .. msi_spi_count : gic_msi_alloc_spi(n)
    BY <2>3, AllocKeeps
  <2>4. CASE \E r \in lent : gic_msi_free_spi(r)
    BY <2>4, FreeKeeps
  <2>5. CASE UNCHANGED gicVars
    BY <2>5 DEF gicVars, registers, msi, LinesInv, InRange, LinesExact, LentLive,
       EnabledOwned, Lent, Span, SPIs
  <2> QED
    BY <2>1, <2>2, <2>3, <2>4, <2>5 DEF GicNext
<1>3. LinesInv => LinesExact
  BY DEF LinesInv
<1> QED
  BY <1>1, <1>2, <1>3, PTL DEF GicSpec

=============================================================================
