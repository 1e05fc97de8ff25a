---------------------------- MODULE MCIrqDomain ----------------------------
(* Three settings of IrqDomain and Msi for TLC, of which a behaviour has    *)
(* one: a linear and a tree domain (1 and 2), a linear domain with two      *)
(* hierarchical ones (3, 4 and 5), a tree domain for two MSI devices (6).   *)
EXTENDS Msi

\* Domain 1 has one entry, hardware number 1 being outside of it.  The
\* children 4 and 5, of two entries and of one, use different entries of 3.
MCType == <<"LINEAR", "TREE", "LINEAR", "HIERARCHY", "HIERARCHY", "TREE">>
MCSize == <<1, 3, 3, 2, 1, 3>>
MCParent == <<0, 0, 0, 3, 3, 0>>
MCChildToParent ==
  [d \in 1 .. 6 |-> IF d = 4 THEN [h \in HwIrq |-> (h + 1) % 3] ELSE [h \in HwIrq |-> h]]
MCLines == {<<1, 0>>, <<1, 1>>, <<2, 1>>, <<2, 2>>, <<4, 0>>, <<4, 1>>, <<4, 2>>, <<5, 0>>}

\* All but the tree domains, and the tree domain.
Linear == {1, 3, 4, 5}
Tree == {2}

CONSTANTS dev1, dev2
MCMsiDev == {dev1, dev2}

CONSTANT Settings
AllSettings == {"roots", "cascade", "msi"}
RootsOnly == {"roots"}
MsiOnly == {"msi"}

VARIABLE setting

DomainsOf == [roots |-> {1, 2}, cascade |-> {3, 4, 5}, msi |-> {6}]

\* Bound: the numbers in use; there are handlers and ranges in "roots".
MaxVirqs == [roots |-> 2, cascade |-> MAX_VIRQ, msi |-> MAX_VIRQ]

\* Bound: numbers without a line, of irq_domain_alloc_irqs, are in "roots".
Ranges(s) == \E v \in DOMAIN s.desc : Mapped(s, v) /\ s.desc[v].hwirq = IRQ_INVALID

DevSymmetry == Permutations(MCMsiDev)

MCInit == MsiInit /\ setting \in Settings

DomainStep ==
  /\ setting # "msi"
  /\ Next
  /\ ToSet(irq_domain_list') \subseteq DomainsOf[setting]
  /\ st'.virqs \subseteq 1 .. MaxVirqs[setting]
  /\ Ranges(st') => setting = "roots"
  /\ UNCHANGED <<msiVars, setting>>

\* Bound: the vectors there are, forgotten ones included; there would be any
\* number, as hardware numbers are given out again.
MaxVectors == 3
NrVectors == Cardinality(Listed) + Cardinality(leaked)

MsiStep ==
  /\ setting = "msi"
  /\ MsiNext
  /\ NrVectors' <= MaxVectors
  /\ UNCHANGED setting

MCNext == DomainStep \/ MsiStep

MCSpec == MCInit /\ [][MCNext]_<<vars, msiVars, setting>>
=============================================================================
