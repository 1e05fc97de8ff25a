-------------------------- MODULE IrqDomainCreate --------------------------
(***************************************************************************)
(* The steps irq_create_mapping is made of, and irq_create_mapping in a    *)
(* linear or tree domain, keep what holds of the mappings of interrupt     *)
(* domains (kernel/irq/irq_domain.c).                                      *)
(***************************************************************************)
EXTENDS IrqDomainLemmas

-----------------------------------------------------------------------------
(* What irq_create_mapping is built from. *)

LEMMA FindMapping ==
  ASSUME NEW s, NEW pv, NEW pd, NEW ph, NEW X, Good(s, pv, pd, ph, X),
         NEW d \in Domain, NEW h \in HwIrq
  PROVE  irq_find_mapping(s, d, h) = IF s.map[d][h] \in Virq THEN s.map[d][h] ELSE IRQ_INVALID
<1>1. s.map[d][h] \in Virq \cup {NULL, RESERVED}
  BY Fields DEF Good, Tables, Slot
<1>2. type[d] # "TREE" => /\ s.map[d][h] # RESERVED
                          /\ h >= size[d] => s.map[d][h] = NULL
                          /\ s.revmap[d][h] = IF s.map[d][h] = NULL THEN IRQ_INVALID
                                              ELSE s.map[d][h]
  BY DEF Good, Tables
<1> QED BY <1>1, <1>2, Constants DEF irq_find_mapping

\* A set of numbers that is not empty has a least one.
WellOrdered == \A T \in SUBSET Nat : T # {} => Min(T) \in T

LEMMA AllocNumber ==
  ASSUME WellOrdered, NEW s, ~(Virq \subseteq s.virqs)
  PROVE  virq_alloc(s) \in Virq \ s.virqs
<1>1. PICK S : S = Virq \ s.virqs
  BY Zenon
<1>2. S # {} /\ S \subseteq Nat
  BY <1>1 DEF Virq
<1>3. Min(S) \in S
  BY <1>2 DEF WellOrdered
<1> QED BY <1>1, <1>3 DEF virq_alloc

\* A number without a mapping, and what its descriptor can be.
LEMMA Unused ==
  ASSUME NEW s, NEW pv, NEW pd, NEW ph, NEW X, Good(s, pv, pd, ph, X),
         NEW v \in Virq, ~Mapped(s, v)
  PROVE  /\ NoChild(s, v)
         /\ v \in DOMAIN s.desc => /\ s.desc[v].domain = NULL /\ s.desc[v].hwirq = IRQ_INVALID
                                   /\ s.desc[v].parent_desc = NULL
         /\ v # pv => \A d \in Domain, h \in HwIrq : s.map[d][h] # v
<1>1. NoChild(s, v)
  <2> SUFFICES ASSUME NEW u \in DOMAIN s.desc, s.desc[u].parent_desc = v
               PROVE  FALSE
    BY DEF NoChild
  <2>1. v # NULL
    BY Constants
  <2>2. ChildAt(s, u, s.desc[u].domain, s.desc[u].hwirq, s.desc[u].parent_desc)
    BY <2>1, ParentOf
  <2> QED BY <2>2 DEF ChildAt
<1>2. v \in DOMAIN s.desc => /\ s.desc[v].domain = NULL /\ s.desc[v].hwirq = IRQ_INVALID
                             /\ s.desc[v].parent_desc = NULL
  BY DEF Good, Numbers, Links, Cascaded, Mapped
<1>3. v # pv => \A d \in Domain, h \in HwIrq : s.map[d][h] # v
  BY DEF Good, Entries
<1> QED BY <1>1, <1>2, <1>3

\* What a call leaves behind: it worked, or the kernel panicked.
Fine(s, pv, pd, ph, R) ==
  s \in States /\ Within(s, R) /\ (Good(s, pv, pd, ph, {}) \/ s.panicked)

LEMMA DisposeFine ==
  ASSUME Exclusive, NEW s, NEW pv, NEW pd, NEW ph, Good(s, pv, pd, ph, {}),
         NEW R, Within(s, R), NEW v \in Virq, Mapped(s, v), NoChild(s, v)
  PROVE  Fine(irq_dispose_mapping(s, v), pv, pd, ph, R)
<1>1. PICK t : t = irq_dispose_mapping(s, v)
  BY Zenon
<1>2. Good(t, pv, pd, ph, {}) /\ Disposed(t, s, v)
  BY <1>1, DisposeGood
<1>3. Within(t, R)
  BY <1>2 DEF Within, Disposed
<1> QED BY <1>1, <1>2, <1>3 DEF Fine, Good

LEMMA Panic ==
  ASSUME NEW s \in States
  PROVE  [s EXCEPT !.panicked = TRUE] \in States
         /\ [s EXCEPT !.panicked = TRUE].desc = s.desc
         /\ [s EXCEPT !.panicked = TRUE].panicked
  BY DEF States

\* Descriptors that belong to no domain may go.
LEMMA LessGood ==
  ASSUME NEW s, NEW pv, NEW pd, NEW ph, Good(s, pv, pd, ph, {}), NEW vs \in SUBSET Virq,
         \A v \in vs : ~Mapped(s, v) /\ v # pv /\ NoChild(s, v),
         NEW t, DescsFreed(t, s, vs)
  PROVE  Good(t, pv, pd, ph, {})
<1>1. \A u : Mapped(t, u) <=> Mapped(s, u)
  BY DEF DescsFreed, Mapped
<1>2. Numbers(t, pv)
  <2>1. \A u \in Virq : u \in t.virqs <=> Mapped(t, u) \/ u = pv
    BY <1>1 DEF Good, Numbers, DescsFreed
  <2>2. pv \in Virq => pv \in DOMAIN t.desc /\ ~Mapped(t, pv)
    BY <1>1 DEF Good, Numbers, DescsFreed
  <2>3. \A u \in DOMAIN t.desc : ~Mapped(t, u) => t.desc[u].hwirq = IRQ_INVALID
    BY <1>1 DEF Good, Numbers, DescsFreed
  <2> QED BY <2>1, <2>2, <2>3 DEF Numbers
<1>3. Entries(t, pv, pd, ph)
  BY <1>1 DEF Good, Entries, DescsFreed, Mapped
<1>4. Tables(t)
  BY DEF Good, Tables, DescsFreed
<1>5. Links(t, {})
  <2> SUFFICES ASSUME NEW u \in DOMAIN t.desc
               PROVE  IF Cascaded(t, u) /\ u \notin {} THEN Linked(t, u)
                      ELSE t.desc[u].parent_desc = NULL
    BY DEF Links
  <2>1. u \in DOMAIN s.desc /\ t.desc[u] = s.desc[u] /\ s.desc[u].parent_desc \notin vs
    BY DEF DescsFreed, NoChild
  <2>2. Cascaded(t, u) <=> Cascaded(s, u)
    BY <1>1, <2>1 DEF Cascaded
  <2>3. IF Cascaded(s, u) THEN Linked(s, u) ELSE s.desc[u].parent_desc = NULL
    BY <2>1 DEF Good, Links
  <2>4. \A p \in DOMAIN s.desc : p \notin vs => p \in DOMAIN t.desc /\ t.desc[p] = s.desc[p]
    BY DEF DescsFreed
  <2> QED BY <2>1, <2>2, <2>3, <2>4 DEF Linked
<1> QED BY <1>2, <1>3, <1>4, <1>5 DEF Good, DescsFreed

\* irq_desc_free of a descriptor that belongs to no domain.
LEMMA FreeUnmapped ==
  ASSUME NEW s, NEW pv, NEW pd, NEW ph, Good(s, pv, pd, ph, {}),
         NEW R, Within(s, R), NEW v \in DOMAIN s.desc, ~Mapped(s, v), v # pv
  PROVE  Fine(irq_desc_free(s, v), pv, pd, ph, R)
<1>1. s \in States /\ v \in Virq
  BY Fields DEF Good
<1>2. CASE s.desc[v].handler # NoHandler
  <2>1. irq_desc_free(s, v) = [s EXCEPT !.panicked = TRUE]
    BY <1>2 DEF irq_desc_free, FreeDescs
  <2>2. PICK t : t = [s EXCEPT !.panicked = TRUE]
    BY Zenon
  <2>3. t \in States /\ t.desc = s.desc /\ t.panicked
    BY <1>1, <2>2, Panic
  <2>4. Fine(t, pv, pd, ph, R)
    BY <2>3 DEF Fine, Within
  <2> QED BY <2>1, <2>2, <2>4
<1>3. CASE s.desc[v].handler = NoHandler
  <2>1. PICK t : t = FreeDescs(s, {v})
    BY Zenon
  <2>2. /\ NoChild(s, v) /\ \A d \in Domain, h \in HwIrq : s.map[d][h] # v
    BY <1>1, Unused
  <2>3. /\ \A u \in {v} : s.desc[u].handler = NoHandler
        /\ \A u \in DOMAIN s.desc \ {v} : s.desc[u].parent_desc \notin {v}
        /\ \A d \in Domain, h \in HwIrq : s.map[d][h] \notin {v}
    BY <1>3, <2>2 DEF NoChild
  <2>4. DescsFreed(t, s, {v})
    BY <1>1, <2>1, <2>3, FreeDescsFields
  <2>5. Good(t, pv, pd, ph, {})
    BY <1>1, <2>2, <2>4, LessGood
  <2>6. Fine(t, pv, pd, ph, R)
    BY <2>4, <2>5 DEF Fine, Within, DescsFreed
  <2> QED BY <2>1, <2>6 DEF irq_desc_free
<1> QED BY <1>2, <1>3

\* The descriptors of s and a blank one for v.
Blank(t, s, v) ==
  /\ DOMAIN t.desc = DOMAIN s.desc \cup {v}
  /\ \A u \in DOMAIN s.desc : u # v => t.desc[u] = s.desc[u]
  /\ t.desc[v].domain = NULL /\ t.desc[v].hwirq = IRQ_INVALID /\ t.desc[v].parent_desc = NULL

\* The number v and a descriptor for it, which belongs to no domain.
Fresh(t, s, v) ==
  /\ t \in States /\ t.virqs = s.virqs \cup {v} /\ t.map = s.map /\ t.revmap = s.revmap
  /\ t.panicked = s.panicked /\ t.wild = s.wild
  /\ Blank(t, s, v)

LEMMA PrepareFresh ==
  ASSUME WellOrdered, NEW s, NEW pv, NEW pd, NEW ph, Good(s, pv, pd, ph, {}), ~(Virq \subseteq s.virqs),
         NEW fail, Prepare(s, fail) # s
  PROVE  Fresh(Prepare(s, fail), s, virq_alloc(s))
<1>1. PICK v, t : v = virq_alloc(s) /\ t = Prepare(s, fail)
  BY Zenon
<1>2. v \in Virq \ s.virqs
  BY <1>1, AllocNumber
<1>3. s \in States /\ ~Mapped(s, v)
  BY <1>2 DEF Good, Numbers
<1>4. PICK r : r = [s EXCEPT !.virqs = @ \cup {v}]
  BY Zenon
<1>5. /\ r \in States /\ r.virqs = s.virqs \cup {v} /\ r.desc = s.desc /\ r.map = s.map
      /\ r.revmap = s.revmap /\ r.panicked = s.panicked /\ r.wild = s.wild
  <2>1. s.virqs \cup {v} \in SUBSET Virq
    BY <1>2, <1>3, Fields
  <2>2. r = [s EXCEPT !.virqs = s.virqs \cup {v}]
    BY <1>4
  <2> QED BY <1>3, <2>1, <2>2, Replace
<1>6. PICK D, x : D = DOMAIN s.desc \cup {v} /\ x = [u \in D |-> Found(r, u)]
  BY Zenon
<1>7. t = [r EXCEPT !.desc = x]
  BY <1>1, <1>4, <1>5, <1>6 DEF Prepare, irq_desc_alloc
<1>8. NewDesc \in Desc /\ NewDesc.domain = NULL /\ NewDesc.hwirq = IRQ_INVALID
      /\ NewDesc.parent_desc = NULL
  BY Constants DEF NewDesc, Desc
<1>9. D \in SUBSET Virq /\ x \in [D -> Desc]
  <2>1. D \in SUBSET Virq
    BY <1>2, <1>3, <1>6, Fields
  <2>2. \A u \in D : Found(r, u) \in Desc
    BY <1>5, <1>8, DescFields DEF Found
  <2> QED BY <1>6, <2>1, <2>2
<1>10. /\ t \in States /\ t.virqs = s.virqs \cup {v} /\ t.map = s.map /\ t.revmap = s.revmap
       /\ t.panicked = s.panicked /\ t.wild = s.wild /\ t.desc = x
  BY <1>5, <1>7, <1>9, Replace
<1>11. Blank(t, s, v)
  <2>1. DOMAIN t.desc = DOMAIN s.desc \cup {v}
    BY <1>6, <1>10
  <2>2. \A u \in DOMAIN s.desc : t.desc[u] = s.desc[u]
    BY <1>5, <1>6, <1>10 DEF Found
  <2>3. v \in DOMAIN s.desc => /\ s.desc[v].domain = NULL /\ s.desc[v].hwirq = IRQ_INVALID
                               /\ s.desc[v].parent_desc = NULL
    BY <1>2, <1>3, Unused
  <2>4. v \notin DOMAIN s.desc => t.desc[v] = NewDesc
    BY <1>5, <1>6, <1>10 DEF Found
  <2> QED BY <1>8, <2>1, <2>2, <2>3, <2>4 DEF Blank
<1> QED BY <1>1, <1>10, <1>11 DEF Fresh

\* A spare descriptor, or a marker less, changes nothing.
Spare(t, s, v) ==
  /\ t \in States /\ t.virqs = s.virqs /\ t.revmap = s.revmap
  /\ t.panicked = s.panicked /\ t.wild = s.wild
  /\ Blank(t, s, v)
  /\ \A d \in Domain, h \in HwIrq : \/ t.map[d][h] = s.map[d][h]
                                    \/ s.map[d][h] = RESERVED /\ t.map[d][h] = NULL

LEMMA SpareGood ==
  ASSUME NEW s, NEW pv, NEW pd, NEW ph, Good(s, pv, pd, ph, {}),
         NEW R, Within(s, R), NEW v \in Virq \ s.virqs, NEW t, Spare(t, s, v)
  PROVE  /\ Good(t, pv, pd, ph, {}) /\ Within(t, R)
         /\ v \in DOMAIN t.desc /\ ~Mapped(t, v) /\ v # pv
<1>1. ~Mapped(s, v) /\ v # pv
  BY DEF Good, Numbers
<1>2. NoChild(s, v)
  BY <1>1, Unused
<1>3. v \in DOMAIN t.desc /\ ~Mapped(t, v)
  BY DEF Spare, Blank, Mapped
<1>4. \A u : Mapped(t, u) <=> Mapped(s, u)
  BY <1>1, <1>3 DEF Spare, Blank, Mapped
<1>5. Within(t, R)
  BY DEF Spare, Blank, Within
<1>6. Numbers(t, pv)
  <2>1. \A u \in Virq : u \in t.virqs <=> Mapped(t, u) \/ u = pv
    BY <1>4 DEF Good, Numbers, Spare
  <2>2. pv \in Virq => pv \in DOMAIN t.desc /\ ~Mapped(t, pv)
    BY <1>4 DEF Good, Numbers, Spare, Blank
  <2>3. \A u \in DOMAIN t.desc : ~Mapped(t, u) => t.desc[u].hwirq = IRQ_INVALID
    BY <1>4 DEF Good, Numbers, Spare, Blank
  <2> QED BY <2>1, <2>2, <2>3 DEF Numbers
<1>7. Entries(t, pv, pd, ph)
  <2>1. \A d \in Domain, h \in HwIrq, u \in Virq : t.map[d][h] = u <=> s.map[d][h] = u
    BY Constants DEF Spare
  <2>2. \A u \in Virq : Mapped(s, u) => t.desc[u] = s.desc[u]
    BY <1>1 DEF Spare, Blank, Mapped
  <2> QED BY <1>4, <2>1, <2>2 DEF Good, Entries
<1>8. Tables(t)
  BY Constants DEF Good, Tables, Spare
<1>9. Links(t, {})
  <2> SUFFICES ASSUME NEW u \in DOMAIN t.desc
               PROVE  IF Cascaded(t, u) /\ u \notin {} THEN Linked(t, u)
                      ELSE t.desc[u].parent_desc = NULL
    BY DEF Links
  <2>1. CASE u = v
    BY <1>3, <2>1 DEF Spare, Blank, Cascaded
  <2>2. CASE u # v
    <3>1. u \in DOMAIN s.desc /\ t.desc[u] = s.desc[u] /\ s.desc[u].parent_desc # v
      BY <1>2, <2>2 DEF Spare, Blank, NoChild
    <3>2. Cascaded(t, u) <=> Cascaded(s, u)
      BY <1>4, <3>1 DEF Cascaded
    <3>3. IF Cascaded(s, u) THEN Linked(s, u) ELSE s.desc[u].parent_desc = NULL
      BY <3>1 DEF Good, Links
    <3>4. \A p \in DOMAIN s.desc : p # v => p \in DOMAIN t.desc /\ t.desc[p] = s.desc[p]
      BY DEF Spare, Blank
    <3> QED BY <3>1, <3>2, <3>3, <3>4 DEF Linked
  <2> QED BY <2>1, <2>2
<1>10. Good(t, pv, pd, ph, {})
  BY <1>6, <1>7, <1>8, <1>9 DEF Good, Spare
<1> QED BY <1>1, <1>3, <1>5, <1>10

\* The state after Prepare, with a marker less perhaps: what Abandon undoes.
Taken(t, s, v) ==
  /\ t \in States /\ t.virqs = s.virqs \cup {v} /\ t.revmap = s.revmap
  /\ t.panicked = s.panicked /\ t.wild = s.wild
  /\ Blank(t, s, v)
  /\ \A d \in Domain, h \in HwIrq : \/ t.map[d][h] = s.map[d][h]
                                    \/ s.map[d][h] = RESERVED /\ t.map[d][h] = NULL

NumberFreed(t, s, v) ==
  /\ t \in States /\ t.virqs = s.virqs \ {v} /\ t.desc = s.desc /\ t.map = s.map
  /\ t.revmap = s.revmap /\ t.panicked = s.panicked /\ t.wild = s.wild

LEMMA VirqFreeFields ==
  ASSUME NEW s \in States, NEW v
  PROVE  NumberFreed(virq_free(s, v), s, v)
<1>1. PICK t : t = virq_free(s, v)
  BY Zenon
<1>2. s.virqs \ {v} \in SUBSET Virq
  BY Fields
<1>3. t = [s EXCEPT !.virqs = s.virqs \ {v}]
  BY <1>1 DEF virq_free
<1>4. NumberFreed(t, s, v)
  BY <1>2, <1>3, Replace DEF NumberFreed
<1> QED BY <1>1, <1>4

LEMMA AbandonFine ==
  ASSUME NEW s, NEW pv, NEW pd, NEW ph, Good(s, pv, pd, ph, {}),
         NEW R, Within(s, R), NEW v \in Virq \ s.virqs, NEW t, Taken(t, s, v)
  PROVE  Fine(Abandon(t, v), pv, pd, ph, R)
<1>1. PICK x : x = virq_free(t, v)
  BY Zenon
<1>2. NumberFreed(x, t, v)
  BY <1>1, VirqFreeFields DEF Taken
<1>3. (s.virqs \cup {v}) \ {v} = s.virqs
  OBVIOUS
<1>4. Spare(x, s, v)
  BY <1>2, <1>3 DEF NumberFreed, Taken, Spare, Blank
<1>5. /\ Good(x, pv, pd, ph, {}) /\ Within(x, R)
      /\ v \in DOMAIN x.desc /\ ~Mapped(x, v) /\ v # pv
  BY <1>4, SpareGood
<1>6. Fine(irq_desc_free(x, v), pv, pd, ph, R)
  BY <1>5, FreeUnmapped
<1> QED BY <1>1, <1>6 DEF Abandon

\* The state with c as the descriptor of v.
DescSet(t, s, v, c) ==
  /\ t \in States /\ t.virqs = s.virqs /\ t.map = s.map /\ t.revmap = s.revmap
  /\ t.panicked = s.panicked /\ t.wild = s.wild
  /\ DOMAIN t.desc = DOMAIN s.desc /\ t.desc[v] = c
  /\ \A u \in DOMAIN s.desc : u # v => t.desc[u] = s.desc[u]

LEMMA SetDesc ==
  ASSUME NEW s \in States, NEW v \in DOMAIN s.desc, NEW c \in Desc
  PROVE  DescSet([s EXCEPT !.desc[v] = c], s, v, c)
<1>1. PICK x : x = [s.desc EXCEPT ![v] = c]
  BY Zenon
<1>2. PICK t : t = [s EXCEPT !.desc = x]
  BY Zenon
<1>3. x \in [DOMAIN s.desc -> Desc] /\ DOMAIN s.desc \in SUBSET Virq
  BY <1>1, Fields
<1>4. /\ t \in States /\ t.desc = x /\ t.virqs = s.virqs /\ t.map = s.map
      /\ t.revmap = s.revmap /\ t.panicked = s.panicked /\ t.wild = s.wild
  BY <1>2, <1>3, Replace
<1>5. DescSet(t, s, v, c)
  BY <1>1, <1>4 DEF DescSet
<1>6. t = [s EXCEPT !.desc[v] = c]
  BY <1>1, <1>2
<1> QED BY <1>5, <1>6

\* The number v is entered for the line (d, h) before its descriptor is.
Entered(t, s, v, d, h) ==
  /\ t \in States /\ t.virqs = s.virqs \cup {v}
  /\ t.panicked = s.panicked /\ t.wild = s.wild
  /\ Blank(t, s, v)
  /\ \A e \in Domain, k \in HwIrq :
       /\ t.map[e][k] = IF e = d /\ k = h THEN v ELSE s.map[e][k]
       /\ type[e] # "TREE" =>
            t.revmap[e][k] = IF e = d /\ k = h THEN v ELSE s.revmap[e][k]

LEMMA BoundGood ==
  ASSUME NEW s, NEW pv, NEW pd, NEW ph, Good(s, pv, pd, ph, {}),
         NEW R, Within(s, R), NEW v \in Virq \ s.virqs,
         NEW d \in Domain, NEW h \in HwIrq, d \in R, s.map[d][h] \notin Virq,
         type[d] # "HIERARCHY", type[d] # "TREE" => h < size[d],
         NEW y, Entered(y, s, v, d, h), NEW c, NEW t, DescSet(t, y, v, c),
         c.domain = d, c.hwirq = h, c.parent_desc = NULL
  PROVE  Good(t, pv, pd, ph, {}) /\ Within(t, R) /\ Mapped(t, v) /\ NoChild(t, v)
<1>1. ~Mapped(s, v) /\ v # pv
  BY DEF Good, Numbers
<1>2. NoChild(s, v) /\ \A e \in Domain, k \in HwIrq : s.map[e][k] # v
  BY <1>1, Unused
<1>3. /\ DOMAIN t.desc = DOMAIN s.desc \cup {v} /\ t.desc[v] = c
      /\ \A u \in DOMAIN s.desc : u # v => t.desc[u] = s.desc[u]
      /\ t \in States /\ t.virqs = s.virqs \cup {v}
      /\ t.panicked = s.panicked /\ t.wild = s.wild
  BY DEF Entered, DescSet, Blank
<1>11. \A e \in Domain, k \in HwIrq :
        /\ t.map[e][k] = IF e = d /\ k = h THEN v ELSE s.map[e][k]
        /\ type[e] # "TREE" =>
             t.revmap[e][k] = IF e = d /\ k = h THEN v ELSE s.revmap[e][k]
  BY DEF Entered, DescSet
<1>4. Mapped(t, v) /\ \A u : u # v => (Mapped(t, u) <=> Mapped(s, u))
  BY <1>3, Constants DEF Mapped
<1>5. Within(t, R)
  BY <1>3 DEF Within
<1>6. NoChild(t, v)
  <2>1. v # NULL
    BY Constants
  <2>2. \A u \in DOMAIN s.desc : s.desc[u].parent_desc # v
    BY <1>2 DEF NoChild
  <2> QED BY <1>3, <2>1, <2>2 DEF NoChild
<1>7. Numbers(t, pv)
  <2>1. \A u \in Virq : u \in t.virqs <=> Mapped(t, u) \/ u = pv
    BY <1>3, <1>4 DEF Good, Numbers
  <2>2. pv \in Virq => pv \in DOMAIN t.desc /\ ~Mapped(t, pv)
    BY <1>1, <1>3, <1>4 DEF Good, Numbers
  <2>3. \A u \in DOMAIN t.desc : ~Mapped(t, u) => t.desc[u].hwirq = IRQ_INVALID
    BY <1>3, <1>4 DEF Good, Numbers
  <2> QED BY <2>1, <2>2, <2>3 DEF Numbers
<1>8. Entries(t, pv, pd, ph)
  <2> SUFFICES ASSUME NEW e \in Domain, NEW k \in HwIrq, NEW u \in Virq
               PROVE  t.map[e][k] = u <=>
                        \/ Mapped(t, u) /\ t.desc[u].domain = e /\ t.desc[u].hwirq = k
                        \/ u = pv /\ e = pd /\ k = ph
    BY DEF Entries
  <2>1. s.map[e][k] = u <=> \/ Mapped(s, u) /\ s.desc[u].domain = e /\ s.desc[u].hwirq = k
                            \/ u = pv /\ e = pd /\ k = ph
    BY DEF Good, Entries
  <2>2. u # v => (Mapped(s, u) => t.desc[u] = s.desc[u])
    BY <1>3 DEF Mapped
  <2>3. t.map[e][k] = IF e = d /\ k = h THEN v ELSE s.map[e][k]
    BY <1>11
  <2>4. t.desc[v].domain = d /\ t.desc[v].hwirq = h
    BY <1>3
  <2>5. CASE u = v
    BY <1>1, <1>2, <1>4, <2>3, <2>4, <2>5
  <2>6. CASE u # v
    BY <1>4, <2>1, <2>2, <2>3, <2>6
  <2> QED BY <2>5, <2>6
<1>9. Tables(t)
  <2> SUFFICES ASSUME NEW e \in Domain, NEW k \in HwIrq
               PROVE  /\ t.map[e][k] # DANGLING
                      /\ type[e] # "TREE" =>
                           /\ t.map[e][k] # RESERVED
                           /\ k >= size[e] => t.map[e][k] = NULL
                           /\ t.revmap[e][k] = IF t.map[e][k] = NULL THEN IRQ_INVALID
                                               ELSE t.map[e][k]
    BY DEF Tables
  <2>1. CASE e = d /\ k = h
    <3>1. size[d] \in Nat /\ h \in Nat
      BY IrqDomainAssumption, Constants
    <3> QED BY <1>11, <2>1, <3>1, Constants
  <2>2. CASE ~(e = d /\ k = h)
    <3>1. /\ s.map[e][k] # DANGLING
          /\ type[e] # "TREE" =>
               /\ s.map[e][k] # RESERVED
               /\ k >= size[e] => s.map[e][k] = NULL
               /\ s.revmap[e][k] = IF s.map[e][k] = NULL THEN IRQ_INVALID ELSE s.map[e][k]
      BY DEF Good, Tables
    <3>2. t.map[e][k] = s.map[e][k] /\ (type[e] # "TREE" => t.revmap[e][k] = s.revmap[e][k])
      BY <1>11, <2>2
    <3> QED BY <3>1, <3>2
  <2> QED BY <2>1, <2>2
<1>10. Links(t, {})
  <2> SUFFICES ASSUME NEW u \in DOMAIN t.desc
               PROVE  IF Cascaded(t, u) /\ u \notin {} THEN Linked(t, u)
                      ELSE t.desc[u].parent_desc = NULL
    BY DEF Links
  <2>1. CASE u = v
    BY <1>3, <2>1 DEF Cascaded
  <2>2. CASE u # v
    <3>1. u \in DOMAIN s.desc /\ t.desc[u] = s.desc[u] /\ s.desc[u].parent_desc # v
      BY <1>2, <1>3, <2>2 DEF NoChild
    <3>2. Cascaded(t, u) <=> Cascaded(s, u)
      BY <1>4, <2>2, <3>1 DEF Cascaded
    <3>3. IF Cascaded(s, u) THEN Linked(s, u) ELSE s.desc[u].parent_desc = NULL
      BY <3>1 DEF Good, Links
    <3>4. \A p \in DOMAIN s.desc : p # v => p \in DOMAIN t.desc /\ t.desc[p] = s.desc[p]
      BY <1>3
    <3> QED BY <3>1, <3>2, <3>3, <3>4 DEF Linked
  <2> QED BY <2>1, <2>2
<1> QED BY <1>3, <1>4, <1>5, <1>6, <1>7, <1>8, <1>9, <1>10 DEF Good

\* For a line of a hierarchical domain first the number alone is entered.
LEMMA EnteredGood ==
  ASSUME NEW s, Good(s, NULL, NULL, NULL, {}), NEW R, Within(s, R),
         NEW v \in Virq \ s.virqs, NEW d \in Domain, NEW h \in HwIrq,
         s.map[d][h] \notin Virq, h < size[d],
         NEW t, Entered(t, s, v, d, h)
  PROVE  Good(t, v, d, h, {}) /\ Within(t, R)
<1>1. ~Mapped(s, v)
  BY DEF Good, Numbers
<1>2. NoChild(s, v) /\ \A e \in Domain, k \in HwIrq : s.map[e][k] # v
  BY <1>1, Unused, Constants
<1>3. ~Mapped(t, v) /\ \A u : Mapped(t, u) <=> Mapped(s, u)
  BY <1>1 DEF Entered, Blank, Mapped
<1>4. Within(t, R)
  BY DEF Entered, Blank, Within
<1>5. Numbers(t, v)
  <2>1. \A u \in Virq : u \in t.virqs <=> Mapped(t, u) \/ u = v
    BY <1>3, Constants DEF Good, Numbers, Entered
  <2>2. v \in Virq => v \in DOMAIN t.desc /\ ~Mapped(t, v)
    BY <1>3 DEF Entered, Blank
  <2>3. \A u \in DOMAIN t.desc : ~Mapped(t, u) => t.desc[u].hwirq = IRQ_INVALID
    <3>1. \A u \in DOMAIN s.desc : ~Mapped(s, u) => s.desc[u].hwirq = IRQ_INVALID
      BY DEF Good, Numbers
    <3> QED BY <1>3, <3>1 DEF Entered, Blank
  <2> QED BY <2>1, <2>2, <2>3 DEF Numbers
<1>6. Entries(t, v, d, h)
  <2> SUFFICES ASSUME NEW e \in Domain, NEW k \in HwIrq, NEW u \in Virq
               PROVE  t.map[e][k] = u <=>
                        \/ Mapped(t, u) /\ t.desc[u].domain = e /\ t.desc[u].hwirq = k
                        \/ u = v /\ e = d /\ k = h
    BY DEF Entries
  <2>1. s.map[e][k] = u <=> Mapped(s, u) /\ s.desc[u].domain = e /\ s.desc[u].hwirq = k
    BY Constants DEF Good, Entries
  <2>2. Mapped(s, u) => t.desc[u] = s.desc[u]
    BY <1>1 DEF Mapped, Entered, Blank
  <2>3. t.map[e][k] = IF e = d /\ k = h THEN v ELSE s.map[e][k]
    BY DEF Entered
  <2> QED BY <1>2, <1>3, <2>1, <2>2, <2>3
<1>7. Tables(t)
  <2> SUFFICES ASSUME NEW e \in Domain, NEW k \in HwIrq
               PROVE  /\ t.map[e][k] # DANGLING
                      /\ type[e] # "TREE" =>
                           /\ t.map[e][k] # RESERVED
                           /\ k >= size[e] => t.map[e][k] = NULL
                           /\ t.revmap[e][k] = IF t.map[e][k] = NULL THEN IRQ_INVALID
                                               ELSE t.map[e][k]
    BY DEF Tables
  <2>1. CASE e = d /\ k = h
    <3>1. size[d] \in Nat /\ h \in Nat
      BY IrqDomainAssumption, Constants
    <3> QED BY <2>1, <3>1, Constants DEF Entered
  <2>2. CASE ~(e = d /\ k = h)
    <3>1. t.map[e][k] = s.map[e][k] /\ (type[e] # "TREE" => t.revmap[e][k] = s.revmap[e][k])
      BY <2>2 DEF Entered
    <3> QED BY <3>1 DEF Good, Tables
  <2> QED BY <2>1, <2>2
<1>8. Links(t, {})
  <2> SUFFICES ASSUME NEW u \in DOMAIN t.desc
               PROVE  IF Cascaded(t, u) /\ u \notin {} THEN Linked(t, u)
                      ELSE t.desc[u].parent_desc = NULL
    BY DEF Links
  <2>1. CASE u = v
    BY <1>3, <2>1 DEF Cascaded, Entered, Blank
  <2>2. CASE u # v
    <3>1. u \in DOMAIN s.desc /\ t.desc[u] = s.desc[u] /\ s.desc[u].parent_desc # v
      BY <1>2, <2>2 DEF NoChild, Entered, Blank
    <3>2. Cascaded(t, u) <=> Cascaded(s, u)
      BY <1>3, <3>1 DEF Cascaded
    <3>3. IF Cascaded(s, u) THEN Linked(s, u) ELSE s.desc[u].parent_desc = NULL
      BY <3>1 DEF Good, Links
    <3>4. \A p \in DOMAIN s.desc : p # v => p \in DOMAIN t.desc /\ t.desc[p] = s.desc[p]
      BY DEF Entered, Blank
    <3> QED BY <3>1, <3>2, <3>3, <3>4 DEF Linked
  <2> QED BY <2>1, <2>2
<1> QED BY <1>4, <1>5, <1>6, <1>7, <1>8 DEF Good, Entered

-----------------------------------------------------------------------------
(* irq_create_mapping in a linear or tree domain. *)

LEMMA BindRoot ==
  ASSUME Exclusive, NEW s, NEW pv, NEW pd, NEW ph, Good(s, pv, pd, ph, {}),
         NEW R, Within(s, R), NEW v \in Virq \ s.virqs,
         NEW d \in Domain, NEW h \in HwIrq, d \in R, s.map[d][h] \notin Virq,
         type[d] # "HIERARCHY", type[d] # "TREE" => h < size[d],
         NEW y, Entered(y, s, v, d, h), NEW fail
  PROVE  Fine(Bind(y, d, h, v, NULL, fail), pv, pd, ph, R)
<1>1. y \in States /\ v \in DOMAIN y.desc /\ y.desc[v].parent_desc = NULL
  BY DEF Entered, Blank
<1>2. PICK b \in Desc : b = y.desc[v]
  BY <1>1, DescFields
<1>3. PICK c : c = Attached(b, d, h, NULL)
  BY Zenon
<1>4. c \in Desc /\ c.domain = d /\ c.hwirq = h /\ c.parent_desc = NULL
  BY <1>1, <1>2, <1>3 DEF Desc, Attached
<1>5. PICK t : t = [y EXCEPT !.desc[v] = c]
  BY Zenon
<1>6. DescSet(t, y, v, c)
  BY <1>1, <1>4, <1>5, SetDesc
<1>7. Good(t, pv, pd, ph, {}) /\ Within(t, R) /\ Mapped(t, v) /\ NoChild(t, v)
  BY <1>4, <1>6, BoundGood
<1>8. Fine(t, pv, pd, ph, R) /\ Fine(irq_dispose_mapping(t, v), pv, pd, ph, R)
  BY <1>7, DisposeFine DEF Fine, Good
<1>9. Bind(y, d, h, v, NULL, fail) = IF fail = "ops" THEN irq_dispose_mapping(t, v) ELSE t
  BY <1>2, <1>3, <1>5 DEF Bind
<1> QED BY <1>8, <1>9

\* The keys in hs of the tree of d lead to item.
KeysInserted(t, s, d, hs, item) ==
  /\ t \in States /\ t.virqs = s.virqs /\ t.desc = s.desc /\ t.revmap = s.revmap
  /\ t.panicked = s.panicked /\ t.wild = s.wild
  /\ \A e \in Domain, h \in HwIrq :
       t.map[e][h] = IF e = d /\ h \in hs THEN item ELSE s.map[e][h]

LEMMA InsertKeysFields ==
  ASSUME NEW s \in States, NEW d \in Domain, NEW item \in Slot,
         NEW hs, Max(hs \cup {s.max_key[d]}) \in Int
  PROVE  KeysInserted(InsertKeys(s, d, hs, item), s, d, hs, item)
<1>t. PICK t : t = InsertKeys(s, d, hs, item)
  BY Zenon
<1>1. PICK m : m = [s.map EXCEPT ![d] = [h \in HwIrq |-> IF h \in hs THEN item ELSE s.map[d][h]]]
  BY Zenon
<1>2. PICK x : x = [s.max_key EXCEPT ![d] = Max(hs \cup {s.max_key[d]})]
  BY Zenon
<1>3. t = [s EXCEPT !.map = m, !.max_key = x]
  BY <1>1, <1>2, <1>t DEF InsertKeys
<1>4. m \in [Domain -> [HwIrq -> Slot]] /\ x \in [Domain -> Int]
  BY <1>1, <1>2, Fields
<1>5. /\ t \in States /\ t.virqs = s.virqs /\ t.desc = s.desc /\ t.revmap = s.revmap
      /\ t.panicked = s.panicked /\ t.wild = s.wild /\ t.map = m
  BY <1>3, <1>4 DEF States
<1>6. \A e \in Domain, h \in HwIrq :
        m[e][h] = IF e = d /\ h \in hs THEN item ELSE s.map[e][h]
  BY <1>1, Fields
<1> QED BY <1>5, <1>6, <1>t DEF KeysInserted

\* The largest of two numbers.
LEMMA MaxOfTwo ==
  ASSUME NEW h \in Int, NEW x \in Int
  PROVE  Max({h} \cup {x}) \in Int
<1>1. \E y \in {h} \cup {x} : \A z \in {h} \cup {x} : y >= z
  <2>1. CASE h >= x
    BY <2>1
  <2>2. CASE ~(h >= x)
    BY <2>2
  <2> QED BY <2>1, <2>2
<1>2. Max({h} \cup {x}) \in {h} \cup {x}
  BY <1>1 DEF Max
<1> QED BY <1>2

LEMMA EnterLine ==
  ASSUME NEW s, NEW s1, NEW v \in Virq, Fresh(s1, s, v),
         NEW d \in Domain, NEW h \in HwIrq
  PROVE  Entered(SetEntry(s1, d, h, v, v), s, v, d, h)
<1>1. PICK m : m = [s1.map EXCEPT ![d] = [@ EXCEPT ![h] = v]]
  BY Zenon
<1>2. PICK r : r = [s1.revmap EXCEPT ![d] = [@ EXCEPT ![h] = v]]
  BY Zenon
<1>3. PICK t : t = [s1 EXCEPT !.map = m, !.revmap = r]
  BY Zenon
<1>4. t = SetEntry(s1, d, h, v, v)
  BY <1>1, <1>2, <1>3 DEF SetEntry
<1>5. s1 \in States
  BY DEF Fresh
<1>6. /\ m \in [Domain -> [HwIrq -> Slot]]
      /\ r \in [Domain -> [HwIrq -> Virq \cup {IRQ_INVALID}]]
  BY <1>1, <1>2, <1>5, Fields DEF Slot
<1>7. /\ t \in States /\ t.virqs = s1.virqs /\ t.desc = s1.desc /\ t.map = m /\ t.revmap = r
      /\ t.panicked = s1.panicked /\ t.wild = s1.wild
  BY <1>3, <1>5, <1>6 DEF States
<1>8. \A e \in Domain, k \in HwIrq : m[e][k] = IF e = d /\ k = h THEN v ELSE s1.map[e][k]
  BY <1>1, <1>5, Fields
<1>9. \A e \in Domain, k \in HwIrq : r[e][k] = IF e = d /\ k = h THEN v ELSE s1.revmap[e][k]
  BY <1>2, <1>5, Fields
<1>10. Entered(t, s, v, d, h)
  BY <1>7, <1>8, <1>9 DEF Fresh, Entered, Blank
<1> QED BY <1>4, <1>10

\* A tree entry is deleted and entered anew, or only deleted.
LEMMA TreeEntered ==
  ASSUME NEW s, NEW v, NEW d, NEW h, NEW s1, Fresh(s1, s, v),
         NEW s2, KeysDeleted(s2, s1, d, {h}), NEW s3, KeysInserted(s3, s2, d, {h}, v),
         type[d] = "TREE"
  PROVE  Entered(s3, s, v, d, h)
<1>1. \A e \in Domain, k \in HwIrq :
        s3.map[e][k] = IF e = d /\ k = h THEN v ELSE s.map[e][k]
  BY DEF Fresh, KeysDeleted, KeysInserted
<1>2. \A e \in Domain, k \in HwIrq : e # d => s3.revmap[e][k] = s.revmap[e][k]
  BY DEF Fresh, KeysDeleted, KeysInserted
<1>3. Blank(s3, s, v)
  BY DEF Fresh, KeysDeleted, KeysInserted, Blank
<1>4. /\ s3 \in States /\ s3.virqs = s.virqs \cup {v}
      /\ s3.panicked = s.panicked /\ s3.wild = s.wild
  BY DEF Fresh, KeysDeleted, KeysInserted
<1> QED BY <1>1, <1>2, <1>3, <1>4 DEF Entered

LEMMA TreeTaken ==
  ASSUME NEW s, NEW v, NEW d, NEW h, NEW s1, Fresh(s1, s, v),
         NEW s2, KeysDeleted(s2, s1, d, {h}), s.map[d][h] \in {NULL, RESERVED}
  PROVE  Taken(s2, s, v)
<1>1. \A e \in Domain, k \in HwIrq :
        \/ s2.map[e][k] = s.map[e][k]
        \/ s.map[e][k] = RESERVED /\ s2.map[e][k] = NULL
  BY DEF Fresh, KeysDeleted
<1>2. Blank(s2, s, v)
  BY DEF Fresh, KeysDeleted, Blank
<1>3. /\ s2 \in States /\ s2.virqs = s.virqs \cup {v} /\ s2.revmap = s.revmap
      /\ s2.panicked = s.panicked /\ s2.wild = s.wild
  BY DEF Fresh, KeysDeleted
<1> QED BY <1>1, <1>2, <1>3 DEF Taken

\* The opposite of the test for a line out of range.
LEMMA BelowSize ==
  ASSUME NEW d \in Domain, NEW h \in HwIrq, ~(h >= size[d])
  PROVE  h < size[d]
<1>1. size[d] \in Nat /\ h \in Nat
  BY IrqDomainAssumption, Constants
<1> QED BY <1>1

LEMMA CreateInRootFine ==
  ASSUME WellOrdered, Exclusive, NEW s, NEW pv, NEW pd, NEW ph, Good(s, pv, pd, ph, {}),
         NEW R, Within(s, R), NEW d \in Domain, NEW h \in HwIrq, d \in R,
         type[d] # "HIERARCHY", NEW fail
  PROVE  Fine(CreateInRoot(s, d, h, fail), pv, pd, ph, R)
<1>t. PICK t : t = CreateInRoot(s, d, h, fail)
  BY Zenon
<1>1. s \in States /\ Fine(s, pv, pd, ph, R)
  BY DEF Fine, Good
<1>2. CASE irq_find_mapping(s, d, h) # IRQ_INVALID \/ Virq \subseteq s.virqs
  <2>1. t = s
    BY <1>2, <1>t DEF CreateInRoot
  <2> QED BY <1>1, <1>t, <2>1
<1>3. CASE ~(irq_find_mapping(s, d, h) # IRQ_INVALID \/ Virq \subseteq s.virqs)
  <2>1. s.map[d][h] \notin Virq
    BY <1>3, FindMapping, Constants
  <2>2. PICK v, s1 : v = virq_alloc(s) /\ s1 = Prepare(s, fail)
    BY Zenon
  <2>3. v \in Virq \ s.virqs
    BY <1>3, <2>2, AllocNumber
  <2>4. CASE s1 = s
    <3>1. t = s
      BY <1>3, <1>t, <2>2, <2>4 DEF CreateInRoot
    <3> QED BY <1>1, <1>t, <3>1
  <2>5. CASE s1 # s /\ type[d] = "TREE"
    <3>1. Fresh(s1, s, v)
      BY <1>3, <2>2, <2>5, PrepareFresh
    <3>2. PICK s2 : s2 = DeleteKeys(s1, d, {h})
      BY Zenon
    <3>3. KeysDeleted(s2, s1, d, {h})
      BY <3>1, <3>2, DeleteKeysFields DEF Fresh
    <3>4. s.map[d][h] \in {NULL, RESERVED}
      BY <2>1, EntryFree
    <3>5. CASE fail = "insert"
      <4>1. Taken(s2, s, v)
        BY <3>1, <3>3, <3>4, TreeTaken
      <4>2. Fine(Abandon(s2, v), pv, pd, ph, R)
        BY <2>3, <4>1, AbandonFine
      <4>3. t = Abandon(s2, v)
        BY <1>3, <1>t, <2>2, <2>5, <3>2, <3>5 DEF CreateInRoot, radix_tree_delete
      <4> QED BY <1>t, <4>2, <4>3
    <3>6. CASE fail # "insert"
      <4>1. PICK s3 : s3 = InsertKeys(s2, d, {h}, v)
        BY Zenon
      <4>2. h \in Int /\ s2 \in States /\ s2.max_key[d] \in Int
        BY <3>3, Fields, Constants DEF KeysDeleted
      <4>3. Max({h} \cup {s2.max_key[d]}) \in Int
        BY <4>2, MaxOfTwo
      <4>4. v \in Slot
        BY <2>3 DEF Slot
      <4>5. KeysInserted(s3, s2, d, {h}, v)
        BY <4>1, <4>2, <4>3, <4>4, InsertKeysFields
      <4>6. Entered(s3, s, v, d, h)
        BY <2>5, <3>1, <3>3, <4>5, TreeEntered
      <4>7. Fine(Bind(s3, d, h, v, NULL, fail), pv, pd, ph, R)
        BY <2>1, <2>3, <2>5, <4>6, BindRoot
      <4>8. t = Bind(s3, d, h, v, NULL, fail)
        BY <1>3, <1>t, <2>2, <2>5, <3>2, <3>6, <4>1
        DEF CreateInRoot, radix_tree_delete, radix_tree_insert
      <4> QED BY <1>t, <4>7, <4>8
    <3> QED BY <3>5, <3>6
  <2>6. CASE s1 # s /\ type[d] # "TREE" /\ h >= size[d]
    <3>1. Fresh(s1, s, v)
      BY <1>3, <2>2, <2>6, PrepareFresh
    <3>2. Taken(s1, s, v)
      BY <3>1 DEF Fresh, Taken
    <3>3. Fine(Abandon(s1, v), pv, pd, ph, R)
      BY <2>3, <3>2, AbandonFine
    <3>4. t = Abandon(s1, v)
      BY <1>3, <1>t, <2>2, <2>6 DEF CreateInRoot
    <3> QED BY <1>t, <3>3, <3>4
  <2>7. CASE s1 # s /\ type[d] # "TREE" /\ ~(h >= size[d])
    <3>1. Fresh(s1, s, v)
      BY <1>3, <2>2, <2>7, PrepareFresh
    <3>2. PICK y : y = SetEntry(s1, d, h, v, v)
      BY Zenon
    <3>3. Entered(y, s, v, d, h)
      BY <2>3, <2>7, <3>1, <3>2, EnterLine
    <3>4. h < size[d]
      BY <2>7, BelowSize
    <3>5. Fine(Bind(y, d, h, v, NULL, fail), pv, pd, ph, R)
      BY <2>1, <2>3, <3>3, <3>4, BindRoot
    <3>6. t = Bind(y, d, h, v, NULL, fail)
      BY <1>3, <1>t, <2>2, <2>7, <3>2 DEF CreateInRoot
    <3> QED BY <1>t, <3>5, <3>6
  <2> QED BY <2>4, <2>5, <2>6, <2>7
<1> QED BY <1>2, <1>3

\* A handler more or less changes no mapping.
LEMMA HandlerGood ==
  ASSUME NEW s, Good(s, NULL, NULL, NULL, {}), NEW R, Within(s, R),
         NEW v \in DOMAIN s.desc, NEW a \in Int \X Int
  PROVE  Fine([s EXCEPT !.desc[v].handler = a], NULL, NULL, NULL, R)
<1>1. s \in States
  BY DEF Good
<1>2. PICK b \in Desc : b = s.desc[v]
  BY <1>1, DescFields
<1>3. PICK c : c = [b EXCEPT !.handler = a]
  BY Zenon
<1>4. /\ c \in Desc /\ c.domain = b.domain /\ c.hwirq = b.hwirq
      /\ c.parent_desc = b.parent_desc
  BY <1>2, <1>3 DEF Desc
<1>5. PICK t : t = [s EXCEPT !.desc[v] = c]
  BY Zenon
<1>6. DescSet(t, s, v, c)
  BY <1>1, <1>4, <1>5, SetDesc
<1>7. /\ DOMAIN t.desc = DOMAIN s.desc
      /\ \A u \in DOMAIN s.desc : /\ t.desc[u].domain = s.desc[u].domain
                                  /\ t.desc[u].hwirq = s.desc[u].hwirq
                                  /\ t.desc[u].parent_desc = s.desc[u].parent_desc
  BY <1>2, <1>4, <1>6 DEF DescSet
<1>8. Good(t, NULL, NULL, NULL, {})
  BY <1>6, <1>7, SameGood DEF DescSet
<1>9. Within(t, R)
  BY <1>7 DEF Within
<1>10. Fine(t, NULL, NULL, NULL, R)
  BY <1>8, <1>9 DEF Fine, Good
<1>11. t = [s EXCEPT !.desc[v].handler = a]
  BY <1>2, <1>3, <1>5
<1> QED BY <1>10, <1>11

=============================================================================
