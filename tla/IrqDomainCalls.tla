-------------------------- MODULE IrqDomainCalls ---------------------------
(***************************************************************************)
(* irq_create_mapping in a hierarchical domain and the calls on ranges     *)
(* keep what holds of the mappings of interrupt domains                    *)
(* (kernel/irq/irq_domain.c).                                              *)
(***************************************************************************)
EXTENDS IrqDomainCreate

-----------------------------------------------------------------------------
(* irq_create_mapping in a hierarchical domain. *)

\* The number of a line is bound to the descriptor of its parent line.
LEMMA ChildBound ==
  ASSUME NEW s, NEW v \in Virq, NEW d \in Domain, NEW h \in HwIrq, Good(s, v, d, h, {}),
         NEW R, Within(s, R), d \in R, <<d, h>> \in Lines, type[d] = "HIERARCHY",
         NEW p \in Virq, s.map[parent[d]][child_to_parent_hwirq[d][h]] = p,
         NEW c, c.domain = d, c.hwirq = h, c.parent_desc = p, NEW t, DescSet(t, s, v, c)
  PROVE  Good(t, NULL, NULL, NULL, {}) /\ Within(t, R) /\ Mapped(t, v) /\ NoChild(t, v)
<1>1. v \in DOMAIN s.desc /\ ~Mapped(s, v)
  BY DEF Good, Numbers
<1>2. NoChild(s, v)
  BY <1>1, Unused
<1>3. /\ parent[d] \in Domain /\ type[parent[d]] # "HIERARCHY"
      /\ child_to_parent_hwirq[d][h] \in HwIrq
  BY IrqDomainAssumption
<1>4. /\ Mapped(s, p) /\ s.desc[p].domain = parent[d]
      /\ s.desc[p].hwirq = child_to_parent_hwirq[d][h] /\ p # v
  BY <1>1, <1>3 DEF Good, Entries
<1>5. Mapped(t, v) /\ \A u : u # v => (Mapped(t, u) <=> Mapped(s, u))
  BY <1>1, Constants DEF DescSet, Mapped
<1>6. Within(t, R)
  BY DEF DescSet, Within
<1>7. NoChild(t, v)
  BY <1>2, <1>4 DEF DescSet, NoChild
<1>8. Numbers(t, NULL)
  <2>1. \A u \in Virq : u \in t.virqs <=> Mapped(t, u) \/ u = NULL
    BY <1>5, Constants DEF Good, Numbers, DescSet
  <2>2. NULL \in Virq => NULL \in DOMAIN t.desc /\ ~Mapped(t, NULL)
    BY Constants
  <2>3. \A u \in DOMAIN t.desc : ~Mapped(t, u) => t.desc[u].hwirq = IRQ_INVALID
    BY <1>5 DEF Good, Numbers, DescSet
  <2> QED BY <2>1, <2>2, <2>3 DEF Numbers
<1>9. Entries(t, NULL, NULL, NULL)
  <2> SUFFICES ASSUME NEW e \in Domain, NEW k \in HwIrq, NEW u \in Virq
               PROVE  t.map[e][k] = u <=>
                        \/ Mapped(t, u) /\ t.desc[u].domain = e /\ t.desc[u].hwirq = k
                        \/ u = NULL /\ e = NULL /\ k = NULL
    BY DEF Entries
  <2>1. s.map[e][k] = u <=> \/ Mapped(s, u) /\ s.desc[u].domain = e /\ s.desc[u].hwirq = k
                            \/ u = v /\ e = d /\ k = h
    BY DEF Good, Entries
  <2>2. u # v => (Mapped(s, u) => t.desc[u] = s.desc[u])
    BY DEF Mapped, DescSet
  <2>3. t.map[e][k] = s.map[e][k] /\ t.desc[v].domain = d /\ t.desc[v].hwirq = h
    BY DEF DescSet
  <2> QED BY <1>1, <1>5, <2>1, <2>2, <2>3, Constants
<1>10. Tables(t)
  <2>1. t.map = s.map /\ t.revmap = s.revmap
    BY DEF DescSet
  <2> QED BY <2>1 DEF Good, Tables
<1>11. Links(t, {})
  <2> SUFFICES ASSUME NEW u \in DOMAIN t.desc
               PROVE  IF Cascaded(t, u) /\ u \notin {} THEN Linked(t, u)
                      ELSE t.desc[u].parent_desc = NULL
    BY DEF Links
  <2>0. \A q \in DOMAIN s.desc : q # v => q \in DOMAIN t.desc /\ t.desc[q] = s.desc[q]
    BY DEF DescSet
  <2>1. CASE u = v
    <3>1. t.desc[v] = c /\ p \in DOMAIN t.desc /\ t.desc[p] = s.desc[p]
      BY <1>4, <2>0 DEF DescSet, Mapped
    <3>2. Linked(t, v)
      BY <1>4, <3>1 DEF Linked
    <3>3. Cascaded(t, v)
      BY <1>5, <3>1, Constants DEF Cascaded
    <3> QED BY <2>1, <3>2, <3>3
  <2>2. CASE u # v
    <3>1. u \in DOMAIN s.desc /\ t.desc[u] = s.desc[u] /\ s.desc[u].parent_desc # v
      BY <1>2, <2>2 DEF NoChild, DescSet
    <3>2. Cascaded(t, u) <=> Cascaded(s, u)
      BY <1>5, <2>2, <3>1 DEF Cascaded
    <3>3. IF Cascaded(s, u) THEN Linked(s, u) ELSE s.desc[u].parent_desc = NULL
      BY <3>1 DEF Good, Links
    <3> QED BY <2>0, <3>1, <3>2, <3>3 DEF Linked
  <2> QED BY <2>1, <2>2
<1> QED BY <1>5, <1>6, <1>7, <1>8, <1>9, <1>10, <1>11 DEF Good, DescSet

\* The entry of the line (d, h) in the linear map of d is taken back.
LEMMA LeaveLine ==
  ASSUME NEW s \in States, NEW d \in Domain, NEW h \in HwIrq, type[d] # "TREE"
  PROVE  EntryCleared(SetEntry(s, d, h, NULL, IRQ_INVALID), s, d, h)
<1>1. PICK m : m = [s.map EXCEPT ![d] = [@ EXCEPT ![h] = NULL]]
  BY Zenon
<1>2. PICK r : r = [s.revmap EXCEPT ![d] = [@ EXCEPT ![h] = IRQ_INVALID]]
  BY Zenon
<1>3. PICK t : t = [s EXCEPT !.map = m, !.revmap = r]
  BY Zenon
<1>4. t = SetEntry(s, d, h, NULL, IRQ_INVALID)
  BY <1>1, <1>2, <1>3 DEF SetEntry
<1>5. /\ m \in [Domain -> [HwIrq -> Slot]]
      /\ r \in [Domain -> [HwIrq -> Virq \cup {IRQ_INVALID}]]
  BY <1>1, <1>2, Fields DEF Slot
<1>6. /\ t \in States /\ t.virqs = s.virqs /\ t.desc = s.desc /\ t.map = m /\ t.revmap = r
      /\ t.panicked = s.panicked /\ t.wild = s.wild
  BY <1>3, <1>5 DEF States
<1>7. \A e \in Domain, k \in HwIrq : m[e][k] = IF e = d /\ k = h THEN NULL ELSE s.map[e][k]
  BY <1>1, Fields
<1>8. \A e \in Domain, k \in HwIrq :
        r[e][k] = IF e = d /\ k = h THEN IRQ_INVALID ELSE s.revmap[e][k]
  BY <1>2, Fields
<1>9. EntryCleared(t, s, d, h)
  BY <1>6, <1>7, <1>8 DEF EntryCleared
<1> QED BY <1>4, <1>9

\* Giving up a child's line when the parent has no mapping to offer.
LEMMA LeaveGood ==
  ASSUME NEW s, NEW v \in Virq, NEW d \in Domain, NEW h \in HwIrq, Good(s, v, d, h, {}),
         NEW R, Within(s, R), type[d] = "HIERARCHY",
         NEW y, EntryCleared(y, s, d, h)
  PROVE  Fine(Abandon(y, v), NULL, NULL, NULL, R)
<1>1. v \in DOMAIN s.desc /\ ~Mapped(s, v)
  BY DEF Good, Numbers
<1>2. PICK t : t = virq_free(y, v)
  BY Zenon
<1>3. NumberFreed(t, y, v)
  BY <1>2, VirqFreeFields DEF EntryCleared
<1>4. /\ t \in States /\ t.virqs = s.virqs \ {v} /\ t.desc = s.desc
      /\ t.panicked = s.panicked /\ t.wild = s.wild
      /\ \A e \in Domain, k \in HwIrq :
           /\ t.map[e][k] = IF e = d /\ k = h THEN NULL ELSE s.map[e][k]
           /\ t.revmap[e][k] = IF e = d /\ k = h /\ type[e] # "TREE"
                               THEN IRQ_INVALID ELSE s.revmap[e][k]
  BY <1>3 DEF NumberFreed, EntryCleared
<1>5. \A u : Mapped(t, u) <=> Mapped(s, u)
  BY <1>4 DEF Mapped
<1>6. Numbers(t, NULL)
  <2>1. \A u \in Virq : u \in t.virqs <=> Mapped(t, u) \/ u = NULL
    BY <1>1, <1>4, <1>5, Constants DEF Good, Numbers
  <2>2. \A u \in DOMAIN t.desc : ~Mapped(t, u) => t.desc[u].hwirq = IRQ_INVALID
    BY <1>4, <1>5 DEF Good, Numbers
  <2> QED BY <2>1, <2>2, Constants DEF Numbers
<1>7. Entries(t, NULL, NULL, NULL)
  <2> SUFFICES ASSUME NEW e \in Domain, NEW k \in HwIrq, NEW u \in Virq
               PROVE  t.map[e][k] = u <=>
                        \/ Mapped(t, u) /\ t.desc[u].domain = e /\ t.desc[u].hwirq = k
                        \/ u = NULL /\ e = NULL /\ k = NULL
    BY DEF Entries
  <2>1. s.map[e][k] = u <=> \/ Mapped(s, u) /\ s.desc[u].domain = e /\ s.desc[u].hwirq = k
                            \/ u = v /\ e = d /\ k = h
    BY DEF Good, Entries
  <2>2. s.map[d][h] = v
    BY DEF Good, Entries
  <2> QED BY <1>1, <1>4, <1>5, <2>1, <2>2, Constants
<1>8. Tables(t)
  <2> SUFFICES ASSUME NEW e \in Domain, NEW k \in HwIrq
               PROVE  /\ t.map[e][k] # DANGLING
                      /\ type[e] # "TREE" =>
                           /\ t.map[e][k] # RESERVED
                           /\ k >= size[e] => t.map[e][k] = NULL
                           /\ t.revmap[e][k] = IF t.map[e][k] = NULL THEN IRQ_INVALID
                                               ELSE t.map[e][k]
    BY DEF Tables
  <2> QED BY <1>4, Constants DEF Good, Tables
<1>9. Links(t, {})
  BY <1>4, <1>5 DEF Good, Links, Cascaded, Linked
<1>10. Good(t, NULL, NULL, NULL, {}) /\ Within(t, R)
  BY <1>4, <1>6, <1>7, <1>8, <1>9 DEF Good, Within
<1>11. Fine(irq_desc_free(t, v), NULL, NULL, NULL, R)
  BY <1>1, <1>4, <1>5, <1>10, FreeUnmapped, Constants
<1> QED BY <1>2, <1>11 DEF Abandon

LEMMA BindChild ==
  ASSUME Exclusive,
         NEW s, NEW v \in Virq, NEW d \in Domain, NEW h \in HwIrq, Good(s, v, d, h, {}),
         NEW R, Within(s, R), d \in R, <<d, h>> \in Lines, type[d] = "HIERARCHY",
         NEW p \in Virq, s.map[parent[d]][child_to_parent_hwirq[d][h]] = p, NEW fail
  PROVE  Fine(Bind(s, d, h, v, p, fail), NULL, NULL, NULL, R)
<1>1. s \in States /\ v \in DOMAIN s.desc
  BY DEF Good, Numbers
<1>2. PICK b \in Desc : b = s.desc[v]
  BY <1>1, DescFields
<1>3. PICK c : c = Attached(b, d, h, p)
  BY Zenon
<1>4. p # NULL
  BY Constants
<1>5. c \in Desc /\ c.domain = d /\ c.hwirq = h /\ c.parent_desc = p
  BY <1>1, <1>2, <1>3, <1>4 DEF Desc, Attached
<1>6. PICK t : t = [s EXCEPT !.desc[v] = c]
  BY Zenon
<1>7. DescSet(t, s, v, c)
  BY <1>1, <1>5, <1>6, SetDesc
<1>8. Good(t, NULL, NULL, NULL, {}) /\ Within(t, R) /\ Mapped(t, v) /\ NoChild(t, v)
  BY <1>5, <1>7, ChildBound
<1>9. Fine(t, NULL, NULL, NULL, R) /\ Fine(irq_dispose_mapping(t, v), NULL, NULL, NULL, R)
  BY <1>8, DisposeFine DEF Fine, Good
<1>10. Bind(s, d, h, v, p, fail) = IF fail = "ops" THEN irq_dispose_mapping(t, v) ELSE t
  BY <1>2, <1>3, <1>6 DEF Bind
<1> QED BY <1>9, <1>10

LEMMA CreateInChildFine ==
  ASSUME WellOrdered, Exclusive, NEW s, Good(s, NULL, NULL, NULL, {}), NEW R, Within(s, R),
         NEW d \in Domain, NEW h \in HwIrq, d \in R, parent[d] \in R,
         type[d] = "HIERARCHY", <<d, h>> \in Lines, NEW fail, NEW pfail
  PROVE  Fine(CreateInChild(s, d, h, fail, pfail), NULL, NULL, NULL, R)
<1>t. PICK t : t = CreateInChild(s, d, h, fail, pfail)
  BY Zenon
<1>1. s \in States /\ Fine(s, NULL, NULL, NULL, R)
  BY DEF Fine, Good
<1>2. CASE irq_find_mapping(s, d, h) # IRQ_INVALID \/ Virq \subseteq s.virqs
  <2>1. t = s
    BY <1>2, <1>t DEF CreateInChild
  <2> QED BY <1>1, <1>t, <2>1
<1>3. CASE ~(irq_find_mapping(s, d, h) # IRQ_INVALID \/ Virq \subseteq s.virqs)
  <2>1. s.map[d][h] \notin Virq
    BY <1>3, FindMapping, Constants
  <2>2. PICK v, s1 : v = virq_alloc(s) /\ s1 = Prepare(s, fail)
    BY Zenon
  <2>3. v \in Virq \ s.virqs
    BY <1>3, <2>2, AllocNumber
  <2>4. CASE s1 = s
    <3>1. t = s
      BY <1>3, <1>t, <2>2, <2>4 DEF CreateInChild
    <3> QED BY <1>1, <1>t, <3>1
  <2>5. CASE s1 # s /\ h >= size[d]
    <3>1. Fresh(s1, s, v)
      BY <1>3, <2>2, <2>5, PrepareFresh
    <3>2. Taken(s1, s, v)
      BY <3>1 DEF Fresh, Taken
    <3>3. Fine(Abandon(s1, v), NULL, NULL, NULL, R)
      BY <2>3, <3>2, AbandonFine
    <3>4. t = Abandon(s1, v)
      BY <1>3, <1>t, <2>2, <2>5 DEF CreateInChild
    <3> QED BY <1>t, <3>3, <3>4
  <2>6. CASE s1 # s /\ ~(h >= size[d])
    <3>1. Fresh(s1, s, v)
      BY <1>3, <2>2, <2>6, PrepareFresh
    <3>2. PICK s2 : s2 = SetEntry(s1, d, h, v, v)
      BY Zenon
    <3>3. Entered(s2, s, v, d, h)
      BY <2>3, <3>1, <3>2, EnterLine
    <3>4. h < size[d]
      <4>1. size[d] \in Nat /\ h \in Nat
        BY IrqDomainAssumption, Constants
      <4> QED BY <2>6, <4>1
    <3>5. Good(s2, v, d, h, {}) /\ Within(s2, R)
      BY <2>1, <2>3, <3>3, <3>4, EnteredGood
    <3>6. PICK e, k : e = parent[d] /\ k = child_to_parent_hwirq[d][h]
      BY Zenon
    <3>7. e \in Domain /\ type[e] # "HIERARCHY" /\ k \in HwIrq /\ e \in R
      BY <3>6, IrqDomainAssumption
    <3>8. PICK s3 : s3 = CreateInRoot(s2, e, k, pfail)
      BY Zenon
    <3>9. Fine(s3, v, d, h, R)
      BY <3>5, <3>7, <3>8, CreateInRootFine
    <3>10. PICK p, y : /\ p = irq_find_mapping(s3, e, k)
                       /\ y = SetEntry(s3, d, h, NULL, IRQ_INVALID)
      BY Zenon
    <3>11. t = IF s3.panicked THEN s3
               ELSE IF p = IRQ_INVALID THEN Abandon(y, v) ELSE Bind(s3, d, h, v, p, fail)
      BY <1>3, <1>t, <2>2, <2>6, <3>2, <3>6, <3>8, <3>10 DEF CreateInChild
    <3>12. CASE s3.panicked
      BY <1>t, <3>9, <3>11, <3>12 DEF Fine
    <3>13. CASE ~s3.panicked /\ p = IRQ_INVALID
      <4>1. Good(s3, v, d, h, {}) /\ Within(s3, R) /\ s3 \in States
        BY <3>9, <3>13 DEF Fine
      <4>2. EntryCleared(y, s3, d, h)
        BY <3>10, <4>1, LeaveLine
      <4>3. Fine(Abandon(y, v), NULL, NULL, NULL, R)
        BY <2>3, <4>1, <4>2, LeaveGood
      <4> QED BY <1>t, <3>11, <3>13, <4>3
    <3>14. CASE ~s3.panicked /\ p # IRQ_INVALID
      <4>1. Good(s3, v, d, h, {}) /\ Within(s3, R)
        BY <3>9, <3>14 DEF Fine
      <4>2. p \in Virq /\ s3.map[e][k] = p
        BY <3>7, <3>10, <3>14, <4>1, FindMapping
      <4>3. Fine(Bind(s3, d, h, v, p, fail), NULL, NULL, NULL, R)
        BY <2>3, <3>6, <4>1, <4>2, BindChild
      <4> QED BY <1>t, <3>11, <3>14, <4>3
    <3> QED BY <3>12, <3>13, <3>14
  <2> QED BY <2>4, <2>5, <2>6
<1> QED BY <1>2, <1>3

-----------------------------------------------------------------------------
(* Ranges. *)

\* The descriptors of vs are those of domain d, without lines.
DescsGiven(t, s, d, vs) ==
  /\ t \in States /\ t.virqs = s.virqs /\ t.map = s.map /\ t.revmap = s.revmap
  /\ t.panicked = s.panicked /\ t.wild = s.wild
  /\ DOMAIN t.desc = DOMAIN s.desc \cup vs
  /\ \A u \in DOMAIN s.desc \ vs : t.desc[u] = s.desc[u]
  /\ \A u \in vs : /\ t.desc[u].domain = d /\ t.desc[u].hwirq = IRQ_INVALID
                   /\ t.desc[u].parent_desc = NULL

LEMMA GiveDescsFields ==
  ASSUME NEW s \in States, NEW d \in Domain, NEW vs \in SUBSET Virq,
         \A v \in vs \cap DOMAIN s.desc :
           s.desc[v].hwirq = IRQ_INVALID /\ s.desc[v].parent_desc = NULL
  PROVE  DescsGiven(GiveDescs(s, d, vs), s, d, vs)
<1>1. PICK D, x : /\ D = DOMAIN s.desc \cup vs
                  /\ x = [u \in D |-> IF u \in vs THEN [Found(s, u) EXCEPT !.domain = d]
                                      ELSE s.desc[u]]
  OBVIOUS
<1>2. PICK t : t = [s EXCEPT !.desc = x]
  BY Zenon
<1>3. t = GiveDescs(s, d, vs)
  BY <1>1, <1>2 DEF GiveDescs
<1>4. NewDesc \in Desc /\ NewDesc.hwirq = IRQ_INVALID /\ NewDesc.parent_desc = NULL
  BY Constants DEF NewDesc, Desc
<1>5. ASSUME NEW u \in vs
      PROVE  /\ x[u] \in Desc /\ x[u].domain = d /\ x[u].hwirq = IRQ_INVALID
             /\ x[u].parent_desc = NULL
  <2>1. PICK c : c = Found(s, u)
    BY Zenon
  <2>2. c \in Desc /\ c.hwirq = IRQ_INVALID /\ c.parent_desc = NULL
    BY <1>4, <2>1, DescFields DEF Found
  <2>3. x[u] = [c EXCEPT !.domain = d]
    BY <1>1, <2>1
  <2> QED BY <2>2, <2>3 DEF Desc
<1>6. \A u \in DOMAIN s.desc \ vs : x[u] = s.desc[u] /\ x[u] \in Desc
  BY <1>1, DescFields
<1>7. D \in SUBSET Virq /\ x \in [D -> Desc]
  BY <1>1, <1>5, <1>6, Fields
<1>8. /\ t \in States /\ t.virqs = s.virqs /\ t.map = s.map /\ t.revmap = s.revmap
      /\ t.panicked = s.panicked /\ t.wild = s.wild /\ t.desc = x
  BY <1>2, <1>7, Replace
<1>9. DescsGiven(t, s, d, vs)
  BY <1>1, <1>5, <1>6, <1>8 DEF DescsGiven
<1> QED BY <1>3, <1>9

\* The numbers of a range are given to domain d.
LEMMA GivenGood ==
  ASSUME NEW s, Good(s, NULL, NULL, NULL, {}), NEW R, Within(s, R), NEW d \in Domain, d \in R,
         NEW vs \in SUBSET (Virq \ s.virqs), NEW r, NEW t, DescsGiven(t, r, d, vs),
         r.virqs = s.virqs \cup vs, r.desc = s.desc, r.map = s.map, r.revmap = s.revmap,
         r.panicked = s.panicked, r.wild = s.wild
  PROVE  Good(t, NULL, NULL, NULL, {}) /\ Within(t, R)
<1>1. \A v \in vs : v \in Virq /\ ~Mapped(s, v)
  BY DEF Good, Numbers
<1>2. \A v \in vs : NoChild(s, v) /\ \A e \in Domain, k \in HwIrq : s.map[e][k] # v
  BY <1>1, Unused, Constants
<1>3. \A u : Mapped(t, u) <=> Mapped(s, u) \/ u \in vs
  <2>1. /\ DOMAIN t.desc = DOMAIN s.desc \cup vs
        /\ \A u \in DOMAIN s.desc \ vs : t.desc[u].domain = s.desc[u].domain
        /\ \A u \in vs : t.desc[u].domain = d
    BY DEF DescsGiven
  <2>2. d # NULL
    BY Constants
  <2> QED BY <1>1, <2>1, <2>2 DEF Mapped
<1>4. Within(t, R)
  BY DEF DescsGiven, Within
<1>5. Numbers(t, NULL)
  <2>1. \A u \in Virq : u \in t.virqs <=> Mapped(t, u) \/ u = NULL
    BY <1>3, Constants DEF Good, Numbers, DescsGiven
  <2>2. \A u \in DOMAIN t.desc : ~Mapped(t, u) => t.desc[u].hwirq = IRQ_INVALID
    BY <1>3 DEF Good, Numbers, DescsGiven
  <2> QED BY <2>1, <2>2, Constants DEF Numbers
<1>6. Entries(t, NULL, NULL, NULL)
  <2> SUFFICES ASSUME NEW e \in Domain, NEW k \in HwIrq, NEW u \in Virq
               PROVE  t.map[e][k] = u <=>
                        \/ Mapped(t, u) /\ t.desc[u].domain = e /\ t.desc[u].hwirq = k
                        \/ u = NULL /\ e = NULL /\ k = NULL
    BY DEF Entries
  <2>1. s.map[e][k] = u <=> Mapped(s, u) /\ s.desc[u].domain = e /\ s.desc[u].hwirq = k
    BY Constants DEF Good, Entries
  <2>2. t.map[e][k] = s.map[e][k] /\ u # NULL /\ k # IRQ_INVALID
    BY Constants DEF DescsGiven
  <2>3. CASE u \in vs
    BY <1>2, <2>2, <2>3 DEF DescsGiven
  <2>4. CASE u \notin vs
    <3>1. Mapped(s, u) => t.desc[u] = s.desc[u]
      BY <2>4 DEF DescsGiven, Mapped
    <3> QED BY <1>3, <2>1, <2>2, <2>4, <3>1
  <2> QED BY <2>3, <2>4
<1>7. Tables(t)
  <2>1. t.map = s.map /\ t.revmap = s.revmap
    BY DEF DescsGiven
  <2> QED BY <2>1 DEF Good, Tables
<1>8. Links(t, {})
  <2> SUFFICES ASSUME NEW u \in DOMAIN t.desc
               PROVE  IF Cascaded(t, u) /\ u \notin {} THEN Linked(t, u)
                      ELSE t.desc[u].parent_desc = NULL
    BY DEF Links
  <2>1. CASE u \in vs
    BY <2>1 DEF Cascaded, DescsGiven
  <2>2. CASE u \notin vs
    <3>1. u \in DOMAIN s.desc /\ t.desc[u] = s.desc[u] /\ s.desc[u].parent_desc \notin vs
      BY <1>2, <2>2 DEF NoChild, DescsGiven
    <3>2. Cascaded(t, u) <=> Cascaded(s, u)
      BY <1>3, <2>2, <3>1 DEF Cascaded
    <3>3. IF Cascaded(s, u) THEN Linked(s, u) ELSE s.desc[u].parent_desc = NULL
      BY <3>1 DEF Good, Links
    <3>4. \A p \in DOMAIN s.desc : p \notin vs => p \in DOMAIN t.desc /\ t.desc[p] = s.desc[p]
      BY DEF DescsGiven
    <3> QED BY <3>1, <3>2, <3>3, <3>4 DEF Linked
  <2> QED BY <2>1, <2>2
<1> QED BY <1>4, <1>5, <1>6, <1>7, <1>8 DEF Good, DescsGiven

\* The error path of irq_domain_alloc_irqs: the descriptors it got go again.
LEMMA TakenBackFine ==
  ASSUME NEW s, Good(s, NULL, NULL, NULL, {}), NEW R, Within(s, R), NEW d \in Domain, d \in R,
         NEW vs \in SUBSET (Virq \ s.virqs), NEW g, DescsGiven(g, s, d, vs)
  PROVE  Fine(FreeDescs(g, vs), NULL, NULL, NULL, R)
<1>1. \A v \in vs : v \in Virq /\ ~Mapped(s, v)
  BY DEF Good, Numbers
<1>2. \A v \in vs : /\ NoChild(s, v) /\ v # NULL
                    /\ \A e \in Domain, k \in HwIrq : s.map[e][k] # v
  BY <1>1, Unused, Constants
<1>3. g \in States /\ s \in States
  BY DEF DescsGiven, Good
<1>4. PICK t : t = FreeDescs(g, vs)
  BY Zenon
<1>5. CASE \E v \in vs : g.desc[v].handler # NoHandler
  <2>1. t = [g EXCEPT !.panicked = TRUE]
    BY <1>4, <1>5 DEF FreeDescs
  <2>2. t \in States /\ t.desc = g.desc /\ t.panicked
    BY <1>3, <2>1, Panic
  <2>3. Within(t, R)
    BY <2>2 DEF DescsGiven, Within
  <2> QED BY <1>4, <2>2, <2>3 DEF Fine
<1>6. CASE ~ \E v \in vs : g.desc[v].handler # NoHandler
  <2>1. /\ \A v \in vs : g.desc[v].handler = NoHandler
        /\ \A u \in DOMAIN g.desc \ vs : g.desc[u].parent_desc \notin vs
        /\ \A e \in Domain, k \in HwIrq : g.map[e][k] \notin vs
    BY <1>2, <1>6 DEF DescsGiven, NoChild
  <2>2. DescsFreed(t, g, vs)
    BY <1>3, <1>4, <2>1, FreeDescsFields
  <2>3. DescsFreed(t, s, vs)
    <3>1. DOMAIN g.desc \ vs = DOMAIN s.desc \ vs
      BY DEF DescsGiven
    <3> QED BY <2>2, <3>1 DEF DescsFreed, DescsGiven
  <2>4. Good(t, NULL, NULL, NULL, {})
    BY <1>1, <1>2, <2>3, LessGood
  <2> QED BY <1>4, <2>3, <2>4 DEF Fine, Within, DescsFreed
<1> QED BY <1>5, <1>6

LEMMA AllocIrqsFine ==
  ASSUME WellOrdered, NEW s, Good(s, NULL, NULL, NULL, {}), NEW R, Within(s, R), NEW d \in Domain, d \in R,
         NEW n \in Nat, n > 0, NEW fail
  PROVE  Fine(irq_domain_alloc_irqs(s, d, n, fail), NULL, NULL, NULL, R)
<1>t. PICK t : t = irq_domain_alloc_irqs(s, d, n, fail)
  BY Zenon
<1>1. s \in States /\ Fine(s, NULL, NULL, NULL, R)
  BY DEF Fine, Good
<1>2. CASE FreeRanges(s, n) = {} \/ fail = "ops"
  <2>1. t = s
    BY <1>2, <1>t DEF irq_domain_alloc_irqs
  <2> QED BY <1>1, <1>t, <2>1
<1>3. CASE ~(FreeRanges(s, n) = {} \/ fail = "ops")
  <2>1. PICK base, last : base = Min(FreeRanges(s, n)) /\ last = base + n - 1
    BY Zenon
  <2>2. base \in FreeRanges(s, n)
    <3>1. FreeRanges(s, n) \subseteq Nat /\ FreeRanges(s, n) # {}
      BY <1>3 DEF FreeRanges, Virq
    <3> QED BY <2>1, <3>1 DEF WellOrdered
  <2>3. base \in Int /\ \A i \in 0 .. n - 1 : base + i \in Virq \ s.virqs
    BY <2>2, Constants DEF FreeRanges
  <2>4. base .. last \in SUBSET (Virq \ s.virqs)
    <3> SUFFICES ASSUME NEW u \in base .. last
                 PROVE  u \in Virq \ s.virqs
      OBVIOUS
    <3>1. u - base \in 0 .. n - 1 /\ base + (u - base) = u
      BY <2>1, <2>3
    <3> QED BY <2>3, <3>1
  <2>5. \A v \in Virq \ s.virqs : v \in DOMAIN s.desc =>
          s.desc[v].hwirq = IRQ_INVALID /\ s.desc[v].parent_desc = NULL
    <3>1. \A v \in Virq \ s.virqs : ~Mapped(s, v)
      BY DEF Good, Numbers
    <3> QED BY <3>1, Unused
  <2>6. CASE fail = "desc" /\ last \notin DOMAIN s.desc
    <3>1. PICK vs : vs = base .. last - 1
      BY Zenon
    <3>2. vs \in SUBSET (Virq \ s.virqs) /\ vs \in SUBSET Virq
      BY <2>1, <2>3, <2>4, <3>1
    <3>3. PICK g : g = GiveDescs(s, d, vs)
      BY Zenon
    <3>4. DescsGiven(g, s, d, vs)
      BY <1>1, <2>5, <3>2, <3>3, GiveDescsFields
    <3>5. Fine(FreeDescs(g, vs), NULL, NULL, NULL, R)
      BY <3>2, <3>4, TakenBackFine
    <3>6. t = FreeDescs(g, vs)
      BY <1>3, <1>t, <2>1, <2>6, <3>1, <3>3 DEF irq_domain_alloc_irqs
    <3> QED BY <1>t, <3>5, <3>6
  <2>7. CASE ~(fail = "desc" /\ last \notin DOMAIN s.desc)
    <3>1. PICK vs, r : vs = base .. last /\ r = [s EXCEPT !.virqs = @ \cup vs]
      BY Zenon
    <3>2. vs \in SUBSET (Virq \ s.virqs) /\ vs \in SUBSET Virq
      BY <2>4, <3>1
    <3>3. /\ r \in States /\ r.virqs = s.virqs \cup vs /\ r.desc = s.desc /\ r.map = s.map
          /\ r.revmap = s.revmap /\ r.panicked = s.panicked /\ r.wild = s.wild
      <4>1. s.virqs \cup vs \in SUBSET Virq
        BY <1>1, <3>2, Fields
      <4>2. r = [s EXCEPT !.virqs = s.virqs \cup vs]
        BY <3>1
      <4> QED BY <1>1, <4>1, <4>2, Replace
    <3>4. PICK g : g = GiveDescs(r, d, vs)
      BY Zenon
    <3>5. DescsGiven(g, r, d, vs)
      BY <2>5, <3>2, <3>3, <3>4, GiveDescsFields
    <3>6. Good(g, NULL, NULL, NULL, {}) /\ Within(g, R)
      BY <3>2, <3>3, <3>5, GivenGood
    <3>7. t = g
      BY <1>3, <1>t, <2>1, <2>7, <3>1, <3>4 DEF irq_domain_alloc_irqs
    <3> QED BY <1>t, <3>6, <3>7 DEF Fine, Good
  <2> QED BY <2>6, <2>7
<1> QED BY <1>2, <1>3

\* Markers come and go in the tree of d, and mappings stay.
Marked(t, s, d) ==
  /\ t \in States /\ t.virqs = s.virqs /\ t.desc = s.desc /\ t.revmap = s.revmap
  /\ t.panicked = s.panicked /\ t.wild = s.wild
  /\ \A e \in Domain, h \in HwIrq :
       \/ t.map[e][h] = s.map[e][h]
       \/ e = d /\ s.map[e][h] \in {NULL, RESERVED} /\ t.map[e][h] \in {NULL, RESERVED}

LEMMA MarkedGood ==
  ASSUME NEW s, Good(s, NULL, NULL, NULL, {}), NEW R, Within(s, R),
         NEW d \in Domain, type[d] = "TREE", NEW t, Marked(t, s, d)
  PROVE  Fine(t, NULL, NULL, NULL, R)
<1>1. \A u : Mapped(t, u) <=> Mapped(s, u)
  BY DEF Marked, Mapped
<1>2. Numbers(t, NULL)
  BY <1>1 DEF Good, Numbers, Marked
<1>3. Entries(t, NULL, NULL, NULL)
  <2> SUFFICES ASSUME NEW e \in Domain, NEW k \in HwIrq, NEW u \in Virq
               PROVE  t.map[e][k] = u <=>
                        \/ Mapped(t, u) /\ t.desc[u].domain = e /\ t.desc[u].hwirq = k
                        \/ u = NULL /\ e = NULL /\ k = NULL
    BY DEF Entries
  <2>1. t.map[e][k] = u <=> s.map[e][k] = u
    BY Constants DEF Marked
  <2>2. t.desc = s.desc
    BY DEF Marked
  <2>3. s.map[e][k] = u <=> \/ Mapped(s, u) /\ s.desc[u].domain = e /\ s.desc[u].hwirq = k
                            \/ u = NULL /\ e = NULL /\ k = NULL
    BY DEF Good, Entries
  <2> QED BY <1>1, <2>1, <2>2, <2>3
<1>4. Tables(t)
  <2> SUFFICES ASSUME NEW e \in Domain, NEW k \in HwIrq
               PROVE  /\ t.map[e][k] # DANGLING
                      /\ type[e] # "TREE" =>
                           /\ t.map[e][k] # RESERVED
                           /\ k >= size[e] => t.map[e][k] = NULL
                           /\ t.revmap[e][k] = IF t.map[e][k] = NULL THEN IRQ_INVALID
                                               ELSE t.map[e][k]
    BY DEF Tables
  <2>1. CASE type[e] = "TREE"
    <3>1. s.map[e][k] # DANGLING
      BY DEF Good, Tables
    <3> QED BY <2>1, <3>1, Constants DEF Marked
  <2>2. CASE type[e] # "TREE"
    <3>1. t.map[e][k] = s.map[e][k] /\ t.revmap[e][k] = s.revmap[e][k]
      BY <2>2 DEF Marked
    <3> QED BY <3>1 DEF Good, Tables
  <2> QED BY <2>1, <2>2
<1>5. Links(t, {})
  BY <1>1 DEF Good, Links, Cascaded, Linked, Marked
<1> QED BY <1>2, <1>3, <1>4, <1>5 DEF Fine, Good, Within, Marked

\* Markers that are set and taken away again.
LEMMA MarkedAndBack ==
  ASSUME NEW s, NEW d \in Domain, NEW hs, \A h \in hs : s.map[d][h] = NULL,
         NEW y, KeysInserted(y, s, d, hs, RESERVED), NEW t, KeysDeleted(t, y, d, hs)
  PROVE  Marked(t, s, d)
<1>1. \A e \in Domain, h \in HwIrq : ~(e = d /\ h \in hs) => t.map[e][h] = s.map[e][h]
  BY DEF KeysInserted, KeysDeleted
<1>2. \A h \in HwIrq : h \in hs => t.map[d][h] = NULL
  BY DEF KeysInserted, KeysDeleted
<1>3. \A e \in Domain, h \in HwIrq : t.map[e][h] = s.map[e][h]
  BY <1>1, <1>2
<1>4. /\ t \in States /\ t.virqs = s.virqs /\ t.desc = s.desc /\ t.revmap = s.revmap
      /\ t.panicked = s.panicked /\ t.wild = s.wild
  BY DEF KeysInserted, KeysDeleted
<1> QED BY <1>3, <1>4 DEF Marked

\* The largest of a range of numbers and one more.
LEMMA MaxOfRange ==
  ASSUME NEW a \in Int, NEW b \in Int, NEW x \in Int
  PROVE  Max((a .. b) \cup {x}) \in Int
<1>1. PICK S : S = (a .. b) \cup {x}
  BY Zenon
<1>2. \E y \in S : \A z \in S : y >= z
  <2>1. CASE a <= b /\ b >= x
    BY <1>1, <2>1
  <2>2. CASE ~(a <= b /\ b >= x)
    BY <1>1, <2>2
  <2> QED BY <2>1, <2>2
<1>3. Max(S) \in S
  BY <1>2 DEF Max
<1> QED BY <1>1, <1>3

LEMMA AllocHwRangeFine ==
  ASSUME WellOrdered, NEW s, Good(s, NULL, NULL, NULL, {}), NEW R, Within(s, R), NEW d \in Domain,
         NEW n \in Nat, n > 0, NEW fail
  PROVE  Fine(irq_domain_alloc_hwirq_range(s, d, n, fail), NULL, NULL, NULL, R)
<1>t. PICK t : t = irq_domain_alloc_hwirq_range(s, d, n, fail)
  BY Zenon
<1>1. s \in States /\ Fine(s, NULL, NULL, NULL, R)
  BY DEF Fine, Good
<1>2. CASE type[d] # "TREE" \/ FreeHwRanges(s, d, n) = {}
  <2>1. t = s
    BY <1>2, <1>t DEF irq_domain_alloc_hwirq_range
  <2> QED BY <1>1, <1>t, <2>1
<1>3. CASE ~(type[d] # "TREE" \/ FreeHwRanges(s, d, n) = {})
  <2>1. PICK base : base = Min(FreeHwRanges(s, d, n))
    BY Zenon
  <2>2. base \in FreeHwRanges(s, d, n)
    <3>1. FreeHwRanges(s, d, n) \subseteq Nat /\ FreeHwRanges(s, d, n) # {}
      BY <1>3, Constants DEF FreeHwRanges
    <3> QED BY <2>1, <3>1 DEF WellOrdered
  <2>3. base \in Int /\ \A i \in 0 .. n - 1 : s.map[d][base + i] = NULL
    BY <2>2, Constants DEF FreeHwRanges
  <2>4. \A h \in base .. base + n - 1 : s.map[d][h] = NULL
    <3> SUFFICES ASSUME NEW h \in base .. base + n - 1
                 PROVE  s.map[d][h] = NULL
      OBVIOUS
    <3>1. h - base \in 0 .. n - 1 /\ base + (h - base) = h
      BY <2>3
    <3> QED BY <2>3, <3>1
  <2>5. ASSUME NEW a \in {base + n - 2, base + n - 1}
        PROVE  KeysInserted(InsertKeys(s, d, base .. a, RESERVED), s, d, base .. a, RESERVED)
    <3>1. a \in Int /\ s.max_key[d] \in Int /\ RESERVED \in Slot
      BY <1>1, <2>3, Fields DEF Slot
    <3>2. Max((base .. a) \cup {s.max_key[d]}) \in Int
      BY <2>3, <3>1, MaxOfRange
    <3>3. PICK hs : hs = base .. a
      BY Zenon
    <3>4. KeysInserted(InsertKeys(s, d, hs, RESERVED), s, d, hs, RESERVED)
      BY <1>1, <3>1, <3>2, <3>3, InsertKeysFields
    <3> QED BY <3>3, <3>4
  <2>6. CASE fail = "insert"
    <3>1. PICK hs, y : hs = base .. base + n - 2 /\ y = InsertKeys(s, d, hs, RESERVED)
      BY Zenon
    <3>2. KeysInserted(y, s, d, hs, RESERVED)
      BY <2>5, <3>1
    <3>3. t = DeleteKeys(y, d, hs)
      BY <1>3, <1>t, <2>1, <2>6, <3>1 DEF irq_domain_alloc_hwirq_range
    <3>4. KeysDeleted(t, y, d, hs)
      BY <3>2, <3>3, DeleteKeysFields DEF KeysInserted
    <3>5. base .. base + n - 2 \subseteq base .. base + n - 1
      BY <2>3
    <3>6. Marked(t, s, d)
      BY <2>4, <3>1, <3>2, <3>4, <3>5, MarkedAndBack
    <3> QED BY <1>3, <1>t, <3>6, MarkedGood
  <2>7. CASE fail # "insert"
    <3>1. t = InsertKeys(s, d, base .. base + n - 1, RESERVED)
      BY <1>3, <1>t, <2>1, <2>7 DEF irq_domain_alloc_hwirq_range
    <3>2. KeysInserted(t, s, d, base .. base + n - 1, RESERVED)
      BY <2>5, <3>1
    <3>3. Marked(t, s, d)
      BY <2>4, <3>2 DEF KeysInserted, Marked
    <3> QED BY <1>3, <1>t, <3>3, MarkedGood
  <2> QED BY <2>6, <2>7
<1> QED BY <1>2, <1>3

LEMMA FreeHwRangeFine ==
  ASSUME NEW s, Good(s, NULL, NULL, NULL, {}), NEW R, Within(s, R), NEW d \in Domain,
         NEW base, NEW n
  PROVE  Fine(irq_domain_free_hwirq_range(s, d, base, n), NULL, NULL, NULL, R)
<1>1. s \in States /\ Fine(s, NULL, NULL, NULL, R)
  BY DEF Fine, Good
<1>2. CASE type[d] # "TREE"
  BY <1>1, <1>2 DEF irq_domain_free_hwirq_range
<1>3. CASE type[d] = "TREE"
  <2>1. PICK hs : hs = {h \in HwIrq \cap (base .. base + n - 1) : s.map[d][h] = RESERVED}
    BY Zenon
  <2>2. PICK t : t = DeleteKeys(s, d, hs)
    BY Zenon
  <2>3. KeysDeleted(t, s, d, hs)
    BY <1>1, <2>2, DeleteKeysFields
  <2>4. \A h \in hs : s.map[d][h] = RESERVED
    BY <2>1
  <2>5. Marked(t, s, d)
    BY <2>3, <2>4 DEF KeysDeleted, Marked
  <2>6. Fine(t, NULL, NULL, NULL, R)
    BY <1>3, <2>5, MarkedGood
  <2> QED BY <1>3, <2>1, <2>2, <2>6 DEF irq_domain_free_hwirq_range
<1> QED BY <1>2, <1>3

=============================================================================
