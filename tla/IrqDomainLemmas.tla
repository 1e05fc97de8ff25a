-------------------------- MODULE IrqDomainLemmas --------------------------
(***************************************************************************)
(* What holds of the mappings of interrupt domains between any two calls,  *)
(* and how irq_dispose_mapping keeps it (kernel/irq/irq_domain.c).         *)
(***************************************************************************)
EXTENDS IrqDomain, TLAPS

-----------------------------------------------------------------------------
(* What the mapping calls work on. *)

Slot == Virq \cup {NULL, RESERVED, DANGLING}

Desc == [domain : Domain \cup {NULL}, hwirq : HwIrq \cup {IRQ_INVALID},
         parent_desc : Virq \cup {NULL, DANGLING}, handler : Int \X Int]

States == [virqs : SUBSET Virq,
           desc : UNION {[D -> Desc] : D \in SUBSET Virq},
           map : [Domain -> [HwIrq -> Slot]],
           revmap : [Domain -> [HwIrq -> Virq \cup {IRQ_INVALID}]],
           max_key : [Domain -> Int],
           panicked : BOOLEAN, wild : BOOLEAN]

LEMMA Constants ==
  /\ NULL \notin Virq /\ RESERVED \notin Virq /\ DANGLING \notin Virq /\ IRQ_INVALID \notin Virq
  /\ NULL \notin Domain /\ IRQ_INVALID \notin HwIrq
  /\ NULL # RESERVED /\ NULL # DANGLING /\ NULL # IRQ_INVALID
  /\ RESERVED # DANGLING /\ RESERVED # IRQ_INVALID /\ DANGLING # IRQ_INVALID
  /\ NoHandler \in Int \X Int
  /\ Virq \subseteq Int /\ HwIrq \subseteq Nat /\ Domain \subseteq Nat
  BY IrqDomainAssumption
  DEF NULL, RESERVED, DANGLING, IRQ_INVALID, Virq, Domain, HwIrq, NoHandler

\* The fields of a state.
LEMMA Fields ==
  ASSUME NEW s \in States
  PROVE  /\ s.virqs \in SUBSET Virq
         /\ DOMAIN s.desc \in SUBSET Virq /\ s.desc \in [DOMAIN s.desc -> Desc]
         /\ s.map \in [Domain -> [HwIrq -> Slot]]
         /\ s.revmap \in [Domain -> [HwIrq -> Virq \cup {IRQ_INVALID}]]
         /\ s.max_key \in [Domain -> Int]
         /\ s.panicked \in BOOLEAN /\ s.wild \in BOOLEAN
  BY DEF States

\* A descriptor is a record.
LEMMA DescFields ==
  ASSUME NEW s \in States, NEW v \in DOMAIN s.desc
  PROVE  /\ s.desc[v] \in Desc
         /\ s.desc[v].domain \in Domain \cup {NULL}
         /\ s.desc[v].hwirq \in HwIrq \cup {IRQ_INVALID}
         /\ s.desc[v].parent_desc \in Virq \cup {NULL, DANGLING}
         /\ s.desc[v].handler \in Int \X Int
  BY Fields DEF Desc

LEMMA NewState ==
  ASSUME NEW virqs \in SUBSET Virq, NEW D \in SUBSET Virq, NEW desc \in [D -> Desc],
         NEW map \in [Domain -> [HwIrq -> Slot]],
         NEW revmap \in [Domain -> [HwIrq -> Virq \cup {IRQ_INVALID}]],
         NEW max_key \in [Domain -> Int], NEW panicked \in BOOLEAN, NEW wild \in BOOLEAN
  PROVE  [virqs |-> virqs, desc |-> desc, map |-> map, revmap |-> revmap,
          max_key |-> max_key, panicked |-> panicked, wild |-> wild] \in States
  BY DEF States

-----------------------------------------------------------------------------
(* Unmap. *)

\* Nothing but the table entry of its own line leads to v.
Unreferenced(s, v) ==
  /\ \A u \in DOMAIN s.desc : s.desc[u].parent_desc # v
  /\ \A d \in Domain, h \in HwIrq :
       s.map[d][h] = v <=> s.desc[v].domain = d /\ s.desc[v].hwirq = h

\* The state after the mapping of v went: its entry is free, its number too,
\* its descriptor is gone or belongs to no domain.
Gone(t, s, v) ==
  LET c == s.desc[v] IN
  /\ t \in States
  /\ t.virqs = s.virqs \ {v}
  /\ \A d \in Domain, h \in HwIrq :
       /\ t.map[d][h] = IF d = c.domain /\ h = c.hwirq THEN NULL ELSE s.map[d][h]
       /\ t.revmap[d][h] = IF d = c.domain /\ h = c.hwirq /\ type[d] # "TREE"
                           THEN IRQ_INVALID ELSE s.revmap[d][h]
  /\ DOMAIN t.desc \subseteq DOMAIN s.desc
  /\ \A u \in DOMAIN s.desc \ {v} : u \in DOMAIN t.desc /\ t.desc[u] = s.desc[u]
  /\ v \in DOMAIN t.desc => /\ t.desc[v].domain = NULL /\ t.desc[v].hwirq = IRQ_INVALID
                            /\ t.desc[v].parent_desc = NULL
  /\ t.panicked = s.panicked /\ t.wild = s.wild

LEMMA GoneDesc ==
  ASSUME NEW t, NEW s, NEW v, Gone(t, s, v)
  PROVE  /\ DOMAIN t.desc \subseteq DOMAIN s.desc
         /\ \A u \in DOMAIN s.desc \ {v} : u \in DOMAIN t.desc /\ t.desc[u] = s.desc[u]
  BY DEF Gone

LEMMA GoneMap ==
  ASSUME NEW t, NEW s, NEW v, Gone(t, s, v), NEW d \in Domain, NEW h \in HwIrq
  PROVE  t.map[d][h] = s.map[d][h] \/ t.map[d][h] = NULL
  BY DEF Gone

\* The state with one field replaced.
LEMMA Replace ==
  ASSUME NEW s \in States
  PROVE  /\ \A D \in SUBSET Virq : \A x \in [D -> Desc] :
              /\ [s EXCEPT !.desc = x] \in States /\ [s EXCEPT !.desc = x].desc = x
              /\ [s EXCEPT !.desc = x].virqs = s.virqs
              /\ [s EXCEPT !.desc = x].map = s.map
              /\ [s EXCEPT !.desc = x].revmap = s.revmap
              /\ [s EXCEPT !.desc = x].panicked = s.panicked
              /\ [s EXCEPT !.desc = x].wild = s.wild
         /\ \A x \in SUBSET Virq :
              /\ [s EXCEPT !.virqs = x] \in States /\ [s EXCEPT !.virqs = x].virqs = x
              /\ [s EXCEPT !.virqs = x].desc = s.desc
              /\ [s EXCEPT !.virqs = x].map = s.map
              /\ [s EXCEPT !.virqs = x].revmap = s.revmap
              /\ [s EXCEPT !.virqs = x].panicked = s.panicked
              /\ [s EXCEPT !.virqs = x].wild = s.wild
         /\ \A x \in [Domain -> [HwIrq -> Slot]] :
              /\ [s EXCEPT !.map = x] \in States /\ [s EXCEPT !.map = x].map = x
              /\ [s EXCEPT !.map = x].virqs = s.virqs
              /\ [s EXCEPT !.map = x].desc = s.desc
              /\ [s EXCEPT !.map = x].revmap = s.revmap
              /\ [s EXCEPT !.map = x].panicked = s.panicked
              /\ [s EXCEPT !.map = x].wild = s.wild
  BY DEF States

\* The tree of d without the keys in hs.
KeysDeleted(t, s, d, hs) ==
  /\ t \in States /\ t.virqs = s.virqs /\ t.desc = s.desc /\ t.revmap = s.revmap
  /\ t.panicked = s.panicked /\ t.wild = s.wild
  /\ \A e \in Domain, h \in HwIrq :
       t.map[e][h] = IF e = d /\ h \in hs THEN NULL ELSE s.map[e][h]

LEMMA DeleteKeysFields ==
  ASSUME NEW s \in States, NEW d \in Domain, NEW hs
  PROVE  KeysDeleted(DeleteKeys(s, d, hs), s, d, hs)
<1>t. PICK t : t = DeleteKeys(s, d, hs)
  BY Zenon
<1>1. PICK m : m = [s.map EXCEPT ![d] = [h \in HwIrq |-> IF h \in hs THEN NULL ELSE s.map[d][h]]]
  BY Zenon
<1>2. PICK x : x = [s.max_key EXCEPT ![d] =
               IF hs \cap Keys(s, d) # {} /\ (Keys(s, d) \subseteq hs \cap Keys(s, d)
                                               \/ s.max_key[d] \in hs \cap Keys(s, d))
               THEN 0 ELSE s.max_key[d]]
  OBVIOUS
<1>3. t = [s EXCEPT !.map = m, !.max_key = x]
  BY <1>1, <1>2, <1>t DEF DeleteKeys
<1>4. m \in [Domain -> [HwIrq -> Slot]] /\ x \in [Domain -> Int]
  BY <1>1, <1>2, Fields DEF Slot
<1>5. /\ t \in States /\ t.virqs = s.virqs /\ t.desc = s.desc /\ t.revmap = s.revmap
      /\ t.panicked = s.panicked /\ t.wild = s.wild /\ t.map = m
  BY <1>3, <1>4 DEF States
<1>6. \A e \in Domain, h \in HwIrq :
        m[e][h] = IF e = d /\ h \in hs THEN NULL ELSE s.map[e][h]
  BY <1>1, Fields
<1> QED BY <1>5, <1>6, <1>t DEF KeysDeleted

\* Descriptors that nothing leads to are freed.
DescsFreed(t, s, vs) ==
  /\ t \in States /\ t.virqs = s.virqs /\ t.map = s.map /\ t.revmap = s.revmap
  /\ t.panicked = s.panicked /\ t.wild = s.wild
  /\ DOMAIN t.desc = DOMAIN s.desc \ vs
  /\ \A u \in DOMAIN s.desc \ vs : t.desc[u] = s.desc[u]

LEMMA FreeDescsFields ==
  ASSUME NEW s \in States, NEW vs,
         \A v \in vs : s.desc[v].handler = NoHandler,
         \A u \in DOMAIN s.desc \ vs : s.desc[u].parent_desc \notin vs,
         \A d \in Domain, h \in HwIrq : s.map[d][h] \notin vs
  PROVE  DescsFreed(FreeDescs(s, vs), s, vs)
<1>t. PICK t : t = FreeDescs(s, vs)
  BY Zenon
<1>1. PICK x : x = [u \in DOMAIN s.desc \ vs |->
            [s.desc[u] EXCEPT !.parent_desc = IF @ \in vs THEN DANGLING ELSE @]]
  BY Zenon
<1>2. PICK m : m = [d \in Domain |->
            [h \in HwIrq |-> IF s.map[d][h] \in vs THEN DANGLING ELSE s.map[d][h]]]
  BY Zenon
<1>3. t = [s EXCEPT !.desc = x, !.map = m]
  BY <1>1, <1>2, <1>t DEF FreeDescs
<1>4. m = s.map
  BY <1>2, Fields
<1>5. x = [u \in DOMAIN s.desc \ vs |-> s.desc[u]]
  <2>1. ASSUME NEW u \in DOMAIN s.desc \ vs
        PROVE  [s.desc[u] EXCEPT !.parent_desc = IF @ \in vs THEN DANGLING ELSE @] = s.desc[u]
    <3>1. PICK c \in Desc : c = s.desc[u]
      BY DescFields
    <3>2. [c EXCEPT !.parent_desc = IF @ \in vs THEN DANGLING ELSE @] = c
      BY <3>1 DEF Desc
    <3> QED BY <3>1, <3>2
  <2> QED BY <1>1, <2>1
<1>6. x \in [DOMAIN s.desc \ vs -> Desc] /\ DOMAIN s.desc \ vs \in SUBSET Virq
  BY <1>5, Fields
<1>7. /\ t \in States /\ t.virqs = s.virqs /\ t.map = s.map /\ t.revmap = s.revmap
      /\ t.panicked = s.panicked /\ t.wild = s.wild /\ t.desc = x
  <2>1. [s EXCEPT !.desc = x, !.map = m] = [[s EXCEPT !.desc = x] EXCEPT !.map = m]
    OBVIOUS
  <2>2. PICK r : r = [s EXCEPT !.desc = x]
    BY Zenon
  <2>3. /\ r \in States /\ r.desc = x /\ r.virqs = s.virqs /\ r.map = s.map
        /\ r.revmap = s.revmap /\ r.panicked = s.panicked /\ r.wild = s.wild
    BY <1>6, <2>2, Replace
  <2>4. t = [r EXCEPT !.map = m] /\ m \in [Domain -> [HwIrq -> Slot]]
    BY <1>3, <1>4, <2>1, <2>2, Fields
  <2> QED BY <1>4, <2>3, <2>4, Replace
<1> QED BY <1>5, <1>7, <1>t DEF DescsFreed

\* The entry of v in the table of its domain is cleared.
EntryCleared(t, s, d, h) ==
  /\ t \in States /\ t.virqs = s.virqs /\ t.desc = s.desc
  /\ t.panicked = s.panicked /\ t.wild = s.wild
  /\ \A e \in Domain, k \in HwIrq :
       /\ t.map[e][k] = IF e = d /\ k = h THEN NULL ELSE s.map[e][k]
       /\ t.revmap[e][k] = IF e = d /\ k = h /\ type[e] # "TREE"
                           THEN IRQ_INVALID ELSE s.revmap[e][k]

LEMMA ClearEntryFields ==
  ASSUME NEW s \in States, NEW v \in Virq, NEW d \in Domain, NEW h \in HwIrq \cup {IRQ_INVALID},
         \A e \in Domain, k \in HwIrq : s.map[e][k] = v <=> d = e /\ h = k
  PROVE  EntryCleared(ClearEntry(s, d, h, v), s, d, h)
<1>t. PICK t : t = ClearEntry(s, d, h, v)
  BY Zenon
<1>1. CASE type[d] = "TREE"
  <2>1. t = DeleteKeys(s, d, {h})
    BY <1>1, <1>t DEF radix_tree_delete, ClearEntry
  <2>2. KeysDeleted(t, s, d, {h})
    BY <2>1, DeleteKeysFields
  <2>3. EntryCleared(t, s, d, h)
    BY <1>1, <2>2 DEF KeysDeleted, EntryCleared
  <2> QED BY <1>t, <2>3
<1>2. CASE type[d] # "TREE" /\ h \notin HwIrq
  BY <1>2, <1>t DEF EntryCleared, ClearEntry
<1>3. CASE type[d] # "TREE" /\ h \in HwIrq
  <2>1. PICK m : m = [s.map EXCEPT ![d] = [@ EXCEPT ![h] = NULL]]
    BY Zenon
  <2>2. PICK r : r = [s.revmap EXCEPT ![d] = [@ EXCEPT ![h] = IRQ_INVALID]]
    BY Zenon
  <2>3. s.map[d][h] = v
    BY <1>3
  <2>4. t = [s EXCEPT !.map = m, !.revmap = r]
    BY <1>3, <1>t, <2>1, <2>2, <2>3 DEF ClearEntry
  <2>5. /\ m \in [Domain -> [HwIrq -> Slot]]
        /\ r \in [Domain -> [HwIrq -> Virq \cup {IRQ_INVALID}]]
    BY <1>3, <2>1, <2>2, Fields DEF Slot
  <2>6. /\ t \in States /\ t.virqs = s.virqs /\ t.desc = s.desc /\ t.map = m /\ t.revmap = r
        /\ t.panicked = s.panicked /\ t.wild = s.wild
    BY <2>4, <2>5 DEF States
  <2>7. \A e \in Domain, k \in HwIrq : m[e][k] = IF e = d /\ k = h THEN NULL ELSE s.map[e][k]
    BY <1>3, <2>1, Fields
  <2>8. \A e \in Domain, k \in HwIrq :
          r[e][k] = IF e = d /\ k = h THEN IRQ_INVALID ELSE s.revmap[e][k]
    BY <1>3, <2>2, Fields
  <2> QED BY <1>3, <1>t, <2>6, <2>7, <2>8 DEF EntryCleared
<1> QED BY <1>1, <1>2, <1>3

LEMMA DetachedDesc ==
  ASSUME NEW c \in Desc
  PROVE  /\ Detached(c) \in Desc /\ Detached(c).domain = NULL
         /\ Detached(c).hwirq = IRQ_INVALID /\ Detached(c).parent_desc = NULL
         /\ Detached(c).handler = c.handler
  BY DEF Detached, NewDesc, Desc

LEMMA UnmapGone ==
  ASSUME NEW s \in States, NEW v \in Virq, Mapped(s, v), Unreferenced(s, v)
  PROVE  Gone(Unmap(s, v), s, v)
<1>1. PICK c, d, h : c = s.desc[v] /\ d = c.domain /\ h = c.hwirq
  BY Zenon
<1>2. v \in DOMAIN s.desc /\ c \in Desc /\ d \in Domain /\ h \in HwIrq \cup {IRQ_INVALID}
  BY <1>1, DescFields DEF Mapped
<1>3. PICK s1 : s1 = ClearEntry(s, d, h, v)
  BY Zenon
<1>4. /\ s1 \in States /\ s1.virqs = s.virqs /\ s1.desc = s.desc
      /\ s1.panicked = s.panicked /\ s1.wild = s.wild
      /\ \A e \in Domain, k \in HwIrq :
           /\ s1.map[e][k] = IF e = d /\ k = h THEN NULL ELSE s.map[e][k]
           /\ s1.revmap[e][k] = IF e = d /\ k = h /\ type[e] # "TREE"
                                THEN IRQ_INVALID ELSE s.revmap[e][k]
  <2>1. \A e \in Domain, k \in HwIrq : s.map[e][k] = v <=> d = e /\ h = k
    BY <1>1 DEF Unreferenced
  <2>2. EntryCleared(s1, s, d, h)
    BY <1>2, <1>3, <2>1, ClearEntryFields
  <2> QED BY <2>2 DEF EntryCleared
<1>5. PICK x, r, s2 : /\ x = [s1.desc EXCEPT ![v] = Detached(@)]
                      /\ r = [s1 EXCEPT !.desc = x]
                      /\ s2 = [r EXCEPT !.virqs = @ \ {v}]
  OBVIOUS
<1>6. s2 = virq_free([s1 EXCEPT !.desc[v] = Detached(@)], v)
  BY <1>5 DEF virq_free
<1>7. /\ x \in [DOMAIN s.desc -> Desc] /\ DOMAIN s.desc \in SUBSET Virq
      /\ x[v] = Detached(c) /\ \A u \in DOMAIN s.desc \ {v} : x[u] = s.desc[u]
  BY <1>1, <1>2, <1>4, <1>5, Fields, DetachedDesc
<1>8. /\ r \in States /\ r.desc = x /\ r.virqs = s.virqs /\ r.map = s1.map
      /\ r.revmap = s1.revmap /\ r.panicked = s.panicked /\ r.wild = s.wild
  BY <1>4, <1>5, <1>7, Replace
<1>9. /\ s2 \in States /\ s2.desc = x /\ s2.virqs = s.virqs \ {v} /\ s2.map = s1.map
      /\ s2.revmap = s1.revmap /\ s2.panicked = s.panicked /\ s2.wild = s.wild
  <2>1. s.virqs \ {v} \in SUBSET Virq
    BY Fields
  <2>2. s2 = [r EXCEPT !.virqs = s.virqs \ {v}]
    BY <1>5, <1>8
  <2> QED BY <1>8, <2>1, <2>2, Replace
<1>10. Unmap(s, v) = IF c.handler = NoHandler THEN irq_desc_free(s2, v) ELSE s2
  <2>1. s2.desc[v].handler = c.handler
    BY <1>2, <1>7, <1>9, DetachedDesc
  <2> QED BY <1>1, <1>3, <1>6, <2>1 DEF Unmap
<1>11. CASE c.handler # NoHandler
  BY <1>1, <1>2, <1>4, <1>7, <1>9, <1>10, <1>11, DetachedDesc DEF Gone
<1>12. CASE c.handler = NoHandler
  <2>1. PICK t : t = FreeDescs(s2, {v})
    BY Zenon
  <2>2. \A u \in {v} : s2.desc[u].handler = NoHandler
    BY <1>2, <1>7, <1>9, <1>12, DetachedDesc
  <2>3. \A u \in DOMAIN s2.desc \ {v} : s2.desc[u].parent_desc \notin {v}
    BY <1>7, <1>9 DEF Unreferenced
  <2>4. \A e \in Domain, k \in HwIrq : s2.map[e][k] \notin {v}
    BY <1>1, <1>4, <1>9, Constants DEF Unreferenced
  <2>5. DescsFreed(t, s2, {v})
    BY <1>9, <2>1, <2>2, <2>3, <2>4, FreeDescsFields
  <2>6. Unmap(s, v) = t
    BY <1>10, <1>12, <2>1 DEF irq_desc_free
  <2> QED BY <1>1, <1>4, <1>7, <1>9, <2>5, <2>6 DEF Gone, DescsFreed
<1> QED BY <1>11, <1>12

-----------------------------------------------------------------------------
(* The invariant of the mappings.  In the middle of irq_create_mapping in a *)
(* child domain the number pv is taken, and already entered for the line    *)
(* (pd, ph), and its descriptor belongs to no domain yet; pv is NULL        *)
(* otherwise.  In the middle of irq_dispose_mapping the descriptors of X    *)
(* have lost their parents.                                                 *)

\* v stands for a line of a hierarchical domain.
Cascaded(s, v) ==
  Mapped(s, v) /\ type[s.desc[v].domain] = "HIERARCHY" /\ s.desc[v].hwirq # IRQ_INVALID

Linked(s, v) ==
  LET c == s.desc[v] IN
  /\ <<c.domain, c.hwirq>> \in Lines
  /\ c.parent_desc \in DOMAIN s.desc
  /\ s.desc[c.parent_desc].domain = parent[c.domain]
  /\ s.desc[c.parent_desc].hwirq = child_to_parent_hwirq[c.domain][c.hwirq]

Links(s, X) ==
  \A v \in DOMAIN s.desc :
    IF Cascaded(s, v) /\ v \notin X THEN Linked(s, v) ELSE s.desc[v].parent_desc = NULL

Numbers(s, pv) ==
  /\ \A v \in Virq : v \in s.virqs <=> Mapped(s, v) \/ v = pv
  /\ pv \in Virq => pv \in DOMAIN s.desc /\ ~Mapped(s, pv)
  /\ \A v \in DOMAIN s.desc : ~Mapped(s, v) => s.desc[v].hwirq = IRQ_INVALID

Entries(s, pv, pd, ph) ==
  \A d \in Domain, h \in HwIrq, v \in Virq :
    s.map[d][h] = v <=> \/ Mapped(s, v) /\ s.desc[v].domain = d /\ s.desc[v].hwirq = h
                        \/ v = pv /\ d = pd /\ h = ph

Tables(s) ==
  \A d \in Domain, h \in HwIrq :
    /\ s.map[d][h] # DANGLING
    /\ type[d] # "TREE" =>
         /\ s.map[d][h] # RESERVED
         /\ h >= size[d] => s.map[d][h] = NULL
         /\ s.revmap[d][h] = IF s.map[d][h] = NULL THEN IRQ_INVALID ELSE s.map[d][h]

Good(s, pv, pd, ph, X) ==
  /\ s \in States /\ ~s.panicked /\ ~s.wild
  /\ Numbers(s, pv) /\ Entries(s, pv, pd, ph) /\ Tables(s) /\ Links(s, X)

\* An entry that is a number leads to its mapping.
LEMMA EntryMapped ==
  ASSUME NEW s, Good(s, NULL, NULL, NULL, {}), NEW d \in Domain, NEW h \in HwIrq,
         NEW v \in Virq, s.map[d][h] = v
  PROVE  Mapped(s, v) /\ s.desc[v].domain = d /\ s.desc[v].hwirq = h
<1>1. Entries(s, NULL, NULL, NULL)
  BY DEF Good
<1>2. v # NULL
  BY Constants
<1> QED BY <1>1, <1>2 DEF Entries

\* The entry of a mapping is its number.
LEMMA MappedEntry ==
  ASSUME NEW s, Good(s, NULL, NULL, NULL, {}), NEW v \in Virq, Mapped(s, v),
         NEW d \in Domain, NEW h \in HwIrq, s.desc[v].domain = d, s.desc[v].hwirq = h
  PROVE  s.map[d][h] = v
<1>1. Entries(s, NULL, NULL, NULL)
  BY DEF Good
<1> QED BY <1>1 DEF Entries

\* What is entered for a line of a linear or hierarchical domain.
LEMMA EntryNumber ==
  ASSUME NEW s, NEW pv, NEW pd, NEW ph, NEW X, Good(s, pv, pd, ph, X),
         NEW d \in Domain, NEW h \in HwIrq, type[d] # "TREE", s.map[d][h] # NULL
  PROVE  s.map[d][h] \in Virq
<1>1. s.map[d][h] # RESERVED /\ s.map[d][h] # DANGLING
  BY DEF Good, Tables
<1>2. s.map[d][h] \in Slot
  BY Fields DEF Good
<1> QED BY <1>1, <1>2 DEF Slot

LEMMA EntryFree ==
  ASSUME NEW s, NEW pv, NEW pd, NEW ph, NEW X, Good(s, pv, pd, ph, X),
         NEW d \in Domain, NEW h \in HwIrq, s.map[d][h] \notin Virq
  PROVE  s.map[d][h] \in {NULL, RESERVED}
<1>1. s.map[d][h] # DANGLING
  BY DEF Good, Tables
<1>2. s.map[d][h] \in Slot
  BY Fields DEF Good
<1> QED BY <1>1, <1>2 DEF Slot

\* What holds does not depend on max_key and on the handlers.
LEMMA SameGood ==
  ASSUME NEW s, NEW pv, NEW pd, NEW ph, NEW X, Good(s, pv, pd, ph, X),
         NEW t \in States, t.virqs = s.virqs, t.map = s.map, t.revmap = s.revmap,
         t.panicked = s.panicked, t.wild = s.wild, DOMAIN t.desc = DOMAIN s.desc,
         \A u \in DOMAIN s.desc : /\ t.desc[u].domain = s.desc[u].domain
                                  /\ t.desc[u].hwirq = s.desc[u].hwirq
                                  /\ t.desc[u].parent_desc = s.desc[u].parent_desc
  PROVE  Good(t, pv, pd, ph, X)
<1>1. \A u : Mapped(t, u) <=> Mapped(s, u)
  BY DEF Mapped
<1>2. Numbers(t, pv)
  BY <1>1 DEF Good, Numbers
<1>3. Entries(t, pv, pd, ph)
  BY <1>1 DEF Good, Entries, Mapped
<1>4. Tables(t)
  BY DEF Good, Tables
<1>5. Links(t, X)
  <2> SUFFICES ASSUME NEW u \in DOMAIN t.desc
               PROVE  IF Cascaded(t, u) /\ u \notin X THEN Linked(t, u)
                      ELSE t.desc[u].parent_desc = NULL
    BY DEF Links
  <2>1. u \in DOMAIN s.desc /\ (Cascaded(t, u) <=> Cascaded(s, u))
    BY <1>1 DEF Cascaded
  <2>2. IF Cascaded(s, u) /\ u \notin X THEN Linked(s, u) ELSE s.desc[u].parent_desc = NULL
    BY <2>1 DEF Good, Links
  <2> QED BY <2>1, <2>2 DEF Linked
<1> QED BY <1>2, <1>3, <1>4, <1>5 DEF Good

\* No descriptor has v as its parent.
NoChild(s, v) == \A u \in DOMAIN s.desc : s.desc[u].parent_desc # v

LEMMA GoodUnreferenced ==
  ASSUME NEW s, NEW pv, NEW pd, NEW ph, NEW X, Good(s, pv, pd, ph, X),
         NEW v \in Virq, Mapped(s, v), NoChild(s, v)
  PROVE  Unreferenced(s, v)
<1>1. v # pv
  BY DEF Good, Numbers
<1> QED BY <1>1 DEF Good, Entries, Unreferenced, NoChild

LEMMA GoneGood ==
  ASSUME NEW s, NEW pv, NEW pd, NEW ph, NEW X, Good(s, pv, pd, ph, X),
         NEW v \in Virq, Mapped(s, v), NoChild(s, v), NEW t, Gone(t, s, v)
  PROVE  Good(t, pv, pd, ph, X \ {v})
<1>1. s \in States /\ t \in States /\ v \in DOMAIN s.desc /\ v # pv
  BY DEF Good, Gone, Mapped, Numbers
<1>2. /\ DOMAIN t.desc \subseteq DOMAIN s.desc
      /\ \A u \in DOMAIN s.desc \ {v} : u \in DOMAIN t.desc /\ t.desc[u] = s.desc[u]
      /\ v \in DOMAIN t.desc => /\ t.desc[v].domain = NULL /\ t.desc[v].hwirq = IRQ_INVALID
                                /\ t.desc[v].parent_desc = NULL
  BY DEF Gone
<1>3. ~Mapped(t, v) /\ \A u \in Virq : u # v => (Mapped(t, u) <=> Mapped(s, u))
  BY <1>2 DEF Mapped
<1>4. Numbers(t, pv)
  <2>1. \A u \in Virq : u \in t.virqs <=> Mapped(t, u) \/ u = pv
    BY <1>1, <1>3 DEF Good, Numbers, Gone
  <2>2. pv \in Virq => pv \in DOMAIN t.desc /\ ~Mapped(t, pv)
    BY <1>1, <1>2, <1>3 DEF Good, Numbers
  <2>3. ASSUME NEW u \in DOMAIN t.desc, ~Mapped(t, u)
        PROVE  t.desc[u].hwirq = IRQ_INVALID
    <3>1. CASE u = v
      BY <1>2, <3>1
    <3>2. CASE u # v
      <4>1. u \in DOMAIN s.desc /\ t.desc[u] = s.desc[u] /\ u \in Virq
        BY <1>1, <1>2, <3>2, Fields
      <4> QED BY <1>3, <2>3, <3>2, <4>1 DEF Good, Numbers
    <3> QED BY <3>1, <3>2
  <2> QED BY <2>1, <2>2, <2>3 DEF Numbers
<1>5. Entries(t, pv, pd, ph)
  <2> SUFFICES ASSUME NEW d \in Domain, NEW h \in HwIrq, NEW u \in Virq
               PROVE  t.map[d][h] = u <=>
                        \/ Mapped(t, u) /\ t.desc[u].domain = d /\ t.desc[u].hwirq = h
                        \/ u = pv /\ d = pd /\ h = ph
    BY DEF Entries
  <2>1. s.map[d][h] = u <=> \/ Mapped(s, u) /\ s.desc[u].domain = d /\ s.desc[u].hwirq = h
                            \/ u = pv /\ d = pd /\ h = ph
    BY DEF Good, Entries
  <2>2. s.map[d][h] = v <=> s.desc[v].domain = d /\ s.desc[v].hwirq = h
    BY <1>1 DEF Good, Entries
  <2>3. t.map[d][h] = IF d = s.desc[v].domain /\ h = s.desc[v].hwirq THEN NULL ELSE s.map[d][h]
    BY DEF Gone
  <2>4. NULL # u
    BY Constants
  <2>5. u # v => (Mapped(s, u) => t.desc[u] = s.desc[u])
    BY <1>2 DEF Mapped
  <2> QED BY <1>1, <1>3, <2>1, <2>2, <2>3, <2>4, <2>5
<1>6. Tables(t)
  <2> SUFFICES ASSUME NEW d \in Domain, NEW h \in HwIrq
               PROVE  /\ t.map[d][h] # DANGLING
                      /\ type[d] # "TREE" =>
                           /\ t.map[d][h] # RESERVED
                           /\ h >= size[d] => t.map[d][h] = NULL
                           /\ t.revmap[d][h] = IF t.map[d][h] = NULL THEN IRQ_INVALID
                                               ELSE t.map[d][h]
    BY DEF Tables
  <2> QED BY Constants DEF Good, Tables, Gone
<1>7. Links(t, X \ {v})
  <2> SUFFICES ASSUME NEW u \in DOMAIN t.desc
               PROVE  IF Cascaded(t, u) /\ u \notin X \ {v} THEN Linked(t, u)
                      ELSE t.desc[u].parent_desc = NULL
    BY DEF Links
  <2>1. CASE u = v
    BY <1>2, <1>3, <2>1 DEF Cascaded
  <2>2. CASE u # v
    <3>1. u \in DOMAIN s.desc /\ t.desc[u] = s.desc[u] /\ u \in Virq
      BY <1>1, <1>2, <2>2, Fields
    <3>2. Cascaded(t, u) <=> Cascaded(s, u)
      BY <1>3, <2>2, <3>1 DEF Cascaded
    <3>3. s.desc[u].parent_desc # v
      BY <3>1 DEF NoChild
    <3> QED BY <1>2, <2>2, <3>1, <3>2, <3>3 DEF Good, Links, Linked
  <2> QED BY <2>1, <2>2
<1> QED BY <1>1, <1>4, <1>5, <1>6, <1>7 DEF Good, Gone

LEMMA UnmapGood ==
  ASSUME NEW s, NEW pv, NEW pd, NEW ph, NEW X, Good(s, pv, pd, ph, X),
         NEW v \in Virq, Mapped(s, v), NoChild(s, v)
  PROVE  Gone(Unmap(s, v), s, v) /\ Good(Unmap(s, v), pv, pd, ph, X \ {v})
<1>1. s \in States /\ Unreferenced(s, v)
  BY GoodUnreferenced DEF Good
<1>2. PICK t : t = Unmap(s, v)
  BY Zenon
<1>3. Gone(t, s, v)
  BY <1>1, <1>2, UnmapGone
<1>4. Good(t, pv, pd, ph, X \ {v})
  BY <1>3, GoneGood
<1> QED BY <1>2, <1>3, <1>4

-----------------------------------------------------------------------------
(* irq_dispose_mapping. *)

\* Cascaded controllers use lines of their parents that no driver maps, and no
\* two the same one.
Exclusive ==
  \A d \in Domain, h \in HwIrq :
    <<d, h>> \in Lines /\ type[d] = "HIERARCHY" /\ h < size[d] =>
      /\ <<parent[d], child_to_parent_hwirq[d][h]>> \notin Lines
      /\ \A e \in Domain, k \in HwIrq :
           /\ <<e, k>> \in Lines /\ type[e] = "HIERARCHY" /\ k < size[e]
           /\ parent[d] = parent[e]
           /\ child_to_parent_hwirq[d][h] = child_to_parent_hwirq[e][k]
           => d = e /\ h = k

\* What the parent of a descriptor tells of the descriptor.
ChildAt(s, u, d, h, p) ==
  /\ u \in Virq /\ d \in Domain /\ h \in HwIrq /\ p \in DOMAIN s.desc /\ p \in Virq /\ p # u
  /\ s.desc[u].domain = d /\ s.desc[u].hwirq = h /\ s.map[d][h] = u
  /\ type[d] = "HIERARCHY" /\ h < size[d] /\ <<d, h>> \in Lines
  /\ s.desc[p].domain = parent[d] /\ s.desc[p].hwirq = child_to_parent_hwirq[d][h]
  /\ Mapped(s, p)

LEMMA ParentOf ==
  ASSUME NEW s, NEW pv, NEW pd, NEW ph, NEW X, Good(s, pv, pd, ph, X),
         NEW u \in DOMAIN s.desc, s.desc[u].parent_desc # NULL
  PROVE  /\ u \notin X /\ u # pv
         /\ ChildAt(s, u, s.desc[u].domain, s.desc[u].hwirq, s.desc[u].parent_desc)
<1>1. PICK c : c = s.desc[u]
  BY Zenon
<1>2. s \in States /\ u \in Virq /\ DOMAIN s.desc \subseteq Virq
  BY Fields DEF Good
<1>3. Cascaded(s, u) /\ u \notin X /\ Linked(s, u)
  BY DEF Good, Links
<1>4. /\ c.domain \in Domain /\ c.hwirq \in HwIrq /\ type[c.domain] = "HIERARCHY"
      /\ <<c.domain, c.hwirq>> \in Lines /\ Mapped(s, u)
  BY <1>1, <1>2, <1>3, DescFields DEF Cascaded, Linked, Mapped
<1>5. u # pv
  BY <1>2, <1>4 DEF Good, Numbers
<1>6. s.map[c.domain][c.hwirq] = u
  BY <1>1, <1>2, <1>4 DEF Good, Entries
<1>7. c.hwirq < size[c.domain]
  <2>1. u # NULL
    BY <1>2, Constants
  <2>2. c.hwirq \in Int /\ size[c.domain] \in Int
    <3>1. size[c.domain] \in Nat
      BY <1>4, IrqDomainAssumption
    <3>2. c.hwirq \in Nat
      BY <1>4, Constants
    <3> QED BY <3>1, <3>2
  <2> QED BY <1>4, <1>6, <2>1, <2>2 DEF Good, Tables
<1>8. parent[c.domain] \in Domain /\ type[parent[c.domain]] # "HIERARCHY"
  BY <1>4, IrqDomainAssumption
<1>9. /\ c.parent_desc \in DOMAIN s.desc
      /\ s.desc[c.parent_desc].domain = parent[c.domain]
      /\ s.desc[c.parent_desc].hwirq = child_to_parent_hwirq[c.domain][c.hwirq]
  BY <1>1, <1>3 DEF Linked
<1>10. c.parent_desc # u /\ Mapped(s, c.parent_desc)
  BY <1>1, <1>4, <1>8, <1>9, Constants DEF Mapped
<1> QED BY <1>1, <1>2, <1>3, <1>4, <1>5, <1>6, <1>7, <1>9, <1>10 DEF ChildAt

\* The state after the mapping of v went, and that of its parent.
Disposed(t, s, v) ==
  /\ ~Mapped(t, v)
  /\ DOMAIN t.desc \subseteq DOMAIN s.desc
  /\ \A u \in DOMAIN s.desc : u # v /\ u # s.desc[v].parent_desc =>
                                u \in DOMAIN t.desc /\ t.desc[u] = s.desc[u]
  /\ \A u \in DOMAIN t.desc : t.desc[u] = s.desc[u] \/ t.desc[u].domain = NULL
  /\ \A d \in Domain, h \in HwIrq : t.map[d][h] = s.map[d][h] \/ t.map[d][h] = NULL

\* v loses its parent.
Cut(s, v) == [s EXCEPT !.desc[v].parent_desc = NULL]

WithoutParent(t, s, v) ==
  /\ DOMAIN t.desc = DOMAIN s.desc /\ t.map = s.map
  /\ \A u \in DOMAIN s.desc : u # v => t.desc[u] = s.desc[u]
  /\ t.desc[v].parent_desc = NULL /\ t.desc[v].domain = s.desc[v].domain

LEMMA CutGood ==
  ASSUME NEW s, NEW pv, NEW pd, NEW ph, Good(s, pv, pd, ph, {}),
         NEW v \in DOMAIN s.desc, Cascaded(s, v)
  PROVE  Good(Cut(s, v), pv, pd, ph, {v}) /\ WithoutParent(Cut(s, v), s, v)
<1>t. PICK t : t = Cut(s, v)
  BY Zenon
<1>1. s \in States /\ v \in Virq /\ s.desc[v] \in Desc
  BY Fields, DescFields DEF Good
<1>2. PICK c : c = [s.desc[v] EXCEPT !.parent_desc = NULL]
  BY Zenon
<1>3. /\ c \in Desc /\ c.parent_desc = NULL /\ c.domain = s.desc[v].domain
      /\ c.hwirq = s.desc[v].hwirq
  BY <1>1, <1>2 DEF Desc
<1>4. PICK x : x = [s.desc EXCEPT ![v] = c]
  BY Zenon
<1>5. t = [s EXCEPT !.desc = x]
  BY <1>2, <1>4, <1>t DEF Cut
<1>6. /\ x \in [DOMAIN s.desc -> Desc] /\ DOMAIN s.desc \in SUBSET Virq /\ x[v] = c
      /\ \A u \in DOMAIN s.desc : u # v => x[u] = s.desc[u]
  BY <1>1, <1>3, <1>4, Fields
<1>7. /\ t \in States /\ t.desc = x /\ t.virqs = s.virqs /\ t.map = s.map
      /\ t.revmap = s.revmap /\ t.panicked = s.panicked /\ t.wild = s.wild
  BY <1>1, <1>5, <1>6, Replace
<1>8. /\ DOMAIN t.desc = DOMAIN s.desc
      /\ \A u \in DOMAIN s.desc : /\ t.desc[u].domain = s.desc[u].domain
                                  /\ t.desc[u].hwirq = s.desc[u].hwirq
                                  /\ u # v => t.desc[u] = s.desc[u]
      /\ t.desc[v].parent_desc = NULL
  BY <1>3, <1>6, <1>7
<1>9. \A u : Mapped(t, u) <=> Mapped(s, u)
  BY <1>8 DEF Mapped
<1>10. Numbers(t, pv)
  BY <1>7, <1>8, <1>9 DEF Good, Numbers
<1>11. Entries(t, pv, pd, ph)
  BY <1>7, <1>8, <1>9 DEF Good, Entries, Mapped
<1>12. Tables(t)
  BY <1>7 DEF Good, Tables
<1>13. Links(t, {v})
  <2> SUFFICES ASSUME NEW u \in DOMAIN t.desc
               PROVE  IF Cascaded(t, u) /\ u \notin {v} THEN Linked(t, u)
                      ELSE t.desc[u].parent_desc = NULL
    BY DEF Links
  <2>1. CASE u = v
    BY <1>8, <2>1
  <2>2. CASE u # v
    <3>1. u \in DOMAIN s.desc /\ t.desc[u] = s.desc[u] /\ (Cascaded(t, u) <=> Cascaded(s, u))
      BY <1>8, <1>9, <2>2 DEF Cascaded
    <3>2. IF Cascaded(s, u) THEN Linked(s, u) ELSE s.desc[u].parent_desc = NULL
      BY <3>1 DEF Good, Links
    <3> QED BY <1>8, <2>2, <3>1, <3>2 DEF Linked
  <2> QED BY <2>1, <2>2
<1>14. WithoutParent(t, s, v)
  BY <1>7, <1>8 DEF WithoutParent
<1>15. Good(t, pv, pd, ph, {v})
  BY <1>7, <1>10, <1>11, <1>12, <1>13 DEF Good
<1> QED BY <1>t, <1>14, <1>15

LEMMA DisposeGood ==
  ASSUME Exclusive, NEW s, NEW pv, NEW pd, NEW ph, Good(s, pv, pd, ph, {}),
         NEW v \in Virq, Mapped(s, v), NoChild(s, v)
  PROVE  /\ Good(irq_dispose_mapping(s, v), pv, pd, ph, {})
         /\ Disposed(irq_dispose_mapping(s, v), s, v)
<1>1. PICK p, t : p = s.desc[v].parent_desc /\ t = irq_dispose_mapping(s, v)
  BY Zenon
<1>2. v \in DOMAIN s.desc /\ s \in States
  BY DEF Mapped, Good
<1>3. CASE type[s.desc[v].domain] # "HIERARCHY" \/ p = NULL
  <2>1. t = Unmap(s, v)
    BY <1>1, <1>3 DEF irq_dispose_mapping
  <2>2. Gone(t, s, v) /\ Good(t, pv, pd, ph, {} \ {v})
    BY <2>1, UnmapGood
  <2>3. {} \ {v} = {}
    OBVIOUS
  <2>4. Disposed(t, s, v)
    BY <2>2 DEF Gone, Disposed, Mapped
  <2> QED BY <1>1, <2>2, <2>3, <2>4
<1>4. CASE ~(type[s.desc[v].domain] # "HIERARCHY" \/ p = NULL)
  <2>1. PICK d, h : d = s.desc[v].domain /\ h = s.desc[v].hwirq
    BY Zenon
  <2>2. /\ d \in Domain /\ h \in HwIrq /\ type[d] = "HIERARCHY" /\ h < size[d]
        /\ <<d, h>> \in Lines /\ s.map[d][h] = v
        /\ p \in DOMAIN s.desc /\ p \in Virq /\ p # v /\ Mapped(s, p)
        /\ s.desc[p].domain = parent[d] /\ s.desc[p].hwirq = child_to_parent_hwirq[d][h]
    <3>1. ChildAt(s, v, s.desc[v].domain, s.desc[v].hwirq, s.desc[v].parent_desc)
      BY <1>1, <1>2, <1>4, ParentOf
    <3> QED BY <1>1, <2>1, <3>1 DEF ChildAt
  <2>3. Cascaded(s, v)
    BY <2>1, <2>2, Constants DEF Cascaded
  <2>4. PICK s1 : s1 = Cut(s, v)
    BY Zenon
  <2>5. Good(s1, pv, pd, ph, {v}) /\ WithoutParent(s1, s, v)
    BY <1>2, <2>3, <2>4, CutGood
  <2>6. Mapped(s1, p) /\ Mapped(s1, v)
    BY <1>2, <2>2, <2>5 DEF Mapped, WithoutParent
  <2>7. NoChild(s1, p)
    <3> SUFFICES ASSUME NEW u \in DOMAIN s1.desc, s1.desc[u].parent_desc = p
                 PROVE  FALSE
      BY DEF NoChild
    <3>1. p # NULL
      BY <2>2, Constants
    <3>2. u # v /\ u \in DOMAIN s.desc /\ s.desc[u].parent_desc = p
      BY <2>5, <3>1 DEF WithoutParent
    <3>3. PICK e, k : e = s.desc[u].domain /\ k = s.desc[u].hwirq
      BY Zenon
    <3>4. /\ e \in Domain /\ k \in HwIrq /\ type[e] = "HIERARCHY" /\ k < size[e]
          /\ <<e, k>> \in Lines /\ s.map[e][k] = u
          /\ s.desc[p].domain = parent[e] /\ s.desc[p].hwirq = child_to_parent_hwirq[e][k]
      <4>1. ChildAt(s, u, s.desc[u].domain, s.desc[u].hwirq, s.desc[u].parent_desc)
        BY <3>1, <3>2, ParentOf
      <4> QED BY <3>2, <3>3, <4>1 DEF ChildAt
    <3>5. d = e /\ h = k
      <4>1. parent[d] = parent[e] /\ child_to_parent_hwirq[d][h] = child_to_parent_hwirq[e][k]
        BY <2>2, <3>4
      <4> QED BY <2>2, <3>4, <4>1 DEF Exclusive
    <3> QED BY <2>2, <3>2, <3>4, <3>5
  <2>8. PICK t1 : t1 = Unmap(s1, p)
    BY Zenon
  <2>9. Gone(t1, s1, p) /\ Good(t1, pv, pd, ph, {v} \ {p})
    BY <2>2, <2>5, <2>6, <2>7, <2>8, UnmapGood
  <2>10. {v} \ {p} = {v} /\ {v} \ {v} = {}
    BY <2>2
  <2>11. Mapped(t1, v) /\ t1.desc[v] = s1.desc[v]
    BY <2>2, <2>6, <2>9 DEF Mapped, Gone
  <2>12. NoChild(t1, v)
    <3> SUFFICES ASSUME NEW u \in DOMAIN t1.desc
                 PROVE  t1.desc[u].parent_desc # v
      BY DEF NoChild
    <3>1. CASE u = p
      BY <2>9, <3>1, Constants DEF Gone
    <3>2. CASE u # p
      <4>1. u \in DOMAIN s1.desc /\ t1.desc[u] = s1.desc[u]
        BY <2>9, <3>2 DEF Gone
      <4> QED BY <2>5, <4>1, Constants DEF WithoutParent, NoChild
    <3> QED BY <3>1, <3>2
  <2>13. t = Unmap(t1, v)
    <3>1. p # DANGLING
      BY <2>2, Constants
    <3> QED BY <1>1, <1>4, <2>4, <2>6, <2>8, <3>1 DEF irq_dispose_mapping, Cut
  <2>14. Gone(t, t1, v) /\ Good(t, pv, pd, ph, {v} \ {v})
    BY <2>9, <2>10, <2>11, <2>12, <2>13, UnmapGood
  <2>15. Disposed(t, s, v)
    <3>1. ~Mapped(t, v)
      BY <2>14 DEF Gone, Mapped
    <3>a. /\ DOMAIN s1.desc = DOMAIN s.desc
          /\ \A u \in DOMAIN s.desc : u # v => s1.desc[u] = s.desc[u]
      BY <2>5 DEF WithoutParent
    <3>b. /\ DOMAIN t1.desc \subseteq DOMAIN s1.desc
          /\ \A u \in DOMAIN s1.desc \ {p} : u \in DOMAIN t1.desc /\ t1.desc[u] = s1.desc[u]
      BY <2>9, GoneDesc
    <3>c. /\ DOMAIN t.desc \subseteq DOMAIN t1.desc
          /\ \A u \in DOMAIN t1.desc \ {v} : u \in DOMAIN t.desc /\ t.desc[u] = t1.desc[u]
      BY <2>14, GoneDesc
    <3>2. DOMAIN t.desc \subseteq DOMAIN s.desc
      BY <3>a, <3>b, <3>c
    <3>3. \A u \in DOMAIN s.desc : u # v /\ u # p => u \in DOMAIN t.desc /\ t.desc[u] = s.desc[u]
      BY <3>a, <3>b, <3>c
    <3>4. \A u \in DOMAIN t.desc : t.desc[u] = s.desc[u] \/ t.desc[u].domain = NULL
      <4> SUFFICES ASSUME NEW u \in DOMAIN t.desc
                   PROVE  t.desc[u] = s.desc[u] \/ t.desc[u].domain = NULL
        OBVIOUS
      <4>1. CASE u = v
        BY <2>14, <4>1 DEF Gone
      <4>2. CASE u = p
        BY <2>2, <2>9, <2>14, <4>2 DEF Gone
      <4>3. CASE u # v /\ u # p
        BY <3>2, <3>3, <4>3
      <4> QED BY <4>1, <4>2, <4>3
    <3>5. \A e \in Domain, k \in HwIrq : t.map[e][k] = s.map[e][k] \/ t.map[e][k] = NULL
      <4>1. s1.map = s.map
        BY <2>5 DEF WithoutParent
      <4>2. \A e \in Domain, k \in HwIrq : t1.map[e][k] = s1.map[e][k] \/ t1.map[e][k] = NULL
        BY <2>9, GoneMap
      <4>3. \A e \in Domain, k \in HwIrq : t.map[e][k] = t1.map[e][k] \/ t.map[e][k] = NULL
        BY <2>14, GoneMap
      <4> QED BY <4>1, <4>2, <4>3
    <3> QED BY <1>1, <3>1, <3>2, <3>3, <3>4, <3>5 DEF Disposed
  <2> QED BY <1>1, <2>10, <2>14, <2>15
<1> QED BY <1>3, <1>4

-----------------------------------------------------------------------------
(* One round of the loops of irq_domain_free_irqs and irq_domain_remove, *)
(* which dispose of one mapping after the other.                          *)

\* The descriptors belong to domains of R.
Within(s, R) == \A v \in DOMAIN s.desc : s.desc[v].domain \in R \cup {NULL}

\* irq_domain_free_irqs when the numbers from base + i on are still to go.
FreeLoop(s, i, base, n, R) ==
  /\ Good(s, NULL, NULL, NULL, {}) /\ Within(s, R)
  /\ \A u \in base + i .. base + n - 1 : Mapped(s, u) /\ s.desc[u].hwirq = IRQ_INVALID

LEMMA FreeLoopStep ==
  ASSUME Exclusive, NEW base \in Virq, NEW n \in Nat, NEW R, base .. base + n - 1 \subseteq Virq,
         NEW i \in 1 .. n, NEW s, FreeLoop(s, i - 1, base, n, R)
  PROVE  FreeLoop(irq_dispose_mapping(s, base + i - 1), i, base, n, R)
<1>1. PICK v : v = base + i - 1
  BY Zenon
<1>2. base \in Int
  BY Constants
<1>3. v \in base .. base + n - 1 /\ v \in base + (i - 1) .. base + n - 1 /\ v \in Virq
  BY <1>1, <1>2
<1>4. Mapped(s, v) /\ s.desc[v].hwirq = IRQ_INVALID /\ Good(s, NULL, NULL, NULL, {})
  BY <1>3 DEF FreeLoop
<1>5. ASSUME NEW u \in DOMAIN s.desc, NEW w \in DOMAIN s.desc,
             s.desc[w].hwirq = IRQ_INVALID, s.desc[u].parent_desc = w
      PROVE  FALSE
  <2>1. w # NULL
    BY <1>4, <1>5, Fields, Constants DEF Good
  <2>2. ChildAt(s, u, s.desc[u].domain, s.desc[u].hwirq, s.desc[u].parent_desc)
    BY <1>4, <1>5, <2>1, ParentOf
  <2>3. PICK d, h : d = s.desc[u].domain /\ h = s.desc[u].hwirq
    BY Zenon
  <2>4. /\ d \in Domain /\ h \in HwIrq /\ type[d] = "HIERARCHY"
        /\ IRQ_INVALID = child_to_parent_hwirq[d][h]
    BY <1>5, <2>2, <2>3 DEF ChildAt
  <2>5. child_to_parent_hwirq[d][h] \in HwIrq
    BY <2>4, IrqDomainAssumption
  <2> QED BY <2>4, <2>5, Constants
<1>6. NoChild(s, v)
  BY <1>4, <1>5 DEF NoChild, Mapped
<1>7. PICK t : t = irq_dispose_mapping(s, v)
  BY Zenon
<1>8. Good(t, NULL, NULL, NULL, {}) /\ Disposed(t, s, v)
  BY <1>3, <1>4, <1>6, <1>7, DisposeGood
<1>9. Within(t, R)
  BY <1>8 DEF Within, Disposed, FreeLoop
<1>10. ASSUME NEW u \in base + i .. base + n - 1
       PROVE  Mapped(t, u) /\ t.desc[u].hwirq = IRQ_INVALID
  <2>1. u \in base + (i - 1) .. base + n - 1 /\ u # v
    BY <1>1, <1>2
  <2>2. Mapped(s, u) /\ s.desc[u].hwirq = IRQ_INVALID
    BY <2>1 DEF FreeLoop
  <2>3. u # s.desc[v].parent_desc
    BY <1>4, <1>5, <2>2 DEF Mapped
  <2> QED BY <1>8, <2>1, <2>2, <2>3 DEF Mapped, Disposed
<1>11. FreeLoop(t, i, base, n, R)
  BY <1>8, <1>9, <1>10 DEF FreeLoop
<1> QED BY <1>1, <1>7, <1>11

\* irq_domain_remove of a linear or hierarchical domain without children: the
\* entries below i are clear.
RemoveLoop(s, i, d, R) ==
  /\ Good(s, NULL, NULL, NULL, {}) /\ Within(s, R)
  /\ \A v \in DOMAIN s.desc : s.desc[v].domain = d => s.desc[v].hwirq # IRQ_INVALID
  /\ \A h \in HwIrq : h < i => s.map[d][h] = NULL

\* A domain of R whose children are not.
Childless(d, R) == \A c \in R \cap Domain : ~(type[c] = "HIERARCHY" /\ parent[c] = d)

LEMMA RemoveLoopStep ==
  ASSUME Exclusive, NEW R, NEW d \in Domain, type[d] # "TREE", Childless(d, R),
         NEW i \in 1 .. MaxHwIrq + 1, NEW s, RemoveLoop(s, i - 1, d, R)
  PROVE  RemoveLoop(DisposeEntry(s, d, i - 1), i, d, R)
<1>1. PICK h, t : h = i - 1 /\ t = DisposeEntry(s, d, i - 1)
  BY Zenon
<1>2. h \in HwIrq /\ h \in Nat /\ size[d] \in Nat /\ \A k \in HwIrq : k \in Nat
  BY <1>1, IrqDomainAssumption DEF HwIrq
<1>3. Good(s, NULL, NULL, NULL, {}) /\ Within(s, R) /\ s \in States
  BY DEF RemoveLoop, Good
<1>4. CASE ~(h < size[d] /\ s.map[d][h] # NULL)
  <2>1. s.map[d][h] = NULL
    BY <1>2, <1>3, <1>4 DEF Good, Tables
  <2>2. t = s
    BY <1>1, <1>4 DEF DisposeEntry
  <2>3. \A k \in HwIrq : k < i => k < i - 1 \/ k = h
    BY <1>1, <1>2
  <2>4. RemoveLoop(s, i, d, R)
    BY <2>1, <2>3 DEF RemoveLoop
  <2> QED BY <1>1, <2>2, <2>4
<1>5. CASE h < size[d] /\ s.map[d][h] # NULL
  <2>1. PICK v : v = s.map[d][h]
    BY Zenon
  <2>2. v \in Virq
    BY <1>2, <1>3, <1>5, <2>1, EntryNumber
  <2>3. Mapped(s, v) /\ s.desc[v].domain = d /\ s.desc[v].hwirq = h
    <3>1. h \in HwIrq /\ Good(s, NULL, NULL, NULL, {})
      BY <1>2, <1>3
    <3> QED BY <2>1, <2>2, <3>1, EntryMapped
  <2>4. NoChild(s, v)
    <3> SUFFICES ASSUME NEW u \in DOMAIN s.desc, s.desc[u].parent_desc = v
                 PROVE  FALSE
      BY DEF NoChild
    <3>1. v # NULL
      BY <2>2, Constants
    <3>2. ChildAt(s, u, s.desc[u].domain, s.desc[u].hwirq, s.desc[u].parent_desc)
      BY <1>3, <3>1, ParentOf
    <3>3. /\ s.desc[u].domain \in Domain /\ type[s.desc[u].domain] = "HIERARCHY"
          /\ parent[s.desc[u].domain] = d
      BY <2>3, <3>2 DEF ChildAt
    <3>4. s.desc[u].domain \in R
      BY <1>3, <3>3, Constants DEF Within
    <3> QED BY <3>3, <3>4 DEF Childless
  <2>5. t = irq_dispose_mapping(s, v)
    BY <1>1, <1>5, <2>1 DEF DisposeEntry
  <2>6. Good(t, NULL, NULL, NULL, {}) /\ Disposed(t, s, v)
    BY <1>3, <2>2, <2>3, <2>4, <2>5, DisposeGood
  <2>7. Within(t, R)
    BY <1>3, <2>6 DEF Within, Disposed
  <2>8. \A u \in DOMAIN t.desc : t.desc[u].domain = d => t.desc[u].hwirq # IRQ_INVALID
    <3>1. \A u \in DOMAIN t.desc : u \in DOMAIN s.desc
                                   /\ (t.desc[u] = s.desc[u] \/ t.desc[u].domain = NULL)
      BY <2>6 DEF Disposed
    <3>2. d # NULL
      BY Constants
    <3> QED BY <3>1, <3>2 DEF RemoveLoop
  <2>9. t.map[d][h] = NULL
    <3>1. t.map[d][h] = v \/ t.map[d][h] = NULL
      BY <1>2, <2>1, <2>6 DEF Disposed
    <3>2. t.map[d][h] # v
      BY <1>2, <2>2, <2>6, Constants DEF Good, Entries, Disposed
    <3> QED BY <3>1, <3>2
  <2>10. ASSUME NEW k \in HwIrq, k < i
         PROVE  t.map[d][k] = NULL
    <3>1. CASE k = h
      BY <2>9, <3>1
    <3>2. CASE k # h
      <4>1. k < i - 1
        BY <1>1, <1>2, <2>10, <3>2
      <4>2. s.map[d][k] = NULL
        BY <4>1 DEF RemoveLoop
      <4> QED BY <2>6, <4>2 DEF Disposed
    <3> QED BY <3>1, <3>2
  <2>11. RemoveLoop(t, i, d, R)
    BY <2>6, <2>7, <2>8, <2>10 DEF RemoveLoop
  <2> QED BY <1>1, <2>11
<1> QED BY <1>4, <1>5

\* The tables of a domain that is gone.
Erased(s, d) ==
  [s EXCEPT !.map[d] = Empty.map, !.revmap[d] = Empty.revmap, !.max_key[d] = 0]

LEMMA RemovedGood ==
  ASSUME NEW R, NEW d \in Domain, type[d] # "TREE",
         NEW s, RemoveLoop(s, MaxHwIrq + 1, d, R)
  PROVE  Good(Erased(s, d), NULL, NULL, NULL, {}) /\ Within(Erased(s, d), R \ {d})
<1>1. s \in States /\ Good(s, NULL, NULL, NULL, {}) /\ \A h \in HwIrq : s.map[d][h] = NULL
  <2>1. \A h \in HwIrq : h < MaxHwIrq + 1
    BY IrqDomainAssumption DEF HwIrq
  <2> QED BY <2>1 DEF RemoveLoop, Good
<1>2. \A h \in HwIrq : s.revmap[d][h] = IRQ_INVALID
  BY <1>1 DEF Good, Tables
<1>3. s.map[d] = Empty.map /\ s.revmap[d] = Empty.revmap
  BY <1>1, <1>2, Fields DEF Empty
<1>4. PICK x : x = [s.max_key EXCEPT ![d] = 0]
  BY Zenon
<1>5. PICK t : t = Erased(s, d)
  BY Zenon
<1>6. PICK m, r : m = [s.map EXCEPT ![d] = Empty.map] /\ r = [s.revmap EXCEPT ![d] = Empty.revmap]
  BY Zenon
<1>7. m = s.map /\ r = s.revmap
  BY <1>1, <1>3, <1>6, Fields
<1>8. t = [s EXCEPT !.map = m, !.revmap = r, !.max_key = x]
  BY <1>4, <1>5, <1>6 DEF Erased
<1>9. x \in [Domain -> Int]
  BY <1>1, <1>4, Fields
<1>10. /\ t \in States /\ t.virqs = s.virqs /\ t.desc = s.desc /\ t.map = s.map
       /\ t.revmap = s.revmap /\ t.panicked = s.panicked /\ t.wild = s.wild
  BY <1>1, <1>7, <1>8, <1>9 DEF States
<1>12. Good(t, NULL, NULL, NULL, {})
  BY <1>1, <1>10, SameGood
<1>13. Within(t, R \ {d})
  <2> SUFFICES ASSUME NEW v \in DOMAIN s.desc, s.desc[v].domain = d
               PROVE  FALSE
    BY <1>10 DEF Within, RemoveLoop
  <2>1. s.desc[v].hwirq \in HwIrq /\ v \in Virq
    BY <1>1, Fields, DescFields DEF RemoveLoop
  <2>2. Mapped(s, v)
    BY Constants DEF Mapped
  <2>3. s.map[d][s.desc[v].hwirq] = v
    BY <1>1, <2>1, <2>2, MappedEntry
  <2> QED BY <1>1, <2>1, <2>3, Constants
<1> QED BY <1>5, <1>12, <1>13

=============================================================================
