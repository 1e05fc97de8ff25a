----------------------------- MODULE IrqDomain -----------------------------
(***************************************************************************)
(* The mapping of hardware interrupt numbers to virtual ones:              *)
(* kernel/irq/irq_domain.c, with the virtual number allocator irq_alloc.c  *)
(* and irq_desc_alloc and irq_desc_free of irq_desc.c under it.            *)
(*                                                                         *)
(* The calls run in task context on a kernel without threads, and each is  *)
(* taken as one step.  An interrupt handler changes no mapping; that it    *)
(* may look one up (irq_find_mapping) in the middle of a call is left out. *)
(* A call is written as an operator from the state before to the state     *)
(* after it, as the calls nest: a hierarchical domain maps and unmaps in   *)
(* its parent.  The fail argument says which of the things that can go     *)
(* wrong inside (an allocation, ops->map) does.                            *)
(*                                                                         *)
(* A pointer to a descriptor is its virtual number, as irq_desc_array has  *)
(* at most one descriptor per number; a pointer that outlives what it      *)
(* points to becomes DANGLING.                                             *)
(***************************************************************************)
EXTENDS Integers, Sequences, FiniteSetsExt

CONSTANTS
  nr_domains,   \* the domains drivers may create are 1 .. nr_domains
  type,         \* type[d]: "LINEAR", "TREE" or "HIERARCHY"
  size,         \* size[d]: entries of the linear map; max_irq of a tree
  parent,       \* parent[d]: the parent of a hierarchical domain
  child_to_parent_hwirq, \* child_to_parent_hwirq[d][h] of a hierarchical domain
  MAX_VIRQ,     \* virtual numbers are 1 .. MAX_VIRQ - 1; 0 is reserved
  MaxHwIrq,     \* hardware numbers passed by callers are 0 .. MaxHwIrq
  Lines,        \* the pairs <<domain, hwirq>> that drivers map themselves
  Removable,    \* the domains that are removed at some point
  MaxRange      \* bound on the length of an allocated range

Domain == 1 .. nr_domains
HwIrq == 0 .. MaxHwIrq
Virq == 1 .. MAX_VIRQ - 1

NULL == 0            \* no domain, no descriptor, an empty slot
RESERVED == -1       \* HWIRQ_RESERVED_MARKER
DANGLING == -2       \* a pointer to freed memory
IRQ_INVALID == -3
NoHandler == <<NULL, IRQ_INVALID>>

ASSUME IrqDomainAssumption ==
  /\ nr_domains \in Nat /\ MAX_VIRQ \in Nat /\ MaxHwIrq \in Nat
  /\ MaxRange \in Nat
  /\ type \in [Domain -> {"LINEAR", "TREE", "HIERARCHY"}]
  /\ size \in [Domain -> Nat]
  /\ \A d \in Domain : type[d] = "HIERARCHY" =>
       /\ parent[d] \in Domain /\ type[parent[d]] # "HIERARCHY"
       /\ child_to_parent_hwirq[d] \in [HwIrq -> HwIrq]
  /\ Lines \subseteq Domain \X HwIrq
  /\ Removable \subseteq Domain

VARIABLES
  irq_domain_list,     \* the registered domains, newest first
  irq_default_domain,
  st                   \* what the mapping calls work on, a record:
                       \*   virqs: the numbers whose bit is set
                       \*   desc: irq_desc_array, as a partial function
                       \*   map, revmap: linear_map or tree, and revmap
                       \*   max_key: root->max_key of the radix tree
                       \*   panicked, wild: panic was called; memory that
                       \*     is no descriptor was used as one

vars == <<irq_domain_list, irq_default_domain, st>>

Registered == Range(irq_domain_list)

-----------------------------------------------------------------------------
(* irq_alloc.c: the first free number, the first free range. *)

\* The first number of the first range of n consecutive free numbers.
FreeRanges(s, n) ==
  {v \in Virq : \A i \in 0 .. n - 1 : v + i \in Virq \ s.virqs}

virq_alloc(s) == Min(Virq \ s.virqs)

virq_free(s, v) == [s EXCEPT !.virqs = @ \ {v}]

-----------------------------------------------------------------------------
(* irq_desc.c: descriptors. *)

NewDesc == [domain |-> NULL, hwirq |-> IRQ_INVALID, parent_desc |-> NULL,
            handler |-> NoHandler]

\* A descriptor that is still in the array is returned as it is.
Found(s, v) == IF v \in DOMAIN s.desc THEN s.desc[v] ELSE NewDesc

irq_desc_alloc(s, v) ==
  [s EXCEPT !.desc = [u \in DOMAIN s.desc \cup {v} |-> Found(s, u)]]

\* irq_desc_free for the descriptors of vs, one after the other; it panics at
\* one that has a handler.
FreeDescs(s, vs) ==
  IF \E v \in vs : s.desc[v].handler # NoHandler THEN [s EXCEPT !.panicked = TRUE]
  ELSE [s EXCEPT
    !.desc = [u \in DOMAIN s.desc \ vs |->
                [s.desc[u] EXCEPT !.parent_desc = IF @ \in vs THEN DANGLING ELSE @]],
    !.map = [d \in Domain |->
               [h \in HwIrq |-> IF s.map[d][h] \in vs THEN DANGLING ELSE s.map[d][h]]]]

irq_desc_free(s, v) == FreeDescs(s, {v})

-----------------------------------------------------------------------------
(* The radix tree of a tree domain, as irq_domain.c uses it: inserting and *)
(* deleting the keys of a set, one after the other in any order.           *)

Keys(s, d) == {h \in HwIrq : s.map[d][h] # NULL}

InsertKeys(s, d, hs, item) ==
  [s EXCEPT !.map[d] = [h \in HwIrq |-> IF h \in hs THEN item ELSE @[h]],
            !.max_key[d] = Max(hs \cup {@})]

radix_tree_insert(s, d, h, item) == InsertKeys(s, d, {h}, item)

\* Deleting the largest key forgets how large the remaining ones are.
DeleteKeys(s, d, hs) ==
  LET gone == hs \cap Keys(s, d) IN
  [s EXCEPT !.map[d] = [h \in HwIrq |-> IF h \in hs THEN NULL ELSE @[h]],
            !.max_key[d] = IF gone # {} /\ (Keys(s, d) \subseteq gone \/ @ \in gone)
                           THEN 0 ELSE @]

radix_tree_delete(s, d, h) == DeleteKeys(s, d, {h})

-----------------------------------------------------------------------------
(* irq_find_mapping, irq_dispose_mapping, irq_create_mapping. *)

irq_find_mapping(s, d, h) ==
  IF type[d] = "TREE"
  THEN IF s.map[d][h] \in {NULL, RESERVED} THEN IRQ_INVALID ELSE s.map[d][h]
  ELSE IF h >= size[d] THEN IRQ_INVALID
       ELSE IF s.map[d][h] # NULL THEN s.map[d][h] ELSE s.revmap[d][h]

\* A descriptor that belongs to no domain; its handler stays.
Detached(c) == [NewDesc EXCEPT !.handler = c.handler]

\* Mutant: the entry of the linear map is cleared, the reverse map kept.
ClearEntryKeepRevmap(s, d, h, v) ==
  IF type[d] = "TREE" THEN radix_tree_delete(s, d, h)
  ELSE IF h \notin HwIrq THEN s
  ELSE [s EXCEPT !.map[d][h] = IF @ = v THEN NULL ELSE @]

\* The entry of v in the table of domain d.
ClearEntry(s, d, h, v) ==
  IF type[d] = "TREE" THEN radix_tree_delete(s, d, h)
  ELSE IF h \notin HwIrq THEN s
  ELSE [s EXCEPT !.map[d][h] = IF @ = v THEN NULL ELSE @,
                 !.revmap[d][h] = IRQ_INVALID]

\* What irq_dispose_mapping does after the parent's mapping is gone.
Unmap(s, v) ==
  LET s1 == ClearEntry(s, s.desc[v].domain, s.desc[v].hwirq, v)
      s2 == virq_free([s1 EXCEPT !.desc[v] = Detached(@)], v)
  IN IF s2.desc[v].handler = NoHandler THEN irq_desc_free(s2, v) ELSE s2

Mapped(s, v) == v \in DOMAIN s.desc /\ s.desc[v].domain # NULL

irq_dispose_mapping(s, v) ==
  IF ~Mapped(s, v) THEN s
  ELSE LET p == s.desc[v].parent_desc
           s1 == [s EXCEPT !.desc[v].parent_desc = NULL]
       IN IF type[s.desc[v].domain] # "HIERARCHY" \/ p = NULL THEN Unmap(s, v)
          ELSE IF p = DANGLING THEN [s EXCEPT !.wild = TRUE]
          ELSE Unmap(IF Mapped(s1, p) THEN Unmap(s1, p) ELSE s1, v)

\* A number and a descriptor for a new mapping.  No fresh descriptor can be
\* had when fail is "desc".
Prepare(s, fail) ==
  LET v == virq_alloc(s) IN
  IF fail = "desc" /\ v \notin DOMAIN s.desc THEN s
  ELSE irq_desc_alloc([s EXCEPT !.virqs = @ \cup {v}], v)

\* Mutant: the number is not given back.
AbandonKeepVirq(s, v) == irq_desc_free(s, v)

\* Undoing Prepare on the error paths.
Abandon(s, v) == irq_desc_free(virq_free(s, v), v)

\* A descriptor that stands for the line (d, h), with parent p if there is one.
Attached(c, d, h, p) ==
  [c EXCEPT !.hwirq = h, !.domain = d, !.parent_desc = IF p = NULL THEN @ ELSE p]

\* The rest of the descriptor, and ops->map, which may refuse.
Bind(s, d, h, v, p, fail) ==
  LET s1 == [s EXCEPT !.desc[v] = Attached(@, d, h, p)]
  IN IF fail = "ops" THEN irq_dispose_mapping(s1, v) ELSE s1

\* An entry of linear_map and of revmap.
SetEntry(s, d, h, desc, v) == [s EXCEPT !.map[d][h] = desc, !.revmap[d][h] = v]

\* irq_create_mapping in a linear or tree domain; the result is what
\* irq_find_mapping then finds.
CreateInRoot(s, d, h, fail) ==
  IF irq_find_mapping(s, d, h) # IRQ_INVALID \/ Virq \subseteq s.virqs THEN s
  ELSE LET v == virq_alloc(s)
           s1 == Prepare(s, fail)
       IN IF s1 = s THEN s
          ELSE IF type[d] = "TREE"
               THEN IF fail = "insert"
                    THEN Abandon(radix_tree_delete(s1, d, h), v)
                    ELSE Bind(radix_tree_insert(radix_tree_delete(s1, d, h), d, h, v),
                              d, h, v, NULL, fail)
               ELSE IF h >= size[d] THEN Abandon(s1, v)
                    ELSE Bind(SetEntry(s1, d, h, v, v), d, h, v, NULL, fail)

\* irq_create_mapping in a hierarchical domain; pfail is what fails in the
\* call for the parent.
CreateInChild(s, d, h, fail, pfail) ==
  IF irq_find_mapping(s, d, h) # IRQ_INVALID \/ Virq \subseteq s.virqs THEN s
  ELSE LET v == virq_alloc(s)
           s1 == Prepare(s, fail)
           s2 == SetEntry(s1, d, h, v, v)
           s3 == CreateInRoot(s2, parent[d], child_to_parent_hwirq[d][h], pfail)
           p == irq_find_mapping(s3, parent[d], child_to_parent_hwirq[d][h])
       IN IF s1 = s THEN s
          ELSE IF h >= size[d] THEN Abandon(s1, v)
          ELSE IF s3.panicked THEN s3
          ELSE IF p = IRQ_INVALID
               THEN Abandon(SetEntry(s3, d, h, NULL, IRQ_INVALID), v)
               ELSE Bind(s3, d, h, v, p, fail)

irq_create_mapping(s, d, h, fail, pfail) ==
  IF type[d] = "HIERARCHY" THEN CreateInChild(s, d, h, fail, pfail)
  ELSE CreateInRoot(s, d, h, fail)

-----------------------------------------------------------------------------
(* Ranges: irq_domain_alloc_irqs, and the hardware ranges of a tree domain. *)

\* Descriptors with the numbers in vs for domain d.
GiveDescs(s, d, vs) ==
  [s EXCEPT !.desc = [u \in DOMAIN s.desc \cup vs |->
     IF u \in vs THEN [Found(s, u) EXCEPT !.domain = d] ELSE s.desc[u]]]

\* n numbers with descriptors that no hardware number belongs to yet.  When
\* fail is "desc" the last descriptor cannot be had.
irq_domain_alloc_irqs(s, d, n, fail) ==
  IF FreeRanges(s, n) = {} \/ fail = "ops" THEN s
  ELSE LET base == Min(FreeRanges(s, n))
           last == base + n - 1
       IN IF fail = "desc" /\ last \notin DOMAIN s.desc
          THEN FreeDescs(GiveDescs(s, d, base .. last - 1), base .. last - 1)
          ELSE GiveDescs([s EXCEPT !.virqs = @ \cup (base .. last)], d, base .. last)

irq_domain_free_irqs(s, base, n) ==
  LET After[i \in 0 .. n] ==
        IF i = 0 THEN s ELSE irq_dispose_mapping(After[i - 1], base + i - 1)
  IN After[n]

FreeHwRanges(s, d, n) ==
  {h \in HwIrq : \A i \in 0 .. n - 1 : /\ h + i \in HwIrq /\ h + i < size[d]
                                       /\ s.map[d][h + i] = NULL}

\* Only a tree domain records the range.  When fail is "insert" the last
\* marker cannot be inserted and the others are taken out again.
irq_domain_alloc_hwirq_range(s, d, n, fail) ==
  IF type[d] # "TREE" \/ FreeHwRanges(s, d, n) = {} THEN s
  ELSE LET base == Min(FreeHwRanges(s, d, n))
           Mark(hs) == InsertKeys(s, d, hs, RESERVED)
       IN IF fail = "insert"
          THEN DeleteKeys(Mark(base .. base + n - 2), d, base .. base + n - 2)
          ELSE Mark(base .. base + n - 1)

irq_domain_free_hwirq_range(s, d, base, n) ==
  IF type[d] # "TREE" THEN s
  ELSE DeleteKeys(s, d, {h \in HwIrq \cap (base .. base + n - 1) : s.map[d][h] = RESERVED})

-----------------------------------------------------------------------------
(* Domains come and go. *)

\* Mutant: the last entry is missed.
DisposeLinearShort(s, d) ==
  LET Entry(t, h) == IF h < size[d] - 1 /\ t.map[d][h] # NULL
                     THEN irq_dispose_mapping(t, t.map[d][h]) ELSE t
      After[i \in 0 .. MaxHwIrq + 1] == IF i = 0 THEN s ELSE Entry(After[i - 1], i - 1)
  IN After[MaxHwIrq + 1]

\* The loop over linear_map, for one entry of it.
DisposeEntry(s, d, h) ==
  IF h < size[d] /\ s.map[d][h] # NULL THEN irq_dispose_mapping(s, s.map[d][h]) ELSE s

DisposeLinear(s, d) ==
  LET After[i \in 0 .. MaxHwIrq + 1] ==
        IF i = 0 THEN s ELSE DisposeEntry(After[i - 1], d, i - 1)
  IN After[MaxHwIrq + 1]

\* The loop over radix_tree_next_slot, which looks no further than max_key.
\* The entry it returns is used as a descriptor, whatever it is.
DisposeTree(s, d) ==
  LET Seen(t) == {h \in Keys(t, d) : h <= t.max_key[d]}
      Entry(t) == IF Seen(t) = {} \/ t.wild THEN t
                  ELSE IF t.map[d][Min(Seen(t))] = RESERVED
                       THEN [t EXCEPT !.wild = TRUE]
                       ELSE irq_dispose_mapping(t, t.map[d][Min(Seen(t))])
      After[i \in 0 .. MaxHwIrq + 1] == IF i = 0 THEN s ELSE Entry(After[i - 1])
  IN After[MaxHwIrq + 1]

Empty == [map |-> [h \in HwIrq |-> NULL], revmap |-> [h \in HwIrq |-> IRQ_INVALID]]

Init ==
  /\ irq_domain_list = <<>>
  /\ irq_default_domain = NULL
  /\ st = [virqs |-> {}, desc |-> [v \in {} |-> NewDesc],
           map |-> [d \in Domain |-> Empty.map],
           revmap |-> [d \in Domain |-> Empty.revmap],
           max_key |-> [d \in Domain |-> 0], panicked |-> FALSE, wild |-> FALSE]

\* Nothing more is modelled once the kernel panicked or used wild memory.
Running == ~st.panicked /\ ~st.wild

\* irq_domain_create_linear, _tree and _hierarchy.
irq_domain_create(d) ==
  /\ Running
  /\ d \notin Registered
  /\ type[d] = "HIERARCHY" => parent[d] \in Registered
  /\ irq_domain_list' = <<d>> \o irq_domain_list
  /\ irq_default_domain' = IF irq_default_domain = NULL THEN d
                           ELSE irq_default_domain
  /\ UNCHANGED st

irq_set_default_domain(d) ==
  /\ Running
  /\ d \in Registered
  /\ irq_default_domain' = d
  /\ UNCHANGED <<irq_domain_list, st>>

\* The list without its link k.
Spliced(list, k) == SubSeq(list, 1, k - 1) \o SubSeq(list, k + 1, Len(list))

\* The default domain after d went and the domains rest are left.
DefaultWithout(d, rest) ==
  IF irq_default_domain # d THEN irq_default_domain
  ELSE IF rest = <<>> THEN NULL ELSE Head(rest)

\* The caller removes a domain after its children, and after freeing what
\* irq_domain_alloc_irqs gave it.
irq_domain_remove(d) ==
  /\ Running
  /\ d \in Registered \cap Removable
  /\ \A c \in Registered : ~(type[c] = "HIERARCHY" /\ parent[c] = d)
  /\ \A v \in DOMAIN st.desc : st.desc[v].domain = d => st.desc[v].hwirq # IRQ_INVALID
  /\ LET s == IF type[d] = "TREE" THEN DisposeTree(st, d) ELSE DisposeLinear(st, d)
     IN st' = [s EXCEPT !.map[d] = Empty.map, !.revmap[d] = Empty.revmap,
                        !.max_key[d] = 0]
  /\ \E k \in DOMAIN irq_domain_list :
       /\ irq_domain_list[k] = d
       /\ irq_domain_list' = Spliced(irq_domain_list, k)
       /\ irq_default_domain' = DefaultWithout(d, Spliced(irq_domain_list, k))

-----------------------------------------------------------------------------
(* What drivers do.  A driver works with the lines it maps itself and with *)
(* the numbers it got from irq_domain_alloc_irqs, never with a number that *)
(* only serves as some child's parent.                                     *)

Fail == {"none", "desc", "insert", "ops"}

\* The call took the mappings to s.
Becomes(s) ==
  /\ Running
  /\ st' = s
  /\ UNCHANGED <<irq_domain_list, irq_default_domain>>

Own(v) ==
  /\ Mapped(st, v)
  /\ \/ <<st.desc[v].domain, st.desc[v].hwirq>> \in Lines
     \/ st.desc[v].hwirq = IRQ_INVALID

\* A NULL domain stands for the default one.
CreateMapping ==
  \E d \in Registered \cup {NULL}, h \in HwIrq, fail, pfail \in Fail :
    LET domain == IF d = NULL THEN irq_default_domain ELSE d IN
    /\ <<domain, h>> \in Lines
    /\ type[domain] # "HIERARCHY" => pfail = "none"
    /\ Becomes(irq_create_mapping(st, domain, h, fail, pfail))

DisposeMapping == \E v \in Virq : Own(v) /\ Becomes(irq_dispose_mapping(st, v))

AllocIrqs ==
  \E d \in Registered, n \in 1 .. MaxRange, fail \in Fail \ {"insert"} :
    Becomes(irq_domain_alloc_irqs(st, d, n, fail))

FreeIrqs ==
  \E v \in Virq, n \in 1 .. MaxRange :
    /\ \A u \in v .. v + n - 1 : u \in Virq /\ Own(u) /\ st.desc[u].hwirq = IRQ_INVALID
    /\ Becomes(irq_domain_free_irqs(st, v, n))

AllocHwIrqRange ==
  \E d \in Registered, n \in 1 .. MaxRange, fail \in {"none", "insert"} :
    Becomes(irq_domain_alloc_hwirq_range(st, d, n, fail))

FreeHwIrqRange ==
  \E d \in Registered, h \in HwIrq, n \in 1 .. MaxRange :
    Becomes(irq_domain_free_hwirq_range(st, d, h, n))

\* The first handler of a line; IrqDesc.tla has what else request_irq does.
request_irq(v) ==
  /\ Own(v) /\ st.desc[v].handler = NoHandler
  /\ Becomes([st EXCEPT !.desc[v].handler = <<st.desc[v].domain, st.desc[v].hwirq>>])

\* The last handler is removed, be the line still mapped or not.
free_irq(v) ==
  /\ v \in DOMAIN st.desc /\ st.desc[v].handler # NoHandler
  /\ Becomes([st EXCEPT !.desc[v].handler = NoHandler])

Next ==
  \/ \E d \in Domain :
       irq_domain_create(d) \/ irq_set_default_domain(d) \/ irq_domain_remove(d)
  \/ CreateMapping \/ DisposeMapping
  \/ AllocIrqs \/ FreeIrqs \/ AllocHwIrqRange \/ FreeHwIrqRange
  \/ \E v \in Virq : request_irq(v) \/ free_irq(v)

Spec == Init /\ [][Next]_vars

-----------------------------------------------------------------------------
(* Properties. *)

\* The descriptor v of a hierarchical domain is linked to the live descriptor
\* of the parent's number that child_to_parent_hwirq gives.
ParentLinked(v) ==
  LET c == st.desc[v] IN
  Mapped(st, v) /\ type[c.domain] = "HIERARCHY" /\ c.hwirq # IRQ_INVALID =>
    /\ c.parent_desc \in DOMAIN st.desc
    /\ st.desc[c.parent_desc].domain = parent[c.domain]
    /\ st.desc[c.parent_desc].hwirq = child_to_parent_hwirq[c.domain][c.hwirq]

\* The domains' tables and the descriptors are inverse to each other: an
\* entry for a hardware number leads to the one descriptor that says it
\* stands for that number, and a descriptor that says so is the entry's; in
\* a linear domain the reverse map agrees; and the links from children to
\* parents, which irq_domain_activate_irq and irq_dispose_mapping follow, go
\* where they should.  It holds after every call, also one that failed half
\* way at either level (irq_create_mapping, irq_dispose_mapping).
MappingsAgree ==
  Running =>
    /\ \A v \in DOMAIN st.desc : ParentLinked(v)
    /\ \A d \in Domain, h \in HwIrq :
         /\ \A v \in Virq :
              st.map[d][h] = v <=>
                Mapped(st, v) /\ st.desc[v].domain = d /\ st.desc[v].hwirq = h
         /\ st.map[d][h] # DANGLING
         /\ type[d] # "TREE" =>
              st.revmap[d][h] = IF st.map[d][h] = NULL THEN IRQ_INVALID ELSE st.map[d][h]

\* No virtual number leaks and none is given out while it is in use: a
\* number's bit is set exactly while its descriptor belongs to a domain,
\* on every error path of irq_create_mapping, irq_domain_alloc_irqs and
\* msi_alloc_vectors.
NoVirqLost == Running => st.virqs = {v \in Virq : Mapped(st, v)}

\* irq_domain_remove cleans up all mappings and moves the default domain on:
\* nothing refers to a domain that is gone, whatever order domains are
\* created and removed in.
NothingOutlivesDomain ==
  /\ \A v \in Virq : Mapped(st, v) => st.desc[v].domain \in Registered
  /\ irq_default_domain \in Registered \cup {NULL}
  /\ irq_default_domain = NULL => irq_domain_list = <<>>
=============================================================================
