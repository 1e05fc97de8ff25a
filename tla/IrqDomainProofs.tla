-------------------------- MODULE IrqDomainProofs --------------------------
(***************************************************************************)
(* The tables of the interrupt domains and the descriptors agree for every *)
(* number of domains, lines and virtual numbers (kernel/irq/irq_domain.c). *)
(***************************************************************************)
EXTENDS IrqDomainCalls, ListLemmas

-----------------------------------------------------------------------------
(* Loops that dispose of one mapping after the other. *)

LEMMA FreeIrqsFine ==
  ASSUME Exclusive, NEW base \in Virq, NEW n \in Nat, NEW R, base .. base + n - 1 \subseteq Virq,
         NEW s0, FreeLoop(s0, 0, base, n, R)
  PROVE  Fine(irq_domain_free_irqs(s0, base, n), NULL, NULL, NULL, R)
<1>1. PICK I : I = [i \in 0 .. n |-> {s \in States : FreeLoop(s, i, base, n, R)}]
  BY Zenon
<1>2. PICK step : step = [p \in States \X (1 .. n) |-> irq_dispose_mapping(p[1], base + p[2] - 1)]
  BY Zenon
<1>3. \A i \in 1 .. n : \A s \in I[i - 1] :
        /\ step[<<s, i>>] = irq_dispose_mapping(s, base + i - 1)
        /\ step[<<s, i>>] \in I[i]
  <2> SUFFICES ASSUME NEW i \in 1 .. n, NEW s \in I[i - 1]
               PROVE  /\ step[<<s, i>>] = irq_dispose_mapping(s, base + i - 1)
                      /\ step[<<s, i>>] \in I[i]
    OBVIOUS
  <2>1. s \in States /\ FreeLoop(s, i - 1, base, n, R)
    BY <1>1
  <2>2. PICK t : t = irq_dispose_mapping(s, base + i - 1)
    BY Zenon
  <2>3. FreeLoop(t, i, base, n, R)
    BY <2>1, <2>2, FreeLoopStep
  <2>4. t \in I[i]
    BY <1>1, <2>3 DEF FreeLoop, Good
  <2>5. step[<<s, i>>] = t
    BY <1>2, <2>1, <2>2
  <2> QED BY <2>2, <2>4, <2>5
<1>4. s0 \in I[0]
  BY <1>1 DEF FreeLoop, Good
<1>5. \E f : f = [i \in 0 .. n |-> IF i = 0 THEN s0 ELSE irq_dispose_mapping(f[i - 1], base + i - 1)]
  <2>0. \A i \in 1 .. n : \A s \in I[i - 1] : step[<<s, i>>] \in I[i]
    BY <1>3
  <2>1. PICK f : Rounds(f, n, I, s0, step)
    BY <1>4, <2>0, LoopStates
  <2>2. ASSUME NEW i \in 1 .. n
        PROVE  f[i] = irq_dispose_mapping(f[i - 1], base + i - 1)
    <3>1. f[i - 1] \in I[i - 1]
      BY <2>1 DEF Rounds
    <3>2. f[i] = step[<<f[i - 1], i>>]
      BY <2>1 DEF Rounds
    <3> QED BY <1>3, <3>1, <3>2
  <2>3. f[0] = s0 /\ f = [i \in 0 .. n |-> f[i]]
    BY <2>1 DEF Rounds
  <2>4. ASSUME NEW i \in 0 .. n
        PROVE  f[i] = IF i = 0 THEN s0 ELSE irq_dispose_mapping(f[i - 1], base + i - 1)
    <3>1. CASE i = 0
      BY <2>3, <3>1
    <3>2. CASE i # 0
      <4>1. i \in 1 .. n
        BY <3>2
      <4>2. f[i] = irq_dispose_mapping(f[i - 1], base + i - 1)
        BY <2>2, <4>1
      <4> QED BY <3>2, <4>2
    <3> QED BY <3>1, <3>2
  <2> QED BY <2>3, <2>4
<1>6. PICK g : /\ g = [i \in 0 .. n |-> IF i = 0 THEN s0
                                        ELSE irq_dispose_mapping(g[i - 1], base + i - 1)]
               /\ irq_domain_free_irqs(s0, base, n) = g[n]
  BY <1>5 DEF irq_domain_free_irqs
<1>7. g[0] = s0 /\ \A i \in 1 .. n : g[i] = irq_dispose_mapping(g[i - 1], base + i - 1)
  BY <1>6
<1>8. \A i \in 1 .. n : g[i - 1] \in I[i - 1] => g[i] = step[<<g[i - 1], i>>]
  BY <1>3, <1>7
<1>9. g[n] \in I[n]
  BY <1>3, <1>4, <1>7, <1>8, LoopInvariant
<1>10. FreeLoop(g[n], n, base, n, R)
  BY <1>1, <1>9
<1> QED BY <1>6, <1>10 DEF FreeLoop, Fine, Good

LEMMA DisposeLinearDone ==
  ASSUME Exclusive, NEW R, NEW d \in Domain, type[d] # "TREE", Childless(d, R),
         NEW s0, RemoveLoop(s0, 0, d, R)
  PROVE  RemoveLoop(DisposeLinear(s0, d), MaxHwIrq + 1, d, R)
<1>0. PICK n \in Nat : n = MaxHwIrq + 1
  BY IrqDomainAssumption
<1>1. PICK I : I = [i \in 0 .. n |-> {s \in States : RemoveLoop(s, i, d, R)}]
  BY Zenon
<1>2. PICK step : step = [p \in States \X (1 .. n) |-> DisposeEntry(p[1], d, p[2] - 1)]
  BY Zenon
<1>3. \A i \in 1 .. n : \A s \in I[i - 1] :
        step[<<s, i>>] = DisposeEntry(s, d, i - 1) /\ step[<<s, i>>] \in I[i]
  <2> SUFFICES ASSUME NEW i \in 1 .. n, NEW s \in I[i - 1]
               PROVE  step[<<s, i>>] = DisposeEntry(s, d, i - 1) /\ step[<<s, i>>] \in I[i]
    OBVIOUS
  <2>1. s \in States /\ RemoveLoop(s, i - 1, d, R)
    BY <1>1
  <2>2. PICK t : t = DisposeEntry(s, d, i - 1)
    BY Zenon
  <2>3. RemoveLoop(t, i, d, R)
    BY <1>0, <2>1, <2>2, RemoveLoopStep
  <2>4. t \in I[i]
    BY <1>1, <2>3 DEF RemoveLoop, Good
  <2>5. step[<<s, i>>] = t
    BY <1>2, <2>1, <2>2
  <2> QED BY <2>2, <2>4, <2>5
<1>4. s0 \in I[0]
  BY <1>1 DEF RemoveLoop, Good
<1>5. \E f : f = [i \in 0 .. n |-> IF i = 0 THEN s0 ELSE DisposeEntry(f[i - 1], d, i - 1)]
  <2>0. \A i \in 1 .. n : \A s \in I[i - 1] : step[<<s, i>>] \in I[i]
    BY <1>3
  <2>1. PICK f : Rounds(f, n, I, s0, step)
    BY <1>4, <2>0, LoopStates
  <2>2. ASSUME NEW i \in 1 .. n
        PROVE  f[i] = DisposeEntry(f[i - 1], d, i - 1)
    <3>1. f[i - 1] \in I[i - 1]
      BY <2>1 DEF Rounds
    <3>2. f[i] = step[<<f[i - 1], i>>]
      BY <2>1 DEF Rounds
    <3> QED BY <1>3, <3>1, <3>2
  <2>3. f[0] = s0 /\ f = [i \in 0 .. n |-> f[i]]
    BY <2>1 DEF Rounds
  <2>4. ASSUME NEW i \in 0 .. n
        PROVE  f[i] = IF i = 0 THEN s0 ELSE DisposeEntry(f[i - 1], d, i - 1)
    <3>1. CASE i = 0
      BY <2>3, <3>1
    <3>2. CASE i # 0
      <4>1. i \in 1 .. n
        BY <3>2
      <4>2. f[i] = DisposeEntry(f[i - 1], d, i - 1)
        BY <2>2, <4>1
      <4> QED BY <3>2, <4>2
    <3> QED BY <3>1, <3>2
  <2> QED BY <2>3, <2>4
<1>6. PICK g : /\ g = [i \in 0 .. n |-> IF i = 0 THEN s0 ELSE DisposeEntry(g[i - 1], d, i - 1)]
               /\ DisposeLinear(s0, d) = g[n]
  BY <1>0, <1>5 DEF DisposeLinear
<1>7. g[0] = s0 /\ \A i \in 1 .. n : g[i] = DisposeEntry(g[i - 1], d, i - 1)
  BY <1>6
<1>8. \A i \in 1 .. n : g[i - 1] \in I[i - 1] => g[i] = step[<<g[i - 1], i>>]
  BY <1>3, <1>7
<1>9. g[n] \in I[n]
  BY <1>3, <1>4, <1>7, <1>8, LoopInvariant
<1>10. RemoveLoop(g[n], n, d, R)
  BY <1>1, <1>9
<1> QED BY <1>0, <1>6, <1>10

-----------------------------------------------------------------------------
(* The theorem. *)

\* The domains that go are linear or hierarchical ones.
NoTreeRemoved == \A d \in Removable : type[d] # "TREE"

IInv ==
  /\ Distinct(irq_domain_list, Domain)
  /\ \A c \in Registered : type[c] = "HIERARCHY" => parent[c] \in Registered
  /\ irq_default_domain \in Registered \cup {NULL}
  /\ irq_default_domain = NULL => irq_domain_list = <<>>
  /\ Within(st, Registered)
  /\ Running => Good(st, NULL, NULL, NULL, {})

LEMMA LeastMember == WellOrdered
<1> SUFFICES ASSUME NEW T \in SUBSET Nat, T # {} PROVE Min(T) \in T
  BY DEF WellOrdered
<1>1. \E x \in T : \A y \in T : x <= y
  BY LeastNat
<1> QED BY <1>1 DEF Min

LEMMA RegisteredDomains ==
  ASSUME NEW list, Distinct(list, Domain)
  PROVE  Range(list) \subseteq Domain
  BY DEF Distinct, Range

LEMMA InitIInv == Init => IInv
<1> SUFFICES ASSUME Init PROVE IInv
  OBVIOUS
<1>1. irq_domain_list = <<>> /\ irq_default_domain = NULL
  BY DEF Init
<1>2. Distinct(irq_domain_list, Domain) /\ Registered = {}
  BY <1>1 DEF Distinct, Range, IsInjective, Registered
<1>3. PICK D, x, m, r, k : /\ D = {} /\ x = [v \in D |-> NewDesc]
                           /\ m = [d \in Domain |-> Empty.map]
                           /\ r = [d \in Domain |-> Empty.revmap]
                           /\ k = [d \in Domain |-> 0]
  OBVIOUS
<1>4. st = [virqs |-> {}, desc |-> x, map |-> m, revmap |-> r, max_key |-> k,
            panicked |-> FALSE, wild |-> FALSE]
  BY <1>3 DEF Init
<1>5. /\ D \in SUBSET Virq /\ x \in [D -> Desc] /\ DOMAIN x = {}
      /\ m \in [Domain -> [HwIrq -> Slot]]
      /\ r \in [Domain -> [HwIrq -> Virq \cup {IRQ_INVALID}]]
      /\ k \in [Domain -> Int] /\ {} \in SUBSET Virq
      /\ \A d \in Domain, h \in HwIrq : m[d][h] = NULL /\ r[d][h] = IRQ_INVALID
  BY <1>3 DEF Empty, Slot
<1>6. /\ st \in States /\ st.virqs = {} /\ st.desc = x /\ st.map = m /\ st.revmap = r
      /\ ~st.panicked /\ ~st.wild
  BY <1>4, <1>5, NewState
<1>7. DOMAIN st.desc = {} /\ \A v : ~Mapped(st, v)
  BY <1>5, <1>6 DEF Mapped
<1>8. Good(st, NULL, NULL, NULL, {})
  <2>1. Numbers(st, NULL)
    BY <1>6, <1>7, Constants DEF Numbers
  <2>2. Entries(st, NULL, NULL, NULL)
    BY <1>5, <1>6, <1>7, Constants DEF Entries
  <2>3. Tables(st)
    BY <1>5, <1>6, Constants DEF Tables
  <2>4. Links(st, {})
    BY <1>7 DEF Links
  <2> QED BY <1>6, <2>1, <2>2, <2>3, <2>4 DEF Good
<1>9. Within(st, Registered)
  BY <1>7 DEF Within
<1> QED BY <1>1, <1>2, <1>8, <1>9 DEF IInv

\* A call that changes mappings only.
LEMMA StateGood ==
  ASSUME NEW s, ~s.panicked /\ ~s.wild => Good(s, NULL, NULL, NULL, {}), st' = s
  PROVE  (Running => Good(st, NULL, NULL, NULL, {}))'
  BY DEF Running, Good, Numbers, Entries, Tables, Links

LEMMA BecomesFine ==
  ASSUME IInv, NEW s, Becomes(s), Fine(s, NULL, NULL, NULL, Registered)
  PROVE  IInv'
<1>1. irq_domain_list' = irq_domain_list /\ irq_default_domain' = irq_default_domain /\ st' = s
  BY DEF Becomes
<1>2. Registered' = Registered
  BY <1>1 DEF Registered
<1>3. /\ Distinct(irq_domain_list, Domain)'
      /\ (\A c \in Registered : type[c] = "HIERARCHY" => parent[c] \in Registered)'
      /\ (irq_default_domain \in Registered \cup {NULL})'
      /\ (irq_default_domain = NULL => irq_domain_list = <<>>)'
  BY <1>1, <1>2 DEF IInv
<1>4. Within(st, Registered)'
  BY <1>1, <1>2 DEF Fine, Within
<1>5. (Running => Good(st, NULL, NULL, NULL, {}))'
  <2>1. ~s.panicked => Good(s, NULL, NULL, NULL, {})
    BY DEF Fine
  <2> QED BY <1>1, <2>1, StateGood
<1> QED BY <1>3, <1>4, <1>5 DEF IInv

\* A registered or the default domain.
LEMMA CreateMappingIInv ==
  ASSUME Exclusive, IInv, CreateMapping
  PROVE  IInv'
<1>1. PICK d0 \in Registered \cup {NULL}, h \in HwIrq, fail \in Fail, pfail \in Fail :
        LET domain == IF d0 = NULL THEN irq_default_domain ELSE d0 IN
        /\ <<domain, h>> \in Lines
        /\ Becomes(irq_create_mapping(st, domain, h, fail, pfail))
  BY DEF CreateMapping
<1>2. PICK d : d = IF d0 = NULL THEN irq_default_domain ELSE d0
  BY Zenon
<1>3. <<d, h>> \in Lines /\ Becomes(irq_create_mapping(st, d, h, fail, pfail))
  BY <1>1, <1>2
<1>4. d \in Domain
  BY <1>3, IrqDomainAssumption
<1>5. d \in Registered
  BY <1>2, <1>4, Constants DEF IInv
<1>6. Good(st, NULL, NULL, NULL, {}) /\ Within(st, Registered)
  BY <1>3 DEF IInv, Becomes
<1>7. CASE type[d] = "HIERARCHY"
  <2>1. parent[d] \in Registered
    BY <1>5, <1>7 DEF IInv
  <2>2. PICK s : s = CreateInChild(st, d, h, fail, pfail)
    BY Zenon
  <2>3. Fine(s, NULL, NULL, NULL, Registered)
    BY <1>3, <1>4, <1>5, <1>6, <1>7, <2>1, <2>2, LeastMember, CreateInChildFine
  <2>4. Becomes(s)
    BY <1>3, <1>7, <2>2 DEF irq_create_mapping
  <2> QED BY <2>3, <2>4, BecomesFine
<1>8. CASE type[d] # "HIERARCHY"
  <2>1. PICK s : s = CreateInRoot(st, d, h, fail)
    BY Zenon
  <2>2. Fine(s, NULL, NULL, NULL, Registered)
    BY <1>4, <1>5, <1>6, <1>8, <2>1, LeastMember, CreateInRootFine
  <2>3. Becomes(s)
    BY <1>3, <1>8, <2>1 DEF irq_create_mapping
  <2> QED BY <2>2, <2>3, BecomesFine
<1> QED BY <1>7, <1>8

\* A driver's own number is no child's parent.
LEMMA OwnNoChild ==
  ASSUME Exclusive, Good(st, NULL, NULL, NULL, {}), NEW v \in Virq, Own(v)
  PROVE  NoChild(st, v)
<1> SUFFICES ASSUME NEW u \in DOMAIN st.desc, st.desc[u].parent_desc = v
             PROVE  FALSE
  BY DEF NoChild
<1>1. v # NULL
  BY Constants
<1>2. ChildAt(st, u, st.desc[u].domain, st.desc[u].hwirq, st.desc[u].parent_desc)
  BY <1>1, ParentOf
<1>3. PICK d, h : d = st.desc[u].domain /\ h = st.desc[u].hwirq
  BY Zenon
<1>4. /\ d \in Domain /\ h \in HwIrq /\ type[d] = "HIERARCHY" /\ h < size[d]
      /\ <<d, h>> \in Lines
      /\ st.desc[v].domain = parent[d] /\ st.desc[v].hwirq = child_to_parent_hwirq[d][h]
  BY <1>2, <1>3 DEF ChildAt
<1>5. child_to_parent_hwirq[d][h] \in HwIrq
  BY <1>4, IrqDomainAssumption
<1>6. <<st.desc[v].domain, st.desc[v].hwirq>> \in Lines
  BY <1>4, <1>5, Constants DEF Own
<1> QED BY <1>4, <1>6 DEF Exclusive

LEMMA RemoveIInv ==
  ASSUME Exclusive, NoTreeRemoved, IInv, NEW d \in Domain, irq_domain_remove(d)
  PROVE  IInv'
<1>1. /\ Good(st, NULL, NULL, NULL, {}) /\ Within(st, Registered)
      /\ Distinct(irq_domain_list, Domain) /\ d \in Registered /\ type[d] # "TREE"
  BY DEF irq_domain_remove, IInv, NoTreeRemoved
<1>2. Childless(d, Registered)
  BY DEF irq_domain_remove, Childless
<1>3. RemoveLoop(st, 0, d, Registered)
  BY <1>1, Constants DEF irq_domain_remove, RemoveLoop
<1>4. PICK s : s = DisposeLinear(st, d)
  BY Zenon
<1>5. RemoveLoop(s, MaxHwIrq + 1, d, Registered)
  BY <1>1, <1>2, <1>3, <1>4, DisposeLinearDone
<1>6. PICK R : R = Registered
  BY Zenon
<1>7. PICK t : t = Erased(s, d)
  BY Zenon
<1>8. Good(t, NULL, NULL, NULL, {}) /\ Within(t, R \ {d})
  BY <1>1, <1>5, <1>6, <1>7, RemovedGood
<1>9. st' = t
  BY <1>1, <1>4, <1>7 DEF irq_domain_remove, Erased
<1>10. PICK k \in DOMAIN irq_domain_list :
         /\ irq_domain_list[k] = d
         /\ irq_domain_list' = Spliced(irq_domain_list, k)
         /\ irq_default_domain' = DefaultWithout(d, Spliced(irq_domain_list, k))
  BY DEF irq_domain_remove
<1>11. PICK list, rest : list = irq_domain_list /\ rest = Spliced(list, k)
  BY Zenon
<1>12. Distinct(rest, Domain) /\ Range(rest) = Range(list) \ {d}
  BY <1>1, <1>10, <1>11, RemoveLink DEF Spliced
<1>13. irq_domain_list' = rest /\ Registered' = R \ {d} /\ irq_default_domain' = DefaultWithout(d, rest)
  BY <1>6, <1>10, <1>11, <1>12 DEF Registered
<1>14. Distinct(irq_domain_list, Domain)'
  BY <1>12, <1>13
<1>15. (\A c \in Registered : type[c] = "HIERARCHY" => parent[c] \in Registered)'
  <2>1. R \subseteq Domain
    BY <1>1, <1>6, RegisteredDomains DEF Registered
  <2> QED BY <1>2, <1>6, <1>13, <2>1 DEF IInv, Childless
<1>16. /\ irq_default_domain' \in Registered' \cup {NULL}
       /\ irq_default_domain' = NULL => irq_domain_list' = <<>>
  <2>1. CASE irq_default_domain # d
    <3>1. irq_default_domain' = irq_default_domain
      BY <1>13, <2>1 DEF DefaultWithout
    <3>2. irq_default_domain # NULL
      <4>1. irq_domain_list # <<>>
        BY <1>10
      <4> QED BY <4>1 DEF IInv
    <3> QED BY <1>6, <1>13, <2>1, <3>1, <3>2 DEF IInv
  <2>2. CASE irq_default_domain = d /\ rest = <<>>
    BY <1>13, <2>2 DEF DefaultWithout
  <2>3. CASE irq_default_domain = d /\ rest # <<>>
    <3>1. irq_default_domain' = Head(rest)
      BY <1>13, <2>3 DEF DefaultWithout
    <3>2. Head(rest) \in Domain /\ Head(rest) \in Range(rest)
      BY <1>12, <2>3, RemoveHead
    <3>3. Range(rest) = Registered'
      BY <1>6, <1>11, <1>12, <1>13 DEF Registered
    <3> QED BY <3>1, <3>2, <3>3, Constants
  <2> QED BY <2>1, <2>2, <2>3
<1>17. Within(st, Registered)'
  BY <1>8, <1>9, <1>13 DEF Within
<1>18. (Running => Good(st, NULL, NULL, NULL, {}))'
  BY <1>8, <1>9, StateGood
<1> QED BY <1>14, <1>15, <1>16, <1>17, <1>18 DEF IInv

LEMMA NextIInv ==
  ASSUME Exclusive, NoTreeRemoved, IInv, [Next]_vars
  PROVE  IInv'
<1>0. Running => Good(st, NULL, NULL, NULL, {}) /\ Within(st, Registered)
  BY DEF IInv
<1>s. ASSUME st' = st
      PROVE  (Running => Good(st, NULL, NULL, NULL, {}))'
  <2>1. PICK s : s = st
    BY Zenon
  <2>2. (~s.panicked /\ ~s.wild => Good(s, NULL, NULL, NULL, {})) /\ st' = s
    BY <1>0, <1>s, <2>1 DEF Running
  <2> QED BY <2>2, StateGood
<1>1. ASSUME NEW d \in Domain, irq_domain_create(d)
      PROVE  IInv'
  <2>1. /\ Distinct(irq_domain_list, Domain) /\ d \notin Registered
        /\ irq_domain_list' = <<d>> \o irq_domain_list /\ st' = st
        /\ irq_default_domain' = IF irq_default_domain = NULL THEN d ELSE irq_default_domain
    BY <1>1 DEF irq_domain_create, IInv
  <2>2. PICK list : list = irq_domain_list
    BY Zenon
  <2>3. Distinct(<<d>> \o list, Domain) /\ Range(<<d>> \o list) = Range(list) \cup {d}
    BY <2>1, <2>2, InsertHead DEF Registered
  <2>4. Distinct(irq_domain_list, Domain)' /\ Registered' = Registered \cup {d}
    BY <2>1, <2>2, <2>3 DEF Registered
  <2>5. (\A c \in Registered : type[c] = "HIERARCHY" => parent[c] \in Registered)'
    BY <1>1, <2>4 DEF irq_domain_create, IInv
  <2>6. irq_default_domain' \in Registered' \cup {NULL} /\ irq_default_domain' # NULL
    BY <2>1, <2>4, Constants DEF IInv
  <2>7. Within(st, Registered)'
    BY <2>1, <2>4 DEF IInv, Within
  <2>8. (Running => Good(st, NULL, NULL, NULL, {}))'
    BY <1>s, <2>1
  <2> QED BY <2>4, <2>5, <2>6, <2>7, <2>8 DEF IInv
<1>2. ASSUME NEW d \in Domain, irq_set_default_domain(d)
      PROVE  IInv'
  <2>1. /\ d \in Registered /\ irq_domain_list' = irq_domain_list /\ st' = st
        /\ irq_default_domain' = d /\ Registered' = Registered
    BY <1>2 DEF irq_set_default_domain, Registered
  <2>2. (Running => Good(st, NULL, NULL, NULL, {}))'
    BY <1>s, <2>1
  <2> QED BY <2>1, <2>2, Constants DEF IInv, Within
<1>3. ASSUME NEW d \in Domain, irq_domain_remove(d)
      PROVE  IInv'
  BY <1>3, RemoveIInv
<1>4. CASE CreateMapping
  BY <1>4, CreateMappingIInv
<1>5. CASE DisposeMapping
  <2>1. PICK v \in Virq : Own(v) /\ Becomes(irq_dispose_mapping(st, v))
    BY <1>5 DEF DisposeMapping
  <2>2. Good(st, NULL, NULL, NULL, {}) /\ Within(st, Registered)
    BY <1>0, <2>1 DEF Becomes
  <2>3. NoChild(st, v) /\ Mapped(st, v)
    BY <2>1, <2>2, OwnNoChild DEF Own
  <2>4. PICK s : s = irq_dispose_mapping(st, v)
    BY Zenon
  <2>5. Fine(s, NULL, NULL, NULL, Registered)
    BY <2>2, <2>3, <2>4, DisposeFine
  <2> QED BY <2>1, <2>4, <2>5, BecomesFine
<1>6. CASE AllocIrqs
  <2>1. PICK d \in Registered, n \in 1 .. MaxRange, fail \in Fail :
          Becomes(irq_domain_alloc_irqs(st, d, n, fail))
    BY <1>6 DEF AllocIrqs
  <2>2. /\ Good(st, NULL, NULL, NULL, {}) /\ Within(st, Registered)
        /\ d \in Domain /\ n \in Nat /\ n > 0
    BY <1>0, <2>1, RegisteredDomains, IrqDomainAssumption DEF Becomes, IInv, Registered
  <2>3. PICK s : s = irq_domain_alloc_irqs(st, d, n, fail)
    BY Zenon
  <2>4. Fine(s, NULL, NULL, NULL, Registered)
    BY <2>1, <2>2, <2>3, LeastMember, AllocIrqsFine
  <2> QED BY <2>1, <2>3, <2>4, BecomesFine
<1>7. CASE FreeIrqs
  <2>1. PICK v \in Virq, n \in 1 .. MaxRange :
          /\ \A u \in v .. v + n - 1 : u \in Virq /\ Own(u) /\ st.desc[u].hwirq = IRQ_INVALID
          /\ Becomes(irq_domain_free_irqs(st, v, n))
    BY <1>7 DEF FreeIrqs
  <2>2. /\ Good(st, NULL, NULL, NULL, {}) /\ Within(st, Registered)
        /\ n \in Nat /\ v + 0 = v /\ v .. v + n - 1 \subseteq Virq
    BY <1>0, <2>1, IrqDomainAssumption, Constants DEF Becomes
  <2>3. FreeLoop(st, 0, v, n, Registered)
    BY <2>1, <2>2 DEF FreeLoop, Own
  <2>4. PICK s : s = irq_domain_free_irqs(st, v, n)
    BY Zenon
  <2>5. Fine(s, NULL, NULL, NULL, Registered)
    BY <2>2, <2>3, <2>4, FreeIrqsFine
  <2> QED BY <2>1, <2>4, <2>5, BecomesFine
<1>8. CASE AllocHwIrqRange
  <2>1. PICK d \in Registered, n \in 1 .. MaxRange, fail \in {"none", "insert"} :
          Becomes(irq_domain_alloc_hwirq_range(st, d, n, fail))
    BY <1>8 DEF AllocHwIrqRange
  <2>2. /\ Good(st, NULL, NULL, NULL, {}) /\ Within(st, Registered)
        /\ d \in Domain /\ n \in Nat /\ n > 0
    BY <1>0, <2>1, RegisteredDomains, IrqDomainAssumption DEF Becomes, IInv, Registered
  <2>3. PICK s : s = irq_domain_alloc_hwirq_range(st, d, n, fail)
    BY Zenon
  <2>4. Fine(s, NULL, NULL, NULL, Registered)
    BY <2>2, <2>3, LeastMember, AllocHwRangeFine
  <2> QED BY <2>1, <2>3, <2>4, BecomesFine
<1>9. CASE FreeHwIrqRange
  <2>1. PICK d \in Registered, h \in HwIrq, n \in 1 .. MaxRange :
          Becomes(irq_domain_free_hwirq_range(st, d, h, n))
    BY <1>9 DEF FreeHwIrqRange
  <2>2. Good(st, NULL, NULL, NULL, {}) /\ Within(st, Registered) /\ d \in Domain
    BY <1>0, <2>1, RegisteredDomains DEF Becomes, IInv, Registered
  <2>3. PICK s : s = irq_domain_free_hwirq_range(st, d, h, n)
    BY Zenon
  <2>4. Fine(s, NULL, NULL, NULL, Registered)
    BY <2>2, <2>3, FreeHwRangeFine
  <2> QED BY <2>1, <2>3, <2>4, BecomesFine
<1>10. ASSUME NEW v \in Virq, request_irq(v)
       PROVE  IInv'
  <2>1. PICK a : a = <<st.desc[v].domain, st.desc[v].hwirq>>
    BY Zenon
  <2>2. PICK s : s = [st EXCEPT !.desc[v].handler = a]
    BY Zenon
  <2>3. Becomes(s) /\ v \in DOMAIN st.desc
    BY <1>10, <2>1, <2>2 DEF request_irq, Own, Mapped
  <2>4. Good(st, NULL, NULL, NULL, {}) /\ Within(st, Registered) /\ st \in States
    BY <1>0, <2>3 DEF Becomes, Good
  <2>5. a \in Int \X Int
    <3>1. /\ st.desc[v].domain \in Domain \cup {NULL}
          /\ st.desc[v].hwirq \in HwIrq \cup {IRQ_INVALID}
      BY <2>3, <2>4, DescFields
    <3>2. NULL \in Int /\ IRQ_INVALID \in Int
      BY DEF NULL, IRQ_INVALID
    <3>3. Domain \subseteq Int /\ HwIrq \subseteq Int
      BY Constants
    <3>4. st.desc[v].domain \in Int /\ st.desc[v].hwirq \in Int
      BY <3>1, <3>2, <3>3
    <3> QED BY <2>1, <3>4
  <2>6. Fine(s, NULL, NULL, NULL, Registered)
    BY <2>2, <2>3, <2>4, <2>5, HandlerGood
  <2> QED BY <2>3, <2>6, BecomesFine
<1>11. ASSUME NEW v \in Virq, free_irq(v)
       PROVE  IInv'
  <2>1. PICK s : s = [st EXCEPT !.desc[v].handler = NoHandler]
    BY Zenon
  <2>2. Becomes(s) /\ v \in DOMAIN st.desc
    BY <1>11, <2>1 DEF free_irq
  <2>3. Good(st, NULL, NULL, NULL, {}) /\ Within(st, Registered)
    BY <1>0, <2>2 DEF Becomes
  <2>4. Fine(s, NULL, NULL, NULL, Registered)
    BY <2>1, <2>2, <2>3, HandlerGood, Constants
  <2> QED BY <2>2, <2>4, BecomesFine
<1>12. CASE UNCHANGED vars
  <2>1. st' = st /\ irq_domain_list' = irq_domain_list /\ irq_default_domain' = irq_default_domain
        /\ Registered' = Registered
    BY <1>12 DEF vars, Registered
  <2>2. (Running => Good(st, NULL, NULL, NULL, {}))'
    BY <1>s, <2>1
  <2> QED BY <2>1, <2>2 DEF IInv, Within
<1> QED
  BY <1>1, <1>2, <1>3, <1>4, <1>5, <1>6, <1>7, <1>8, <1>9, <1>10, <1>11, <1>12 DEF Next

LEMMA IInvProperties ==
  IInv => MappingsAgree /\ NoVirqLost /\ NothingOutlivesDomain
<1> SUFFICES ASSUME IInv PROVE MappingsAgree /\ NoVirqLost /\ NothingOutlivesDomain
  OBVIOUS
<1>1. MappingsAgree
  <2> SUFFICES ASSUME Running
               PROVE  /\ \A v \in DOMAIN st.desc : ParentLinked(v)
                      /\ \A d \in Domain, h \in HwIrq :
                           /\ \A v \in Virq :
                                st.map[d][h] = v <=>
                                  Mapped(st, v) /\ st.desc[v].domain = d /\ st.desc[v].hwirq = h
                           /\ st.map[d][h] # DANGLING
                           /\ type[d] # "TREE" =>
                                st.revmap[d][h] = IF st.map[d][h] = NULL THEN IRQ_INVALID
                                                  ELSE st.map[d][h]
    BY DEF MappingsAgree
  <2>1. Good(st, NULL, NULL, NULL, {})
    BY DEF IInv
  <2>2. \A v \in DOMAIN st.desc : ParentLinked(v)
    BY <2>1 DEF Good, Links, Cascaded, Linked, ParentLinked
  <2>3. \A d \in Domain, h \in HwIrq, v \in Virq :
          st.map[d][h] = v <=> Mapped(st, v) /\ st.desc[v].domain = d /\ st.desc[v].hwirq = h
    BY <2>1, Constants DEF Good, Entries
  <2>4. \A d \in Domain, h \in HwIrq :
          /\ st.map[d][h] # DANGLING
          /\ type[d] # "TREE" =>
               st.revmap[d][h] = IF st.map[d][h] = NULL THEN IRQ_INVALID ELSE st.map[d][h]
    BY <2>1 DEF Good, Tables
  <2> QED BY <2>2, <2>3, <2>4
<1>2. NoVirqLost
  <2> SUFFICES ASSUME Running PROVE st.virqs = {v \in Virq : Mapped(st, v)}
    BY DEF NoVirqLost
  <2>1. st \in States /\ Numbers(st, NULL)
    BY DEF IInv, Good
  <2> QED BY <2>1, Fields, Constants DEF Numbers
<1>3. NothingOutlivesDomain
  BY DEF IInv, Within, Mapped, NothingOutlivesDomain
<1> QED BY <1>1, <1>2, <1>3

\* The invariant holds after every call of irq_create_mapping,
\* irq_dispose_mapping, irq_domain_alloc_irqs, irq_domain_free_irqs, the
\* hardware range calls and irq_domain_remove, failed half way or not.
LEMMA AlwaysIInv == Exclusive /\ NoTreeRemoved => (Spec => []IInv)
<1> SUFFICES ASSUME Exclusive, NoTreeRemoved PROVE Spec => []IInv
  OBVIOUS
<1>1. Init => IInv
  BY InitIInv
<1>2. IInv /\ [Next]_vars => IInv'
  BY NextIInv
<1> QED BY <1>1, <1>2, PTL DEF Spec

\* When cascaded controllers use lines of their parents that are theirs alone
\* and no tree domain is removed, the tables of the domains and the descriptors
\* stay inverse to each other, and children stay linked to their parents, on
\* every path through irq_create_mapping and irq_dispose_mapping, for any
\* number of domains, lines and virtual numbers.
THEOREM TablesAgree == Exclusive /\ NoTreeRemoved => (Spec => []MappingsAgree)
<1>1. IInv => MappingsAgree
  BY IInvProperties
<1> QED BY <1>1, AlwaysIInv, PTL

\* Under the same conditions the bit of a virtual number is set exactly while
\* its descriptor belongs to a domain: virq_alloc and virq_free are paired on
\* every path of irq_create_mapping and irq_domain_alloc_irqs.
THEOREM NumbersConserved == Exclusive /\ NoTreeRemoved => (Spec => []NoVirqLost)
<1>1. IInv => NoVirqLost
  BY IInvProperties
<1> QED BY <1>1, AlwaysIInv, PTL

\* Under the same conditions irq_domain_remove leaves no descriptor and no
\* default domain that refers to the domain it frees.
THEOREM DomainsLeaveNothing == Exclusive /\ NoTreeRemoved => (Spec => []NothingOutlivesDomain)
<1>1. IInv => NothingOutlivesDomain
  BY IInvProperties
<1> QED BY <1>1, AlwaysIInv, PTL

=============================================================================
