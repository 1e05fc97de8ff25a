----------------------------- MODULE ListLemmas -----------------------------
(***************************************************************************)
(* What the kernel's linked lists do as sequences without duplicates, and  *)
(* the least number principle, which serves for induction.                 *)
(***************************************************************************)
EXTENDS SequenceTheorems, WellFoundedInduction, TLAPS

-----------------------------------------------------------------------------
(* Lists without duplicates. *)

\* A list of elements of S, each at most once.
Distinct(list, S) == list \in Seq(S) /\ IsInjective(list)

\* An element that is not on the list joins it at its head.
LEMMA InsertHead ==
  ASSUME NEW S, NEW list, Distinct(list, S), NEW s \in S, s \notin Range(list)
  PROVE  /\ Distinct(<<s>> \o list, S)
         /\ Range(<<s>> \o list) = Range(list) \cup {s}
<1>1. PICK new : new = <<s>> \o list
  OBVIOUS
<1>2. /\ new \in Seq(S) /\ Len(list) \in Nat /\ new[1] = s
      /\ DOMAIN new = 1 .. Len(list) + 1 /\ DOMAIN list = 1 .. Len(list)
      /\ \A k \in 1 .. Len(list) : new[k + 1] = list[k]
  BY <1>1 DEF Distinct
<1>3. \A k \in DOMAIN new : k = 1 \/ (k - 1 \in DOMAIN list /\ new[k] = list[k - 1])
  BY <1>2
<1>4. \A k \in DOMAIN list : list[k] # s
  BY DEF Range
<1>5. \A j, k \in DOMAIN list : list[j] = list[k] => j = k
  BY DEF Distinct, IsInjective
<1>6. IsInjective(new)
  <2> SUFFICES ASSUME NEW j \in DOMAIN new, NEW k \in DOMAIN new, new[j] = new[k]
               PROVE  j = k
    BY DEF IsInjective
  <2> QED BY <1>2, <1>3, <1>4, <1>5
<1>7. Range(new) = Range(list) \cup {s}
  <2>1. \A k \in DOMAIN new : new[k] \in Range(list) \cup {s}
    BY <1>2, <1>3 DEF Range
  <2>2. \A k \in DOMAIN list : k + 1 \in DOMAIN new /\ new[k + 1] = list[k]
    BY <1>2
  <2>3. 1 \in DOMAIN new
    BY <1>2
  <2>4. s \in Range(new)
    BY <1>2, <2>3 DEF Range
  <2>5. \A k \in DOMAIN list : list[k] \in Range(new)
    BY <2>2 DEF Range
  <2> QED BY <2>1, <2>4, <2>5 DEF Range
<1> QED
  BY <1>1, <1>2, <1>6, <1>7 DEF Distinct

\* Two lists that share no element, one after the other.
LEMMA Append2 ==
  ASSUME NEW S, NEW p, NEW q, Distinct(p, S), Distinct(q, S), Range(p) \cap Range(q) = {}
  PROVE  Distinct(p \o q, S) /\ Range(p \o q) = Range(p) \cup Range(q)
<1>1. PICK all, m, n : all = p \o q /\ m = Len(p) /\ n = Len(q)
  OBVIOUS
<1>2. /\ m \in Nat /\ n \in Nat /\ DOMAIN p = 1 .. m /\ DOMAIN q = 1 .. n
      /\ p \in Seq(S) /\ q \in Seq(S)
  BY <1>1 DEF Distinct
<1>3. /\ all \in Seq(S) /\ Len(all) = m + n
      /\ \A k \in 1 .. m + n : all[k] = IF k <= m THEN p[k] ELSE q[k - m]
  BY <1>1, <1>2, ConcatProperties
<1>4. DOMAIN all = 1 .. m + n
  BY <1>3, LenProperties
<1>5. \A k \in DOMAIN all : \/ k \in DOMAIN p /\ all[k] = p[k]
                            \/ k - m \in DOMAIN q /\ all[k] = q[k - m]
  BY <1>2, <1>3, <1>4
<1>6. \A k \in DOMAIN p : k \in DOMAIN all /\ all[k] = p[k]
  BY <1>2, <1>3, <1>4
<1>7. \A k \in DOMAIN q : k + m \in DOMAIN all /\ all[k + m] = q[k]
  <2> SUFFICES ASSUME NEW k \in DOMAIN q PROVE k + m \in DOMAIN all /\ all[k + m] = q[k]
    OBVIOUS
  <2>1. k + m \in 1 .. m + n /\ ~(k + m <= m) /\ (k + m) - m = k
    BY <1>2
  <2> QED BY <1>3, <1>4, <2>1
<1>8. /\ \A j, k \in DOMAIN p : p[j] = p[k] => j = k
      /\ \A j, k \in DOMAIN q : q[j] = q[k] => j = k
      /\ \A j \in DOMAIN p, k \in DOMAIN q : p[j] # q[k]
  BY DEF Distinct, IsInjective, Range
<1>9. IsInjective(all)
  <2> SUFFICES ASSUME NEW j \in DOMAIN all, NEW k \in DOMAIN all, all[j] = all[k]
               PROVE  j = k
    BY DEF IsInjective
  <2>1. j \in Int /\ k \in Int
    BY <1>2, <1>4
  <2> QED BY <1>2, <1>5, <1>8, <2>1
<1>10. Range(all) = Range(p) \cup Range(q)
  BY <1>5, <1>6, <1>7 DEF Range
<1> QED
  BY <1>1, <1>3, <1>9, <1>10 DEF Distinct

\* Two lists in a row.
LEMMA Joined ==
  ASSUME NEW S, NEW p \in Seq(S), NEW q \in Seq(S), NEW new, new = p \o q
  PROVE  /\ new \in Seq(S) /\ Len(new) = Len(p) + Len(q)
         /\ \A j \in 1 .. Len(new) : new[j] = IF j <= Len(p) THEN p[j] ELSE q[j - Len(p)]
  BY ConcatProperties

\* The link at k leaves the list.
LEMMA RemoveLink ==
  ASSUME NEW S, NEW list, Distinct(list, S), NEW k \in DOMAIN list
  PROVE  /\ Distinct(SubSeq(list, 1, k - 1) \o SubSeq(list, k + 1, Len(list)), S)
         /\ Range(SubSeq(list, 1, k - 1) \o SubSeq(list, k + 1, Len(list))) = Range(list) \ {list[k]}
<1>1. PICK new : new = SubSeq(list, 1, k - 1) \o SubSeq(list, k + 1, Len(list))
  OBVIOUS
<1>2. /\ Len(list) \in Nat /\ k \in 1 .. Len(list) /\ DOMAIN list = 1 .. Len(list)
      /\ \A j \in 1 .. Len(list) : list[j] \in S
  BY DEF Distinct
<1>a. /\ SubSeq(list, 1, k - 1) \in Seq(S) /\ Len(SubSeq(list, 1, k - 1)) = k - 1
      /\ \A j \in 1 .. k - 1 : SubSeq(list, 1, k - 1)[j] = list[j]
  BY <1>2, SubSeqProperties DEF Distinct
<1>b. /\ SubSeq(list, k + 1, Len(list)) \in Seq(S)
      /\ Len(SubSeq(list, k + 1, Len(list))) = Len(list) - k
      /\ \A j \in 1 .. Len(list) - k : SubSeq(list, k + 1, Len(list))[j] = list[k + j]
  BY <1>2, SubSeqProperties DEF Distinct
<1>c. PICK p, q : p = SubSeq(list, 1, k - 1) /\ q = SubSeq(list, k + 1, Len(list))
  OBVIOUS
<1>d. /\ new = p \o q /\ p \in Seq(S) /\ q \in Seq(S)
      /\ Len(p) = k - 1 /\ Len(q) = Len(list) - k
  BY <1>1, <1>a, <1>b, <1>c
<1>3. /\ new \in Seq(S) /\ DOMAIN new = 1 .. Len(list) - 1
      /\ \A j \in 1 .. k - 1 : new[j] = list[j]
      /\ \A j \in k .. Len(list) - 1 : new[j] = list[j + 1]
  <2>1. /\ new \in Seq(S) /\ Len(new) = Len(p) + Len(q)
        /\ \A j \in 1 .. Len(new) : new[j] = IF j <= Len(p) THEN p[j] ELSE q[j - Len(p)]
    <3>1. p \in Seq(S) /\ q \in Seq(S) /\ new = p \o q
      BY <1>d
    <3> QED BY <3>1, Joined
  <2>2. DOMAIN new = 1 .. Len(list) - 1
    <3>1. Len(new) = Len(list) - 1
      BY <1>2, <1>d, <2>1
    <3>2. DOMAIN new = 1 .. Len(new)
      BY <2>1, LenProperties
    <3> QED BY <3>1, <3>2
  <2>3. ASSUME NEW j \in 1 .. k - 1 PROVE new[j] = list[j]
    <3>1. j \in 1 .. Len(new) /\ j <= Len(p)
      BY <1>2, <1>d, <2>1
    <3> QED BY <1>a, <1>c, <2>1, <3>1
  <2>4. ASSUME NEW j \in k .. Len(list) - 1 PROVE new[j] = list[j + 1]
    <3>1. j - (k - 1) \in 1 .. Len(list) - k /\ k + (j - (k - 1)) = j + 1
      BY <1>2
    <3>2. q[j - (k - 1)] = list[j + 1]
      BY <1>b, <1>c, <3>1
    <3>3. j \in 1 .. Len(new) /\ ~(j <= k - 1)
      BY <1>2, <1>d, <2>1
    <3> QED BY <1>d, <2>1, <3>2, <3>3
  <2> QED BY <2>1, <2>2, <2>3, <2>4
<1>4. \A j, m \in DOMAIN list : list[j] = list[m] => j = m
  BY DEF Distinct, IsInjective
<1>5. \A m \in DOMAIN new : \E j \in DOMAIN list : j # k /\ new[m] = list[j]
                                                /\ j = IF m < k THEN m ELSE m + 1
  BY <1>2, <1>3
<1>6. \A j \in DOMAIN list : j # k => \E m \in DOMAIN new : new[m] = list[j]
  <2> SUFFICES ASSUME NEW j \in DOMAIN list, j # k PROVE \E m \in DOMAIN new : new[m] = list[j]
    OBVIOUS
  <2>1. CASE j < k
    BY <1>2, <1>3, <2>1
  <2>2. CASE j > k
    <3>1. j - 1 \in k .. Len(list) - 1 /\ j - 1 \in DOMAIN new /\ (j - 1) + 1 = j
      BY <1>2, <1>3, <2>2
    <3>2. new[j - 1] = list[j]
      BY <1>3, <3>1
    <3> QED BY <3>1, <3>2
  <2> QED BY <1>2, <2>1, <2>2
<1>7. IsInjective(new)
  <2> SUFFICES ASSUME NEW j \in DOMAIN new, NEW m \in DOMAIN new, new[j] = new[m]
               PROVE  j = m
    BY DEF IsInjective
  <2> QED BY <1>2, <1>3, <1>4, <1>5
<1>8. Range(new) = Range(list) \ {list[k]}
  BY <1>4, <1>5, <1>6 DEF Range
<1> QED
  BY <1>1, <1>3, <1>7, <1>8 DEF Distinct

\* The first link of a list leaves it.
LEMMA RemoveHead ==
  ASSUME NEW S, NEW list, Distinct(list, S), list # <<>>
  PROVE  /\ Head(list) \in S /\ Head(list) \in Range(list)
         /\ Distinct(Tail(list), S)
         /\ Range(Tail(list)) = Range(list) \ {Head(list)}
<1>1. /\ 1 \in DOMAIN list /\ list[1] = Head(list) /\ Head(list) \in S
      /\ Tail(list) = SubSeq(list, 1, 0) \o SubSeq(list, 2, Len(list))
  BY DEF Distinct
<1>2. Head(list) \in Range(list)
  BY <1>1 DEF Range
<1>3. /\ Distinct(SubSeq(list, 1, 0) \o SubSeq(list, 2, Len(list)), S)
      /\ Range(SubSeq(list, 1, 0) \o SubSeq(list, 2, Len(list))) = Range(list) \ {list[1]}
  BY <1>1, RemoveLink
<1> QED
  BY <1>1, <1>2, <1>3

\* The second link leaves a list.
LEMMA RemoveSecond ==
  ASSUME NEW S, NEW list, Distinct(list, S), Len(list) >= 2
  PROVE  /\ Distinct(SubSeq(list, 1, 2 - 1) \o SubSeq(list, 2 + 1, Len(list)), S) /\ list[1] # list[2]
         /\ list[2] \in Range(list)
         /\ Range(SubSeq(list, 1, 2 - 1) \o SubSeq(list, 2 + 1, Len(list))) = Range(list) \ {list[2]}
<1>1. 2 \in DOMAIN list /\ 1 \in DOMAIN list
  BY DEF Distinct
<1>2. list[2] # list[1] /\ list[2] \in Range(list)
  BY <1>1 DEF Distinct, IsInjective, Range
<1>3. PICK k : k = 2
  OBVIOUS
<1>4. /\ Distinct(SubSeq(list, 1, k - 1) \o SubSeq(list, k + 1, Len(list)), S)
      /\ Range(SubSeq(list, 1, k - 1) \o SubSeq(list, k + 1, Len(list))) = Range(list) \ {list[k]}
  BY <1>1, <1>3, RemoveLink
<1> QED BY <1>2, <1>3, <1>4

\* The list of one element, and the empty list.
LEMMA Singleton ==
  ASSUME NEW S, NEW s \in S
  PROVE  /\ Distinct(<<s>>, S) /\ Range(<<s>>) = {s}
         /\ Distinct(<<>>, S) /\ Range(<<>>) = {}
  BY DEF Distinct, Range, IsInjective

-----------------------------------------------------------------------------
(* Numbers. *)

\* A set of natural numbers that is not empty has a least element.
LEMMA LeastNat ==
  ASSUME NEW T, T \subseteq Nat, T # {}
  PROVE  \E m \in T : \A n \in T : m <= n
<1>1. PICK x \in T : \A y \in T : ~ (<<y, x>> \in OpToRel(<, Nat))
  BY WFMin, NatLessThanWellFounded
<1>2. \A y \in T : ~ (y < x)
  BY <1>1 DEF OpToRel
<1> QED BY <1>2

\* Induction over 0 .. n, with the set of the numbers for which it holds.
LEMMA InductionTo ==
  ASSUME NEW n \in Nat, NEW T, 0 \in T, \A i \in 0 .. n - 1 : i \in T => i + 1 \in T
  PROVE  0 .. n \subseteq T
<1> DEFINE Bad == (0 .. n) \ T
<1> SUFFICES ASSUME Bad # {} PROVE FALSE
  OBVIOUS
<1>1. PICK m \in Bad : \A k \in Bad : m <= k
  <2>1. Bad \subseteq Nat
    OBVIOUS
  <2> HIDE DEF Bad
  <2> QED BY <2>1, LeastNat
<1>2. m \in 0 .. n /\ m # 0
  BY <1>1
<1>3. m - 1 \in 0 .. n - 1 /\ m - 1 \in 0 .. n /\ (m - 1) + 1 = m
  BY <1>2
<1>4. m - 1 \in T
  BY <1>1, <1>3
<1>5. m \in T
  BY <1>3, <1>4
<1> QED BY <1>1, <1>5

\* f[i] is the state of a loop after round i, I[i] what holds then.
Rounds(f, n, I, s0, step) ==
  /\ f = [i \in 0 .. n |-> f[i]] /\ f[0] = s0
  /\ \A i \in 0 .. n : f[i] \in I[i]
  /\ \A i \in 1 .. n : f[i] = step[<<f[i - 1], i>>]

\* A loop of n rounds: there is the sequence of its states, and after round i
\* the state is in I[i] when every round leads from I[i - 1] to I[i].
LEMMA LoopStates ==
  ASSUME NEW n \in Nat, NEW I, NEW s0 \in I[0], NEW step,
         \A i \in 1 .. n : \A s \in I[i - 1] : step[<<s, i>>] \in I[i]
  PROVE  \E f : Rounds(f, n, I, s0, step)
<1> DEFINE Run(f, k) == /\ f = [i \in 0 .. k |-> f[i]] /\ f[0] = s0
                        /\ \A i \in 0 .. k : f[i] \in I[i]
                        /\ \A i \in 1 .. k : f[i] = step[<<f[i - 1], i>>]
           T == {k \in 0 .. n : \E f : Run(f, k)}
<1>1. 0 \in T
  <2>1. PICK f : f = [i \in 0 .. 0 |-> s0]
    OBVIOUS
  <2>2. f = [i \in 0 .. 0 |-> f[i]] /\ f[0] = s0 /\ (\A i \in 0 .. 0 : f[i] \in I[i])
    BY <2>1
  <2>3. \A i \in 1 .. 0 : f[i] = step[<<f[i - 1], i>>]
    OBVIOUS
  <2> QED BY <2>2, <2>3
<1>2. ASSUME NEW k \in 0 .. n - 1, k \in T
      PROVE  k + 1 \in T
  <2>1. PICK f : Run(f, k)
    BY <1>2
  <2>2. PICK g : g = [i \in 0 .. k + 1 |-> IF i = k + 1 THEN step[<<f[k], k + 1>>] ELSE f[i]]
    OBVIOUS
  <2>3. g = [i \in 0 .. k + 1 |-> g[i]] /\ g[0] = s0
    BY <2>1, <2>2
  <2>4. \A i \in 0 .. k : g[i] = f[i]
    BY <2>2
  <2>5. g[k + 1] = step[<<f[k], k + 1>>] /\ f[k] \in I[k]
    BY <2>1, <2>2
  <2>6. step[<<f[k], k + 1>>] \in I[k + 1]
    <3>1. k + 1 \in 1 .. n /\ (k + 1) - 1 = k
      OBVIOUS
    <3> QED BY <2>5, <3>1
  <2>7. \A i \in 0 .. k + 1 : g[i] \in I[i]
    BY <2>1, <2>4, <2>5, <2>6
  <2>8. \A i \in 1 .. k + 1 : g[i] = step[<<g[i - 1], i>>]
    <3> SUFFICES ASSUME NEW i \in 1 .. k + 1
                 PROVE  g[i] = step[<<g[i - 1], i>>]
      OBVIOUS
    <3>1. g[i - 1] = f[i - 1]
      BY <2>4
    <3>2. CASE i = k + 1
      BY <2>5, <3>1, <3>2
    <3>3. CASE i # k + 1
      <4>1. i \in 1 .. k
        BY <3>3
      <4>2. f[i] = step[<<f[i - 1], i>>]
        BY <2>1, <4>1
      <4> QED BY <2>4, <3>1, <4>1, <4>2
    <3> QED BY <3>2, <3>3
  <2>9. Run(g, k + 1)
    BY <2>3, <2>7, <2>8
  <2>10. k + 1 \in 0 .. n
    OBVIOUS
  <2> QED BY <2>9, <2>10
<1>3. 0 .. n \subseteq T
  <2> HIDE DEF T
  <2> QED BY <1>1, <1>2, InductionTo
<1>4. PICK f : Run(f, n)
  BY <1>3
<1> QED BY <1>4 DEF Rounds

\* The same for given states of a loop.
LEMMA LoopInvariant ==
  ASSUME NEW n \in Nat, NEW I, NEW step, NEW f, f[0] \in I[0],
         \A i \in 1 .. n : f[i - 1] \in I[i - 1] => f[i] = step[<<f[i - 1], i>>],
         \A i \in 1 .. n : \A s \in I[i - 1] : step[<<s, i>>] \in I[i]
  PROVE  f[n] \in I[n]
<1> DEFINE T == {k \in 0 .. n : f[k] \in I[k]}
<1>1. 0 \in T
  OBVIOUS
<1>2. ASSUME NEW k \in 0 .. n - 1, k \in T
      PROVE  k + 1 \in T
  <2>1. k + 1 \in 1 .. n /\ (k + 1) - 1 = k /\ k + 1 \in 0 .. n
    OBVIOUS
  <2>2. f[k] \in I[k]
    BY <1>2
  <2>3. f[k + 1] = step[<<f[k], k + 1>>] /\ step[<<f[k], k + 1>>] \in I[k + 1]
    BY <2>1, <2>2
  <2> QED BY <2>1, <2>3
<1>3. 0 .. n \subseteq T
  <2> HIDE DEF T
  <2> QED BY <1>1, <1>2, InductionTo
<1> QED BY <1>3
=============================================================================
