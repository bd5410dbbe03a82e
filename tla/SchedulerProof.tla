--------------------------- MODULE SchedulerProof ---------------------------
(***************************************************************************)
(* The lists of the scheduler stay well formed, and the scheduler keeps    *)
(* every promise of RoundRobin, for any number of nodes, processes and     *)
(* levels.                                                                 *)
(***************************************************************************)
EXTENDS MCScheduler, FiniteSetTheorems, SequenceTheorems, WellFoundedInduction, TLAPS

(* Walks and lists                                                         *)

\* A nonempty set of natural numbers has a least element.
LEMMA LeastNumber ==
  ASSUME NEW S \in SUBSET Nat, S # {}
  PROVE  \E m \in S : \A n \in S : m <= n
<1>1. \E m \in S : \A n \in S : <<n, m>> \notin OpToRel(<, Nat)
  BY NatLessThanWellFounded, WFMin
<1>2. \A m, n \in S : m < n => <<m, n>> \in OpToRel(<, Nat)
  BY DEF OpToRel
<1>3. PICK m \in S : \A n \in S : ~(n < m)
  BY <1>1, <1>2
<1>4. \A n \in S : m <= n
  BY <1>3
<1> QED BY <1>4

\* What addresses, steps and levels are.
LEMMA ConstantFacts ==
  /\ Cardinality(Addr) \in Nat /\ kLevels \in Nat /\ kLevels >= 1
  /\ Steps \subseteq Nat /\ 0 \in Steps
  /\ \A k \in Steps : k # 0 => k - 1 \in Steps
  /\ \A k \in Nat : k <= Cardinality(Addr) => k \in Steps
  /\ Level \subseteq Nat /\ 0 \in Level
  /\ \A a \in Addr : a # NULL
BY SchedulerAssumption, FS_CardinalityType DEF Steps, Level

\* The walk is the one function that starts at the first node and goes along
\* next: a function that does so is the walk.
LEMMA WalkIs ==
  ASSUME NEW first, NEW nodes, NEW g,
         g = [k \in Steps |-> IF k = 0 THEN first
                              ELSE IF g[k - 1] = NULL THEN NULL ELSE nodes[g[k - 1]].next]
  PROVE  WalkFrom(first, nodes) = g
<1> DEFINE Goes(f) == f = [k \in Steps |-> IF k = 0 THEN first
                                 ELSE IF f[k - 1] = NULL THEN NULL ELSE nodes[f[k - 1]].next]
           w == WalkFrom(first, nodes)
<1>1. w = CHOOSE f : Goes(f)
  BY DEF WalkFrom
<1>2. Goes(w)
  <2>1. Goes(g)
    OBVIOUS
  <2> HIDE DEF Goes
  <2> QED BY <1>1, <2>1
<1> HIDE DEF w
<1> DEFINE Differ == {k \in Steps : w[k] # g[k]}
<1>3. Differ = {}
  <2>1. SUFFICES ASSUME Differ # {} PROVE FALSE
    OBVIOUS
  <2>2. PICK k \in Differ : \A j \in Differ : k <= j
    BY <2>1, LeastNumber, ConstantFacts
  <2>3. k \in Steps /\ w[k] # g[k] /\ k \in Nat
    BY ConstantFacts
  <2>4. k # 0
    BY <1>2, <2>3
  <2>5. k - 1 \in Steps /\ w[k - 1] = g[k - 1]
    BY <2>2, <2>3, <2>4, ConstantFacts
  <2>6. w[k] = IF w[k - 1] = NULL THEN NULL ELSE nodes[w[k - 1]].next
    BY <1>2, <2>3, <2>4
  <2>7. g[k] = IF g[k - 1] = NULL THEN NULL ELSE nodes[g[k - 1]].next
    BY <2>3, <2>4
  <2> QED BY <2>3, <2>5, <2>6, <2>7
<1>4. DOMAIN w = Steps /\ DOMAIN g = Steps /\ w = [k \in Steps |-> w[k]] /\ g = [k \in Steps |-> g[k]]
  BY <1>2
<1> QED BY <1>3, <1>4 DEF w

\* A level's pointers lv and the nodes they lead to hold the list s.
Chain(nodes, lv, s) ==
  /\ s \in Seq(Addr)
  /\ \A i, j \in DOMAIN s : s[i] = s[j] => i = j
  /\ Len(s) = 0 => lv.head = NULL /\ lv.curr = NULL
  /\ Len(s) # 0 => /\ lv.head = s[1] /\ lv.tail = s[Len(s)]
                   /\ \E c \in DOMAIN s : lv.curr = s[c]
  /\ \A i \in DOMAIN s :
       /\ i = Len(s) => nodes[s[i]].next = NULL
       /\ i # Len(s) => nodes[s[i]].next = s[i + 1]
       /\ i = 1 => nodes[s[i]].prev = NULL
       /\ i # 1 => nodes[s[i]].prev = s[i - 1]

\* The list a walk meets.
LengthFrom(walk) == Cardinality({k \in Steps : walk[k] # NULL})
ListFrom(walk)   == [i \in 1 .. LengthFrom(walk) |-> walk[i - 1]]

LEMMA ChainType ==
  ASSUME NEW nodes, NEW lv, NEW s, Chain(nodes, lv, s)
  PROVE  /\ s \in Seq(Addr) /\ Len(s) \in Nat /\ DOMAIN s = 1 .. Len(s)
         /\ s \in [1 .. Len(s) -> Addr] /\ Len(s) <= Cardinality(Addr)
<1>1. s \in Seq(Addr)
  BY DEF Chain
<1>2. Len(s) \in Nat /\ DOMAIN s = 1 .. Len(s) /\ s \in [1 .. Len(s) -> Addr]
  BY <1>1, LenProperties
<1>3. s \in Injection(1 .. Len(s), Addr)
  BY <1>2 DEF Chain, Injection, IsInjective
<1>4. Cardinality(1 .. Len(s)) <= Cardinality(Addr)
  BY <1>3, FS_Injection, SchedulerAssumption
<1>5. Cardinality(1 .. Len(s)) = Len(s)
  BY <1>2, FS_Interval
<1> QED BY <1>1, <1>2, <1>4, <1>5

\* The walk along a list meets its nodes in order, then NULL.
LEMMA ChainWalk ==
  ASSUME NEW nodes, NEW lv, NEW s, Chain(nodes, lv, s)
  PROVE  \A k \in Steps : /\ k < Len(s) => WalkFrom(lv.head, nodes)[k] = s[k + 1]
                          /\ k >= Len(s) => WalkFrom(lv.head, nodes)[k] = NULL
<1> DEFINE g == [k \in Steps |-> IF k < Len(s) THEN s[k + 1] ELSE NULL]
           h == [k \in Steps |-> IF k = 0 THEN lv.head
                              ELSE IF g[k - 1] = NULL THEN NULL ELSE nodes[g[k - 1]].next]
<1>1. /\ Len(s) \in Nat /\ DOMAIN s = 1 .. Len(s) /\ \A i \in 1 .. Len(s) : s[i] \in Addr
  BY ChainType
<1>0. Len(s) \in Nat
  BY <1>1
<1>2. ASSUME NEW k \in Steps PROVE g[k] = h[k]
  <2>1. k \in Nat
    BY ConstantFacts
  <2>2. CASE k = 0
    BY <1>1, <2>2 DEF Chain
  <2>3. CASE k # 0 /\ k < Len(s)
    <3>1. k - 1 \in Steps /\ g[k - 1] = s[k] /\ k \in 1 .. Len(s)
      BY <1>1, <2>1, <2>3, ConstantFacts
    <3>2. s[k] # NULL
      BY <1>1, <3>1, ConstantFacts
    <3>3. k # Len(s)
      BY <1>0, <2>1, <2>3
    <3>4. k \in DOMAIN s
      BY <1>1, <3>1
    <3>5. nodes[s[k]].next = s[k + 1]
      BY <3>3, <3>4 DEF Chain
    <3> QED BY <2>3, <3>1, <3>2, <3>5
  <2>4. CASE k # 0 /\ k = Len(s)
    <3>1. k - 1 \in Steps /\ g[k - 1] = s[k] /\ k \in 1 .. Len(s)
      BY <1>1, <2>1, <2>4, ConstantFacts
    <3>2. s[k] # NULL /\ nodes[s[k]].next = NULL
      BY <1>1, <2>4, <3>1, ConstantFacts DEF Chain
    <3> QED BY <2>4, <3>1, <3>2
  <2>5. CASE k # 0 /\ k > Len(s)
    <3>1. k - 1 \in Steps /\ ~(k - 1 < Len(s)) /\ ~(k < Len(s))
      BY <1>1, <2>1, <2>5, ConstantFacts
    <3>2. g[k] = NULL /\ g[k - 1] = NULL
      BY <3>1
    <3> HIDE DEF g
    <3> QED BY <2>5, <3>2
  <2> HIDE DEF g, h
  <2>6. k = 0 \/ k < Len(s) \/ k = Len(s) \/ k > Len(s)
    BY <1>0, <2>1
  <2> QED BY <2>2, <2>3, <2>4, <2>5, <2>6
<1>3. g = h
  BY <1>2
<1> HIDE DEF g
<1>4. WalkFrom(lv.head, nodes) = g
  BY <1>3, WalkIs
<1> QED BY <1>1, <1>4, ConstantFacts DEF g

\* So a list is what the walk shows of it.
LEMMA ChainList ==
  ASSUME NEW nodes, NEW lv, NEW s, Chain(nodes, lv, s)
  PROVE  LET w == WalkFrom(lv.head, nodes)
         IN  /\ LengthFrom(w) = Len(s)
             /\ ListFrom(w) = s
             /\ {w[k] : k \in 0 .. LengthFrom(w) - 1} = {s[i] : i \in DOMAIN s}
<1> DEFINE w == WalkFrom(lv.head, nodes)
<1>1. /\ Len(s) \in Nat /\ DOMAIN s = 1 .. Len(s) /\ \A i \in 1 .. Len(s) : s[i] \in Addr
      /\ Len(s) <= Cardinality(Addr) /\ s = [i \in 1 .. Len(s) |-> s[i]]
  BY ChainType
<1>2. \A k \in Steps : (k < Len(s) => w[k] = s[k + 1]) /\ (k >= Len(s) => w[k] = NULL)
  BY ChainWalk
<1> HIDE DEF w
<1>3. \A k \in 0 .. Len(s) - 1 : k \in Steps /\ w[k] = s[k + 1]
  BY <1>1, <1>2, ConstantFacts
<1>4. {k \in Steps : w[k] # NULL} = 0 .. Len(s) - 1
  <2>1. ASSUME NEW k \in Steps, w[k] # NULL
        PROVE  k \in 0 .. Len(s) - 1
    BY <1>1, <1>2, <2>1, ConstantFacts
  <2>2. ASSUME NEW k \in 0 .. Len(s) - 1
        PROVE  k \in Steps /\ w[k] # NULL
    BY <1>1, <1>3, ConstantFacts
  <2> QED BY <2>1, <2>2
<1>5. LengthFrom(w) = Len(s)
  <2>1. Cardinality(0 .. Len(s) - 1) = Len(s)
    BY <1>1, FS_Interval
  <2> QED BY <1>4, <2>1 DEF LengthFrom
<1>6. ListFrom(w) = s
  <2>1. \A i \in 1 .. Len(s) : w[i - 1] = s[i]
    BY <1>1, <1>3
  <2>2. ListFrom(w) = [i \in 1 .. Len(s) |-> s[i]]
    BY <1>5, <2>1 DEF ListFrom
  <2> QED BY <1>1, <2>2
<1>7. {w[k] : k \in 0 .. Len(s) - 1} = {s[i] : i \in 1 .. Len(s)}
  <2>1. \A k \in 0 .. Len(s) - 1 : w[k] = s[k + 1] /\ k + 1 \in 1 .. Len(s)
    BY <1>1, <1>3
  <2>2. \A i \in 1 .. Len(s) : i - 1 \in 0 .. Len(s) - 1 /\ w[i - 1] = s[i]
    BY <1>1, <1>3
  <2> QED BY <2>1, <2>2
<1> QED BY <1>1, <1>5, <1>6, <1>7 DEF w
-----------------------------------------------------------------------------
(* What addProcess and removeProcess do to a list                          *)

\* A list is left alone when its pointers and its nodes are.
LEMMA ChainSame ==
  ASSUME NEW nodes, NEW lv, NEW s, Chain(nodes, lv, s), NEW nodes2,
         \A i \in DOMAIN s : nodes2[s[i]] = nodes[s[i]]
  PROVE  Chain(nodes2, lv, s)
BY DEF Chain

\* The mark moves within the list.
LEMMA ChainMark ==
  ASSUME NEW nodes, NEW lv, NEW s, Chain(nodes, lv, s), NEW lv2,
         lv2.head = lv.head, lv2.tail = lv.tail, NEW c \in DOMAIN s, lv2.curr = s[c]
  PROVE  Chain(nodes, lv2, s)
<1>1. Len(s) # 0
  BY ChainType
<1> QED BY <1>1 DEF Chain

\* A node is appended.
LEMMA ChainAppend ==
  ASSUME NEW nodes, NEW lv, NEW s, Chain(nodes, lv, s), NEW n \in Addr,
         \A i \in DOMAIN s : s[i] # n,
         NEW nodes2, NEW lv2, lv2.tail = n, nodes2[n].next = NULL,
         Len(s) = 0 => lv2.head = n /\ lv2.curr = n /\ nodes2[n].prev = NULL,
         Len(s) # 0 => /\ lv2.head = lv.head /\ lv2.curr = lv.curr
                       /\ nodes2[n].prev = lv.tail
                       /\ nodes2[lv.tail].next = n,
         \A i \in DOMAIN s : /\ nodes2[s[i]].prev = nodes[s[i]].prev
                             /\ i # Len(s) => nodes2[s[i]].next = nodes[s[i]].next
  PROVE  Chain(nodes2, lv2, Append(s, n))
<1> DEFINE t == Append(s, n)
<1>1. s \in Seq(Addr) /\ Len(s) \in Nat /\ DOMAIN s = 1 .. Len(s)
  BY ChainType
<1>2. Len(s) \in Nat
  BY <1>1
<1>3. /\ t \in Seq(Addr) /\ Len(t) = Len(s) + 1 /\ t[Len(s) + 1] = n
      /\ \A i \in 1 .. Len(s) : t[i] = s[i]
  BY <1>1, AppendProperties
<1>4. DOMAIN t = 1 .. Len(s) + 1
  BY <1>3, LenProperties
<1> HIDE DEF t
<1>5. \A i \in DOMAIN t : i = Len(s) + 1 \/ (i \in 1 .. Len(s) /\ i \in DOMAIN s /\ i # Len(s) + 1)
  BY <1>1, <1>2, <1>4
<1>6. \A i, j \in DOMAIN t : t[i] = t[j] => i = j
  BY <1>3, <1>5 DEF Chain
<1>7. Len(s) # 0 => lv.head = s[1] /\ lv.tail = s[Len(s)] /\ Len(s) \in DOMAIN s /\ 1 \in DOMAIN s
  BY <1>1, <1>2 DEF Chain
<1>8. /\ lv2.head = t[1] /\ lv2.tail = t[Len(t)]
      /\ \E c \in DOMAIN t : lv2.curr = t[c]
  <2>1. CASE Len(s) = 0
    <3>1. 1 \in DOMAIN t /\ t[1] = n /\ Len(t) = 1
      BY <1>3, <1>4, <2>1
    <3> QED BY <2>1, <3>1
  <2>2. CASE Len(s) # 0
    <3>1. PICK c \in DOMAIN s : lv.curr = s[c]
      BY <2>2 DEF Chain
    <3>2. c \in DOMAIN t /\ t[c] = s[c]
      <4>1. c \in 1 .. Len(s)
        BY <1>1
      <4>2. c \in 1 .. Len(s) + 1
        BY <1>2, <4>1
      <4> QED BY <1>3, <1>4, <4>1, <4>2
    <3>3. t[1] = s[1]
      BY <1>1, <1>3, <1>7, <2>2
    <3> QED BY <1>3, <1>7, <2>2, <3>1, <3>2, <3>3
  <2> QED BY <2>1, <2>2
<1>9. ASSUME NEW i \in DOMAIN t
      PROVE  /\ i = Len(t) => nodes2[t[i]].next = NULL
             /\ i # Len(t) => nodes2[t[i]].next = t[i + 1]
             /\ i = 1 => nodes2[t[i]].prev = NULL
             /\ i # 1 => nodes2[t[i]].prev = t[i - 1]
  <2>1. CASE i = Len(s) + 1
    <3>1. i = Len(t) /\ t[i] = n /\ i - 1 = Len(s)
      BY <1>2, <1>3, <2>1
    <3>2. i = 1 <=> Len(s) = 0
      BY <1>2, <2>1
    <3>3. i # 1 => nodes2[n].prev = s[Len(s)] /\ t[Len(s)] = s[Len(s)]
      BY <1>1, <1>3, <1>7, <3>2
    <3> QED BY <3>1, <3>2, <3>3
  <2>2. CASE i \in 1 .. Len(s)
    <3>1. t[i] = s[i] /\ i \in DOMAIN s
      BY <1>1, <1>3, <2>2
    <3>2. i # Len(t) /\ Len(s) # 0
      BY <1>2, <1>3, <2>2
    <3>3. i = Len(s) => t[i + 1] = n /\ nodes2[s[i]].next = n
      BY <1>3, <1>7, <3>2
    <3>4. i # Len(s) => t[i + 1] = s[i + 1] /\ nodes2[s[i]].next = s[i + 1]
      <4>1. i # Len(s) => i + 1 \in 1 .. Len(s)
        BY <1>2, <2>2
      <4> QED BY <1>3, <3>1, <4>1 DEF Chain
    <3>5. i = 1 => nodes2[s[i]].prev = NULL
      BY <3>1 DEF Chain
    <3>6. i # 1 => nodes2[s[i]].prev = s[i - 1] /\ t[i - 1] = s[i - 1]
      <4>1. i # 1 => i - 1 \in 1 .. Len(s)
        BY <1>2, <2>2
      <4> QED BY <1>3, <3>1, <4>1 DEF Chain
    <3> QED BY <3>1, <3>2, <3>3, <3>4, <3>5, <3>6
  <2> QED BY <1>5, <2>1, <2>2
<1>10. Len(t) # 0
  BY <1>2, <1>3
<1> QED BY <1>3, <1>6, <1>8, <1>9, <1>10 DEF Chain, t

\* The list without its c-th node.
Cut(s, c) == [i \in 1 .. Len(s) - 1 |-> IF i < c THEN s[i] ELSE s[i + 1]]

LEMMA CutFacts ==
  ASSUME NEW s \in Seq(Addr), NEW c \in DOMAIN s
  PROVE  /\ Cut(s, c) \in Seq(Addr) /\ Len(Cut(s, c)) = Len(s) - 1
         /\ DOMAIN Cut(s, c) = 1 .. Len(s) - 1
         /\ \A i \in DOMAIN Cut(s, c) : /\ i < c => Cut(s, c)[i] = s[i]
                                        /\ i >= c => Cut(s, c)[i] = s[i + 1]
         /\ {Cut(s, c)[i] : i \in DOMAIN Cut(s, c)} = {s[i] : i \in DOMAIN s \ {c}}
<1>1. Len(s) \in Nat /\ DOMAIN s = 1 .. Len(s) /\ \A i \in 1 .. Len(s) : s[i] \in Addr
  BY LenProperties
<1>2. Len(s) \in Nat /\ Len(s) - 1 \in Nat /\ c \in 1 .. Len(s)
  BY <1>1
<1> DEFINE t == Cut(s, c)
<1>3. \A i \in 1 .. Len(s) - 1 : i \in 1 .. Len(s) /\ i + 1 \in 1 .. Len(s)
  BY <1>2
<1>4. /\ DOMAIN t = 1 .. Len(s) - 1
      /\ \A i \in 1 .. Len(s) - 1 : (i < c => t[i] = s[i]) /\ (i >= c => t[i] = s[i + 1])
  BY <1>2 DEF Cut
<1>5. t \in Seq(Addr) /\ Len(t) = Len(s) - 1
  <2>1. t \in [1 .. Len(s) - 1 -> Addr]
    BY <1>1, <1>3 DEF Cut
  <2> HIDE DEF t
  <2> QED BY <1>2, <2>1, SeqDef, LenProperties
<1> HIDE DEF t
<1>6. \A i \in DOMAIN t : \E j \in DOMAIN s \ {c} : t[i] = s[j]
  <2>1. ASSUME NEW i \in 1 .. Len(s) - 1
        PROVE  \E j \in (1 .. Len(s)) \ {c} : t[i] = s[j]
    <3>1. CASE i < c
      BY <1>2, <1>3, <1>4, <3>1
    <3>2. CASE i >= c
      <4>1. i + 1 # c
        BY <1>2, <3>2
      <4> QED BY <1>3, <1>4, <3>2, <4>1
    <3> QED BY <1>2, <3>1, <3>2
  <2> QED BY <1>1, <1>4, <2>1
<1>7. \A j \in DOMAIN s \ {c} : \E i \in DOMAIN t : t[i] = s[j]
  <2>1. ASSUME NEW j \in (1 .. Len(s)) \ {c}
        PROVE  \E i \in 1 .. Len(s) - 1 : t[i] = s[j]
    <3>1. CASE j < c
      <4>1. j \in 1 .. Len(s) - 1
        BY <1>2, <3>1
      <4> QED BY <1>4, <3>1, <4>1
    <3>2. CASE j > c
      <4>1. j - 1 \in 1 .. Len(s) - 1 /\ j - 1 >= c /\ (j - 1) + 1 = j
        BY <1>2, <3>2
      <4> QED BY <1>4, <4>1
    <3> QED BY <1>2, <3>1, <3>2
  <2> QED BY <1>1, <1>4, <2>1
<1> QED BY <1>4, <1>5, <1>6, <1>7 DEF t

\* removeProcess takes the c-th node of the list s out: pointers lv and nodes
\* become lv2 and nodes2.
CutsOut(nodes, lv, s, c, nodes2, lv2) ==
  /\ c = 1 => lv2.head = nodes[s[c]].next
  /\ c # 1 => lv2.head = lv.head
  /\ c = Len(s) /\ c # 1 => lv2.tail = nodes[s[c]].prev
  /\ c # Len(s) => lv2.tail = lv.tail
  /\ lv.curr # s[c] => lv2.curr = lv.curr
  /\ lv.curr = s[c] /\ (c # Len(s) \/ c = 1) => lv2.curr = nodes[s[c]].next
  /\ lv.curr = s[c] /\ c = Len(s) /\ c # 1 => lv2.curr = lv.head
  /\ \A i \in DOMAIN s \ {c} :
       /\ i + 1 = c => nodes2[s[i]].next = nodes[s[c]].next
       /\ i + 1 # c => nodes2[s[i]].next = nodes[s[i]].next
       /\ i = c + 1 => nodes2[s[i]].prev = nodes[s[c]].prev
       /\ i # c + 1 => nodes2[s[i]].prev = nodes[s[i]].prev

\* Who has the turn after that: as module RoundRobin says.
LEMMA CutTurn ==
  ASSUME NEW nodes, NEW lv, NEW s, Chain(nodes, lv, s), NEW c \in DOMAIN s,
         NEW nodes2, NEW lv2, CutsOut(nodes, lv, s, c, nodes2, lv2),
         Len(s) # 1, NEW x \in DOMAIN s, lv.curr = s[x]
  PROVE  /\ c < x => x - 1 \in DOMAIN Cut(s, c) /\ lv2.curr = Cut(s, c)[x - 1]
         /\ c = x /\ c = Len(s) => 1 \in DOMAIN Cut(s, c) /\ lv2.curr = Cut(s, c)[1]
         /\ c > x \/ (c = x /\ c # Len(s)) => x \in DOMAIN Cut(s, c) /\ lv2.curr = Cut(s, c)[x]
<1>1. s \in Seq(Addr) /\ Len(s) \in Nat /\ DOMAIN s = 1 .. Len(s)
  BY ChainType
<1>2. Len(s) \in Nat /\ c \in 1 .. Len(s) /\ x \in 1 .. Len(s) /\ Len(s) > 1
  BY <1>1
<1> DEFINE t == Cut(s, c)
<1>3. /\ DOMAIN t = 1 .. Len(s) - 1
      /\ \A i \in 1 .. Len(s) - 1 : (i < c => t[i] = s[i]) /\ (i >= c => t[i] = s[i + 1])
  BY <1>1, CutFacts
<1> HIDE DEF t
<1>4. CASE c < x
  <2>1. x - 1 \in 1 .. Len(s) - 1 /\ x - 1 >= c /\ (x - 1) + 1 = x
    BY <1>2, <1>4
  <2>2. s[x] # s[c] /\ ~(c > x) /\ c # x
    BY <1>2, <1>4 DEF Chain
  <2>3. lv2.curr = s[x]
    BY <2>2 DEF CutsOut
  <2> QED BY <1>3, <2>1, <2>2, <2>3 DEF t
<1>5. CASE c > x
  <2>1. x \in 1 .. Len(s) - 1 /\ x < c
    BY <1>2, <1>5
  <2>2. s[x] # s[c] /\ ~(c < x) /\ c # x
    BY <1>2, <1>5 DEF Chain
  <2>3. lv2.curr = s[x]
    BY <2>2 DEF CutsOut
  <2> QED BY <1>3, <2>1, <2>2, <2>3 DEF t
<1>6. CASE c = x /\ c = Len(s)
  <2>1. 1 \in 1 .. Len(s) - 1 /\ 1 < c /\ c # 1 /\ ~(c < x) /\ ~(c > x) /\ Len(s) # 0
    BY <1>2, <1>6
  <2>2. lv2.curr = lv.head
    BY <1>6, <2>1 DEF CutsOut
  <2>3. lv.head = s[1]
    BY <2>1 DEF Chain
  <2> QED BY <1>3, <1>6, <2>1, <2>2, <2>3 DEF t
<1>7. CASE c = x /\ c # Len(s)
  <2>1. x \in 1 .. Len(s) - 1 /\ x >= c /\ ~(c < x)
    BY <1>2, <1>7
  <2>2. lv2.curr = nodes[s[c]].next
    BY <1>7 DEF CutsOut
  <2>3. nodes[s[c]].next = s[c + 1]
    BY <1>7 DEF Chain
  <2> QED BY <1>3, <1>7, <2>1, <2>2, <2>3 DEF t
<1> QED BY <1>2, <1>4, <1>5, <1>6, <1>7

LEMMA ChainCut ==
  ASSUME NEW nodes, NEW lv, NEW s, Chain(nodes, lv, s), NEW c \in DOMAIN s,
         NEW nodes2, NEW lv2, CutsOut(nodes, lv, s, c, nodes2, lv2)
  PROVE  Chain(nodes2, lv2, Cut(s, c))
<1> DEFINE t == Cut(s, c)
<1>1. s \in Seq(Addr) /\ Len(s) \in Nat /\ DOMAIN s = 1 .. Len(s)
  BY ChainType
<1>2. Len(s) \in Nat /\ c \in 1 .. Len(s) /\ Len(s) # 0
  BY <1>1
<1>3. /\ t \in Seq(Addr) /\ Len(t) = Len(s) - 1 /\ DOMAIN t = 1 .. Len(s) - 1
      /\ \A i \in 1 .. Len(s) - 1 : (i < c => t[i] = s[i]) /\ (i >= c => t[i] = s[i + 1])
  BY <1>1, CutFacts
<1>4. Len(t) = Len(s) - 1
  BY <1>3
<1>5. \A i, j \in 1 .. Len(s) : s[i] = s[j] => i = j
  BY <1>1 DEF Chain
<1>6. \A i \in 1 .. Len(s) :
        /\ i = Len(s) => nodes[s[i]].next = NULL
        /\ i # Len(s) => nodes[s[i]].next = s[i + 1]
        /\ i = 1 => nodes[s[i]].prev = NULL
        /\ i # 1 => nodes[s[i]].prev = s[i - 1]
  BY <1>1 DEF Chain
<1>7. \A i \in 1 .. Len(s) : i # c =>
       /\ i + 1 = c => nodes2[s[i]].next = nodes[s[c]].next
       /\ i + 1 # c => nodes2[s[i]].next = nodes[s[i]].next
       /\ i = c + 1 => nodes2[s[i]].prev = nodes[s[c]].prev
       /\ i # c + 1 => nodes2[s[i]].prev = nodes[s[i]].prev
  BY <1>1 DEF CutsOut
<1> HIDE DEF t
<1>8. \A i, j \in DOMAIN t : t[i] = t[j] => i = j
  <2>1. ASSUME NEW i \in 1 .. Len(s) - 1, NEW j \in 1 .. Len(s) - 1, t[i] = t[j]
        PROVE  i = j
    <3>1. /\ i \in 1 .. Len(s) /\ i + 1 \in 1 .. Len(s)
          /\ j \in 1 .. Len(s) /\ j + 1 \in 1 .. Len(s)
      BY <1>2
    <3>2. CASE i < c /\ j < c
      BY <1>3, <1>5, <2>1, <3>1, <3>2
    <3>3. CASE i < c /\ j >= c
      <4>1. s[i] = s[j + 1]
        BY <1>3, <2>1, <3>3
      <4>2. i = j + 1
        BY <1>5, <3>1, <4>1
      <4> QED BY <1>2, <3>3, <4>2
    <3>4. CASE i >= c /\ j < c
      <4>1. s[i + 1] = s[j]
        BY <1>3, <2>1, <3>4
      <4>2. i + 1 = j
        BY <1>5, <3>1, <4>1
      <4> QED BY <1>2, <3>4, <4>2
    <3>5. CASE i >= c /\ j >= c
      <4>1. s[i + 1] = s[j + 1]
        BY <1>3, <2>1, <3>5
      <4>2. i + 1 = j + 1
        BY <1>5, <3>1, <4>1
      <4> QED BY <1>2, <4>2
    <3> QED BY <1>2, <3>2, <3>3, <3>4, <3>5
  <2> QED BY <1>3, <2>1
<1>9. Len(t) = 0 => lv2.head = NULL /\ lv2.curr = NULL
  <2>1. SUFFICES ASSUME Len(t) = 0 PROVE lv2.head = NULL /\ lv2.curr = NULL
    OBVIOUS
  <2>2. Len(s) = 1 /\ c = 1
    BY <1>2, <1>4, <2>1
  <2>3. nodes[s[c]].next = NULL
    BY <1>2, <1>6, <2>2
  <2>4. lv.curr = s[c]
    BY <1>1, <1>2, <2>2 DEF Chain
  <2> QED BY <2>2, <2>3, <2>4 DEF CutsOut
<1>10. Len(t) # 0 => /\ lv2.head = t[1] /\ lv2.tail = t[Len(t)]
                     /\ \E d \in DOMAIN t : lv2.curr = t[d]
  <2>1. SUFFICES ASSUME Len(t) # 0
                 PROVE  /\ lv2.head = t[1] /\ lv2.tail = t[Len(t)]
                        /\ \E d \in DOMAIN t : lv2.curr = t[d]
    OBVIOUS
  <2>2. Len(s) > 1 /\ Len(s) # 1 /\ 1 \in 1 .. Len(s) - 1 /\ Len(s) - 1 \in 1 .. Len(s) - 1
    BY <1>2, <1>4, <2>1
  <2>3. lv.head = s[1] /\ lv.tail = s[Len(s)] /\ \E x \in DOMAIN s : lv.curr = s[x]
    BY <1>2 DEF Chain
  <2>4. lv2.head = t[1]
    <3>1. CASE c = 1
      <4>1. 1 >= c /\ 1 # Len(s) /\ c # Len(s)
        BY <2>2, <3>1
      <4>2. t[1] = s[1 + 1] /\ nodes[s[c]].next = s[1 + 1]
        BY <1>2, <1>3, <1>6, <2>2, <3>1, <4>1
      <4> QED BY <3>1, <4>2 DEF CutsOut
    <3>2. CASE c # 1
      <4>1. 1 < c
        BY <1>2, <3>2
      <4> QED BY <1>3, <2>2, <2>3, <3>2, <4>1 DEF CutsOut
    <3> QED BY <3>1, <3>2
  <2>5. lv2.tail = t[Len(s) - 1]
    <3>1. CASE c = Len(s)
      <4>1. Len(s) - 1 < c /\ c # 1
        BY <1>2, <2>2, <3>1
      <4>2. t[Len(s) - 1] = s[Len(s) - 1] /\ nodes[s[c]].prev = s[c - 1]
        BY <1>2, <1>3, <1>6, <2>2, <4>1
      <4>3. lv2.tail = nodes[s[c]].prev
        BY <3>1, <4>1 DEF CutsOut
      <4> QED BY <3>1, <4>2, <4>3
    <3>2. CASE c # Len(s)
      <4>1. Len(s) - 1 >= c /\ (Len(s) - 1) + 1 = Len(s)
        BY <1>2, <3>2
      <4>2. t[Len(s) - 1] = s[Len(s)]
        BY <1>3, <2>2, <4>1
      <4> QED BY <2>3, <3>2, <4>2 DEF CutsOut
    <3> QED BY <3>1, <3>2
  <2>6. \E d \in DOMAIN t : lv2.curr = t[d]
    <3>1. PICK x \in DOMAIN s : lv.curr = s[x]
      BY <2>3
    <3>2. c < x \/ (c = x /\ c = Len(s)) \/ c > x \/ (c = x /\ c # Len(s))
      <4>1. x \in 1 .. Len(s)
        BY <1>1
      <4> QED BY <1>2, <4>1
    <3> QED BY <2>2, <3>1, <3>2, CutTurn DEF t
  <2> QED BY <1>4, <2>4, <2>5, <2>6
<1>11. ASSUME NEW i \in 1 .. Len(s) - 1
       PROVE  /\ i = Len(t) => nodes2[t[i]].next = NULL
              /\ i # Len(t) => nodes2[t[i]].next = t[i + 1]
              /\ i = 1 => nodes2[t[i]].prev = NULL
              /\ i # 1 => nodes2[t[i]].prev = t[i - 1]
  <2>1. /\ i \in 1 .. Len(s) /\ i + 1 \in 1 .. Len(s) /\ i # Len(s)
        /\ i # Len(s) - 1 => i + 1 \in 1 .. Len(s) - 1 /\ i + 1 # Len(s)
        /\ i # 1 => i - 1 \in 1 .. Len(s) - 1
        /\ i = Len(s) - 1 => i + 1 = Len(s)
        /\ (i + 1) - 1 = i /\ (i - 1) + 1 = i
    BY <1>2
  <2>2. CASE i + 1 < c
    <3>1. i < c /\ i # c /\ i + 1 # c /\ i # c + 1 /\ i - 1 < c /\ i # Len(s) - 1
      BY <1>2, <2>2
    <3>2. /\ t[i] = s[i] /\ t[i + 1] = s[i + 1]
          /\ i # 1 => t[i - 1] = s[i - 1]
      BY <1>3, <2>1, <2>2, <3>1
    <3>3. nodes2[s[i]].next = nodes[s[i]].next /\ nodes2[s[i]].prev = nodes[s[i]].prev
      BY <1>7, <2>1, <3>1
    <3>4. /\ nodes[s[i]].next = s[i + 1]
          /\ i = 1 => nodes[s[i]].prev = NULL
          /\ i # 1 => nodes[s[i]].prev = s[i - 1]
      BY <1>6, <2>1
    <3> QED BY <1>4, <3>1, <3>2, <3>3, <3>4
  <2>3. CASE i + 1 = c
    <3>1. i < c /\ i # c /\ i # c + 1 /\ i - 1 < c /\ i + 1 >= c
      BY <1>2, <2>3
    <3>2. /\ t[i] = s[i]
          /\ i # Len(s) - 1 => t[i + 1] = s[(i + 1) + 1]
          /\ i # 1 => t[i - 1] = s[i - 1]
      BY <1>3, <2>1, <3>1
    <3>3. nodes2[s[i]].next = nodes[s[c]].next /\ nodes2[s[i]].prev = nodes[s[i]].prev
      BY <1>7, <2>1, <2>3, <3>1
    <3>4. /\ i = Len(s) - 1 => nodes[s[c]].next = NULL
          /\ i # Len(s) - 1 => nodes[s[c]].next = s[(i + 1) + 1]
          /\ i = 1 => nodes[s[i]].prev = NULL
          /\ i # 1 => nodes[s[i]].prev = s[i - 1]
      BY <1>6, <2>1, <2>3
    <3> QED BY <1>4, <3>2, <3>3, <3>4
  <2>4. CASE i + 1 > c
    <3>1. i >= c /\ i + 1 # c /\ (i + 1) + 1 # c /\ (i + 1 = c + 1 <=> i = c)
      BY <1>2, <2>4
    <3>2. t[i] = s[i + 1] /\ (i # Len(s) - 1 => t[i + 1] = s[(i + 1) + 1])
      <4>1. i + 1 >= c
        BY <1>2, <2>4
      <4> QED BY <1>3, <2>1, <3>1, <4>1
    <3>3. /\ nodes2[s[i + 1]].next = nodes[s[i + 1]].next
          /\ i = c => nodes2[s[i + 1]].prev = nodes[s[c]].prev
          /\ i # c => nodes2[s[i + 1]].prev = nodes[s[i + 1]].prev
      BY <1>7, <2>1, <3>1
    <3>4. /\ i = Len(s) - 1 => nodes[s[i + 1]].next = NULL
          /\ i # Len(s) - 1 => nodes[s[i + 1]].next = s[(i + 1) + 1]
      BY <1>6, <2>1
    <3>5. i = c => /\ i = 1 => nodes[s[c]].prev = NULL
                   /\ i # 1 => nodes[s[c]].prev = t[i - 1]
      <4>1. i = c => i - 1 < c
        BY <1>2
      <4> QED BY <1>3, <1>6, <2>1, <4>1
    <3>6. i # c => /\ i # 1
                   /\ nodes[s[i + 1]].prev = t[i - 1]
      <4>1. i # c => i # 1 /\ i - 1 >= c /\ i + 1 # 1
        BY <1>2, <3>1
      <4> QED BY <1>3, <1>6, <2>1, <4>1
    <3> QED BY <1>4, <3>2, <3>3, <3>4, <3>5, <3>6
  <2> QED BY <1>2, <2>2, <2>3, <2>4
<1> QED BY <1>3, <1>8, <1>9, <1>10, <1>11 DEF Chain, t
-----------------------------------------------------------------------------
(* The invariant                                                           *)

\* The list of a level.
List(l) == ListFrom(Walk(l))

ListsInv == \A l \in Level : Chain(node, levels[l], List(l))

\* A node in use has the ID of a process.
ProcessInv == \A a \in allocated : node[a].pid \in Pid

IInv == TypeOK /\ ListsInv /\ NodesOwned /\ ProcessInv

\* The nodes in use are those of the lists, and each is on one list only.
Holds(lists, nodes, lvs, used) ==
  /\ \A l \in Level : Chain(nodes, lvs[l], lists[l])
  /\ \A l, m \in Level : \A i \in DOMAIN lists[l], j \in DOMAIN lists[m] :
       lists[l][i] = lists[m][j] => l = m
  /\ \A a : a \in used <=> \E l \in Level : \E i \in DOMAIN lists[l] : lists[l][i] = a

\* What the invariant says of walks, lists and their nodes.
LEMMA ListFacts ==
  ASSUME IInv
  PROVE  /\ Holds([l \in Level |-> List(l)], node, levels, allocated)
         /\ \A l \in Level :
              /\ Chain(node, levels[l], List(l))
              /\ Len(List(l)) \in Nat /\ DOMAIN List(l) = 1 .. Len(List(l))
              /\ Len(List(l)) = Length(l)
              /\ Nodes(l) = {List(l)[i] : i \in DOMAIN List(l)}
              /\ \A i \in DOMAIN List(l) : List(l)[i] \in Addr /\ List(l)[i] \in allocated
<1>1. ASSUME NEW l \in Level
      PROVE  /\ Chain(node, levels[l], List(l))
             /\ Len(List(l)) \in Nat /\ DOMAIN List(l) = 1 .. Len(List(l))
             /\ List(l) \in [1 .. Len(List(l)) -> Addr]
             /\ Len(List(l)) = Length(l)
             /\ Nodes(l) = {List(l)[i] : i \in DOMAIN List(l)}
  <2>1. Chain(node, levels[l], List(l))
    BY DEF IInv, ListsInv
  <2>2. LengthFrom(Walk(l)) = Length(l)
    BY DEF LengthFrom, Length
  <2>3. Nodes(l) = {Walk(l)[k] : k \in 0 .. LengthFrom(Walk(l)) - 1}
    BY <2>2 DEF Nodes
  <2> QED BY <2>1, <2>2, <2>3, ChainType, ChainList DEF Walk
<1>2. allocated = UNION {Nodes(l) : l \in Level} /\ \A l, m \in Level : l # m => Nodes(l) \cap Nodes(m) = {}
  BY DEF IInv, NodesOwned
<1>3. \A a : a \in allocated <=> \E l \in Level : \E i \in DOMAIN List(l) : List(l)[i] = a
  BY <1>1, <1>2
<1>4. \A l, m \in Level : \A i \in DOMAIN List(l), j \in DOMAIN List(m) :
        List(l)[i] = List(m)[j] => l = m
  <2>1. \A l \in Level : \A i \in DOMAIN List(l) : List(l)[i] \in Nodes(l)
    BY <1>1
  <2> QED BY <1>2, <2>1
<1> QED BY <1>1, <1>3, <1>4 DEF Holds

\* Lists that hold after a step are the lists the walks then meet.
LEMMA ListsNext ==
  ASSUME NEW lists, Holds(lists, node', levels', allocated')
  PROVE  /\ \A l \in Level : /\ List(l)' = lists[l] /\ Length(l)' = Len(lists[l])
                             /\ Nodes(l)' = {lists[l][i] : i \in DOMAIN lists[l]}
         /\ ListsInv' /\ NodesOwned'
<1>1. ASSUME NEW l \in Level
      PROVE  /\ Chain(node', levels'[l], lists[l])
             /\ List(l)' = lists[l]
             /\ Length(l)' = Len(lists[l])
             /\ Nodes(l)' = {lists[l][i] : i \in DOMAIN lists[l]}
  <2> DEFINE w == WalkFrom(levels'[l].head, node')
  <2>1. Chain(node', levels'[l], lists[l])
    BY DEF Holds
  <2>2. Walk(l)' = w /\ List(l)' = ListFrom(w)
    BY DEF List, Walk
  <2>3. Length(l)' = LengthFrom(w)
    BY <2>2 DEF LengthFrom, Length
  <2>4. Nodes(l)' = {w[k] : k \in 0 .. LengthFrom(w) - 1}
    BY <2>2, <2>3 DEF Nodes
  <2> QED BY <2>1, <2>2, <2>3, <2>4, ChainList
<1>2. ListsInv'
  BY <1>1 DEF ListsInv
<1>3. NodesOwned'
  <2>1. \A l, m \in Level : l # m => Nodes(l)' \cap Nodes(m)' = {}
    BY <1>1 DEF Holds
  <2>2. \A a : a \in allocated' <=> \E l \in Level : a \in Nodes(l)'
    BY <1>1 DEF Holds
  <2>3. allocated' = UNION {Nodes(l)' : l \in Level}
    BY <2>2
  <2> QED BY <2>1, <2>3 DEF NodesOwned
<1> QED BY <1>1, <1>2, <1>3

\* What a place of a walk says of the list.
LEMMA WalkPlace ==
  ASSUME IInv, NEW l \in Level, NEW k \in Steps, Walk(l)[k] # NULL
  PROVE  k \in Nat /\ k + 1 \in DOMAIN List(l) /\ List(l)[k + 1] = Walk(l)[k]
<1>1. Chain(node, levels[l], List(l))
  BY DEF IInv, ListsInv
<1>2. /\ k < Len(List(l)) => Walk(l)[k] = List(l)[k + 1]
      /\ k >= Len(List(l)) => Walk(l)[k] = NULL
  BY <1>1, ChainWalk DEF Walk
<1>3. Len(List(l)) \in Nat /\ k \in Nat /\ DOMAIN List(l) = 1 .. Len(List(l))
  BY <1>1, ChainType, ConstantFacts
<1>4. Len(List(l)) \in Nat /\ k \in Nat
  BY <1>3
<1>5. k < Len(List(l))
  BY <1>2, <1>4
<1>6. k + 1 \in 1 .. Len(List(l))
  BY <1>4, <1>5
<1> QED BY <1>2, <1>3, <1>5, <1>6
-----------------------------------------------------------------------------
(* The steps                                                               *)

Node     == [pid : Pid \cup {0}, quanta : 0 .. kLevels, next : Ptr, prev : Ptr]
Pointers == [curr : Ptr, head : Ptr, tail : Ptr]

\* addProcess appends a node to the list of its level.
LEMMA AddStep ==
  ASSUME IInv, NEW p \in Pid, NEW priority \in 1 .. kLevels, NEW n \in Addr,
         addProcess(p, priority, n)
  PROVE  /\ priority - 1 \in Level
         /\ Holds([m \in Level |-> IF m = priority - 1 THEN Append(List(m), n) ELSE List(m)],
                  node', levels', allocated')
         /\ \A m \in Level : levels[m].head # NULL => levels'[m].curr = levels[m].curr
         /\ levels[priority - 1].head = NULL => levels'[priority - 1].curr = n
         /\ node'[n].pid = p /\ node'[n].quanta = priority_translation[priority - 1]
         /\ \A a \in allocated : node'[a].pid = node[a].pid /\ node'[a].quanta = node[a].quanta
         /\ TypeOK'
<1> DEFINE l == priority - 1
           s == List(l)
           lists == [m \in Level |-> IF m = l THEN Append(s, n) ELSE List(m)]
           new == [pid |-> p, quanta |-> priority_translation[l], next |-> NULL,
                   prev |-> IF levels[l].head = NULL THEN NULL ELSE levels[l].tail]
<1>1. l \in Level /\ n \notin allocated /\ allocated' = allocated \cup {n} /\ kLevels - l \in 0 .. kLevels
  BY ConstantFacts DEF addProcess, Level
<1>2. /\ Chain(node, levels[l], s) /\ Len(s) \in Nat /\ DOMAIN s = 1 .. Len(s)
      /\ \A i \in DOMAIN s : s[i] \in Addr /\ s[i] \in allocated
  BY <1>1, ListFacts
<1>3. Len(s) \in Nat
  BY <1>2
<1>4. /\ levels[l].head = NULL <=> Len(s) = 0
      /\ Len(s) # 0 => levels[l].tail = s[Len(s)] /\ Len(s) \in DOMAIN s
  <2>1. Len(s) # 0 => 1 \in DOMAIN s /\ Len(s) \in DOMAIN s
    BY <1>2, <1>3
  <2> QED BY <1>2, <2>1, ConstantFacts DEF Chain
<1>5. /\ node \in [Addr -> Node] /\ levels \in [Level -> Pointers]
      /\ levels[l].head # NULL => levels[l].tail \in Addr /\ levels[l].tail # n
  BY <1>1, <1>2, <1>4 DEF IInv, TypeOK, Node, Pointers
<1>6. new \in Node /\ new.next = NULL /\ new.pid = p /\ new.quanta = priority_translation[l]
      /\ (levels[l].head = NULL => new.prev = NULL) /\ (levels[l].head # NULL => new.prev = levels[l].tail)
  BY <1>1, <1>5 DEF Node, Ptr, Pointers, priority_translation
<1> HIDE DEF s
<1>7. /\ levels[l].head = NULL =>
           /\ node' = [node EXCEPT ![n] = new]
           /\ levels' = [levels EXCEPT ![l] = [curr |-> n, head |-> n, tail |-> n]]
      /\ levels[l].head # NULL =>
           /\ node' = [node EXCEPT ![levels[l].tail].next = n, ![n] = new]
           /\ levels' = [levels EXCEPT ![l].tail = n]
  BY DEF addProcess
<1> HIDE DEF new, l
<1>8. node' \in [Addr -> Node] /\ node'[n] = new
  BY <1>5, <1>6, <1>7 DEF Node, Ptr
<1>8a. ASSUME NEW a \in Addr, a # n
       PROVE  /\ node'[a].prev = node[a].prev /\ node'[a].pid = node[a].pid /\ node'[a].quanta = node[a].quanta
              /\ levels[l].head = NULL \/ a # levels[l].tail => node'[a] = node[a]
  <2>1. CASE levels[l].head = NULL
    BY <1>5, <1>7, <1>8a, <2>1
  <2>2. CASE levels[l].head # NULL
    <3>1. node' = [node EXCEPT ![levels[l].tail].next = n, ![n] = new]
      BY <1>7, <2>2
    <3> QED BY <1>5, <1>8a, <2>2, <3>1 DEF Node
  <2> QED BY <2>1, <2>2
<1>8b. levels[l].head # NULL => node'[levels[l].tail].next = n
  BY <1>5, <1>7 DEF Node
<1>9. /\ levels'[l].tail = n
      /\ levels[l].head = NULL => levels'[l].head = n /\ levels'[l].curr = n
      /\ levels[l].head # NULL => levels'[l].head = levels[l].head /\ levels'[l].curr = levels[l].curr
      /\ \A m \in Level : m # l => levels'[m] = levels[m]
      /\ levels' \in [Level -> Pointers]
  <2>1. CASE levels[l].head = NULL
    BY <1>1, <1>5, <1>7, <2>1 DEF Pointers, Ptr
  <2>2. CASE levels[l].head # NULL
    BY <1>1, <1>5, <1>7, <2>2 DEF Pointers, Ptr
  <2> QED BY <2>1, <2>2
<1>10. Chain(node', levels'[l], Append(s, n))
  <2>1. \A i \in DOMAIN s : s[i] # n /\ s[i] \in Addr
    BY <1>1, <1>2
  <2>2. \A i \in DOMAIN s : i # Len(s) => s[i] # levels[l].tail
    BY <1>2, <1>4, <1>3 DEF Chain
  <2>3. \A i \in DOMAIN s : /\ node'[s[i]].prev = node[s[i]].prev
                            /\ i # Len(s) => node'[s[i]].next = node[s[i]].next
    BY <1>8a, <2>1, <2>2
  <2> QED BY <1>2, <1>4, <1>6, <1>8, <1>9, <1>8b, <2>1, <2>3, ChainAppend
<1>11. \A m \in Level : m # l => Chain(node', levels'[m], List(m))
  <2>1. ASSUME NEW m \in Level, m # l
        PROVE  Chain(node', levels'[m], List(m))
    <3>1. \A i \in DOMAIN List(m) : List(m)[i] # n /\ List(m)[i] \in Addr
      BY <1>1, ListFacts
    <3>2. levels[l].head # NULL => \A i \in DOMAIN List(m) : List(m)[i] # levels[l].tail
      <4>1. \A i \in DOMAIN List(m), j \in DOMAIN List(l) : List(m)[i] # List(l)[j]
        BY <1>1, <2>1, ListFacts DEF Holds
      <4> QED BY <1>4, <4>1 DEF s
    <3>3. \A i \in DOMAIN List(m) : node'[List(m)[i]] = node[List(m)[i]]
      BY <1>8a, <3>1, <3>2
    <3> QED BY <1>9, <2>1, <3>3, ChainSame, ListFacts
  <2> QED BY <2>1
<1>12. Holds(lists, node', levels', allocated')
  <2>1. \A m \in Level : Chain(node', levels'[m], lists[m])
    BY <1>10, <1>11 DEF lists
  <2>2. {Append(s, n)[i] : i \in DOMAIN Append(s, n)} = {s[i] : i \in DOMAIN s} \cup {n}
    <3>1. s \in Seq(Addr)
      BY <1>2, ChainType
    <3>2. /\ Append(s, n) \in Seq(Addr) /\ Len(Append(s, n)) = Len(s) + 1
          /\ Append(s, n)[Len(s) + 1] = n /\ \A i \in 1 .. Len(s) : Append(s, n)[i] = s[i]
      BY <3>1, AppendProperties
    <3>3. DOMAIN Append(s, n) = 1 .. Len(s) + 1
      BY <3>2, LenProperties
    <3>4. \A i \in 1 .. Len(s) + 1 : i \in 1 .. Len(s) \/ i = Len(s) + 1
      BY <1>3
    <3>5. \A i \in 1 .. Len(s) : i \in 1 .. Len(s) + 1
      BY <1>3
    <3>6. Len(s) + 1 \in 1 .. Len(s) + 1
      BY <1>3
    <3> DEFINE t == Append(s, n)
    <3>7. /\ \A i \in DOMAIN t : t[i] = n \/ \E j \in DOMAIN s : t[i] = s[j]
          /\ \E i \in DOMAIN t : t[i] = n
          /\ \A j \in DOMAIN s : \E i \in DOMAIN t : t[i] = s[j]
      BY <1>2, <3>2, <3>3, <3>4, <3>5, <3>6
    <3> HIDE DEF t
    <3>8. {t[i] : i \in DOMAIN t} = {s[i] : i \in DOMAIN s} \cup {n}
      BY <3>7
    <3> QED BY <3>8 DEF t
  <2> DEFINE On(m) == {List(m)[i] : i \in DOMAIN List(m)}
             Now(m) == {lists[m][i] : i \in DOMAIN lists[m]}
  <2>3. \A m \in Level : (m = l => Now(m) = On(m) \cup {n}) /\ (m # l => Now(m) = On(m))
    BY <2>2 DEF s
  <2>4. /\ \A m, o \in Level : \A a \in On(m) : a \in On(o) => m = o
        /\ \A a : a \in allocated <=> \E m \in Level : a \in On(m)
    BY ListFacts DEF Holds
  <2>5. \A m \in Level : \A i \in DOMAIN lists[m] : lists[m][i] \in Now(m)
    OBVIOUS
  <2>6. \A m \in Level : \A a \in Now(m) : \E i \in DOMAIN lists[m] : lists[m][i] = a
    OBVIOUS
  <2> HIDE DEF On, Now, lists
  <2>7. /\ \A m, o \in Level : \A a \in Now(m) : a \in Now(o) => m = o
        /\ \A a : a \in allocated' <=> \E m \in Level : a \in Now(m)
    BY <1>1, <2>3, <2>4
  <2> QED BY <2>1, <2>5, <2>6, <2>7 DEF Holds
<1>13. TypeOK'
  <2>1. UNCHANGED <<current, pid, time, undefined>>
    BY DEF addProcess
  <2> QED BY <1>1, <1>8, <1>9, <2>1 DEF IInv, TypeOK, Node, Pointers
<1>14. \A a \in allocated : node'[a].pid = node[a].pid /\ node'[a].quanta = node[a].quanta
  BY <1>1, <1>8a DEF IInv, TypeOK
<1> QED BY <1>1, <1>6, <1>8, <1>9, <1>12, <1>13, <1>14 DEF l, s

\* What the three ways to unlink a node have in common: its neighbours take
\* each other's pointers over, and a pointer of the level to it moves on.
LEMMA Unlinks ==
  ASSUME TypeOK, NEW l \in Level, NEW n \in Addr,
         UnlinkHead(l, n) \/ UnlinkTail(l, n) \/ UnlinkMiddle(l, n)
  PROVE  /\ node' \in [Addr -> Node] /\ levels' \in [Level -> Pointers]
         /\ \A a \in Addr : a # n =>
              /\ a = node[n].prev => node'[a].next = node[n].next
              /\ a # node[n].prev => node'[a].next = node[a].next
              /\ a = node[n].next => node'[a].prev = node[n].prev
              /\ a # node[n].next => node'[a].prev = node[a].prev
              /\ a # node[n].prev /\ a # node[n].next => node'[a] = node[a]
              /\ node'[a].pid = node[a].pid /\ node'[a].quanta = node[a].quanta
         /\ \A m \in Level : m # l => levels'[m] = levels[m]
         /\ node[n].prev = NULL => levels'[l].head = node[n].next
         /\ node[n].prev # NULL => levels'[l].head = levels[l].head
         /\ node[n].prev # NULL /\ node[n].next = NULL => levels'[l].tail = node[n].prev
         /\ node[n].prev = NULL \/ node[n].next # NULL => levels'[l].tail = levels[l].tail
         /\ levels[l].curr # n => levels'[l].curr = levels[l].curr
         /\ levels[l].curr = n =>
              /\ node[n].prev # NULL /\ node[n].next = NULL => levels'[l].curr = levels[l].head
              /\ node[n].prev = NULL \/ node[n].next # NULL => levels'[l].curr = node[n].next
<1> DEFINE pv == node[n].prev
           nx == node[n].next
<1>1. /\ node \in [Addr -> Node] /\ levels \in [Level -> Pointers] /\ pv \in Ptr /\ nx \in Ptr
      /\ Blank \in Node
  <2>1. 0 \in 0 .. kLevels
    BY ConstantFacts
  <2> QED BY <2>1 DEF TypeOK, Node, Pointers, Blank, Ptr
<1>2. NULL \notin Addr
  BY SchedulerAssumption
<1>3. \/ /\ pv = NULL /\ nx = NULL
         /\ node' = [node EXCEPT ![n] = Blank]
         /\ levels' = [levels EXCEPT ![l].head = nx, ![l].curr = IF @ = n THEN nx ELSE @]
      \/ /\ pv = NULL /\ nx # NULL
         /\ node' = [node EXCEPT ![nx].prev = NULL, ![n] = Blank]
         /\ levels' = [levels EXCEPT ![l].head = nx, ![l].curr = IF @ = n THEN nx ELSE @]
      \/ /\ pv # NULL /\ nx = NULL
         /\ node' = [node EXCEPT ![pv].next = NULL, ![n] = Blank]
         /\ levels' = [levels EXCEPT ![l].tail = pv, ![l].curr = IF @ = n THEN levels[l].head ELSE @]
      \/ /\ pv # NULL /\ nx # NULL
         /\ node' = [node EXCEPT ![nx].prev = pv, ![pv].next = nx, ![n] = Blank]
         /\ levels' = [levels EXCEPT ![l].curr = IF @ = n THEN nx ELSE @]
  BY DEF UnlinkHead, UnlinkTail, UnlinkMiddle
<1> HIDE DEF pv, nx
<1>4. node' \in [Addr -> Node] /\ levels' \in [Level -> Pointers]
  <2>1. node' \in [Addr -> Node]
    BY <1>1, <1>2, <1>3 DEF Node, Ptr
  <2>2. levels' \in [Level -> Pointers]
    BY <1>1, <1>3 DEF Pointers, Ptr
  <2> QED BY <2>1, <2>2
<1>5. ASSUME NEW a \in Addr, a # n
      PROVE  /\ a = pv => node'[a].next = nx
             /\ a # pv => node'[a].next = node[a].next
             /\ a = nx => node'[a].prev = pv
             /\ a # nx => node'[a].prev = node[a].prev
             /\ a # pv /\ a # nx => node'[a] = node[a]
             /\ node'[a].pid = node[a].pid /\ node'[a].quanta = node[a].quanta
  <2>1. CASE pv = NULL /\ nx = NULL
    BY <1>1, <1>2, <1>3, <1>5, <2>1 DEF Node, Ptr
  <2>2. CASE pv = NULL /\ nx # NULL
    BY <1>1, <1>2, <1>3, <1>5, <2>2 DEF Node, Ptr
  <2>3. CASE pv # NULL /\ nx = NULL
    BY <1>1, <1>2, <1>3, <1>5, <2>3 DEF Node, Ptr
  <2>4. CASE pv # NULL /\ nx # NULL
    BY <1>1, <1>2, <1>3, <1>5, <2>4 DEF Node, Ptr
  <2> QED BY <2>1, <2>2, <2>3, <2>4
<1>6. /\ \A m \in Level : m # l => levels'[m] = levels[m]
      /\ pv = NULL => levels'[l].head = nx
      /\ pv # NULL => levels'[l].head = levels[l].head
      /\ pv # NULL /\ nx = NULL => levels'[l].tail = pv
      /\ pv = NULL \/ nx # NULL => levels'[l].tail = levels[l].tail
      /\ levels[l].curr # n => levels'[l].curr = levels[l].curr
      /\ levels[l].curr = n =>
           /\ pv # NULL /\ nx = NULL => levels'[l].curr = levels[l].head
           /\ pv = NULL \/ nx # NULL => levels'[l].curr = nx
  <2>1. CASE pv = NULL
    BY <1>1, <1>3, <2>1 DEF Pointers
  <2>2. CASE pv # NULL /\ nx = NULL
    BY <1>1, <1>3, <2>2 DEF Pointers
  <2>3. CASE pv # NULL /\ nx # NULL
    BY <1>1, <1>3, <2>3 DEF Pointers
  <2> QED BY <2>1, <2>2, <2>3
<1> QED BY <1>4, <1>5, <1>6 DEF pv, nx

\* removeProcess takes the node out of the list it is on.
LEMMA RemoveStep ==
  ASSUME IInv, NEW l \in Level, NEW k \in Steps, NEW n, n = Walk(l)[k], n # NULL,
         UnlinkHead(l, n) \/ UnlinkTail(l, n) \/ UnlinkMiddle(l, n), free(n),
         UNCHANGED <<current, pid, time, undefined>>
  PROVE  /\ k + 1 \in DOMAIN List(l) /\ List(l)[k + 1] = n
         /\ CutsOut(node, levels[l], List(l), k + 1, node', levels'[l])
         /\ Holds([m \in Level |-> IF m = l THEN Cut(List(l), k + 1) ELSE List(m)],
                  node', levels', allocated')
         /\ \A m \in Level : m # l => levels'[m] = levels[m]
         /\ \A a \in allocated' : node'[a].pid = node[a].pid /\ node'[a].quanta = node[a].quanta
         /\ TypeOK'
<1> DEFINE s == List(l)
           c == k + 1
           lists == [m \in Level |-> IF m = l THEN Cut(s, c) ELSE List(m)]
<1>1. c \in DOMAIN s /\ s[c] = n
  BY WalkPlace
<1>2. /\ Chain(node, levels[l], s) /\ Len(s) \in Nat /\ DOMAIN s = 1 .. Len(s)
      /\ \A i \in DOMAIN s : s[i] \in Addr
  BY ListFacts
<1>3. Len(s) \in Nat /\ c \in 1 .. Len(s)
  BY <1>1, <1>2
<1>4. n \in Addr
  BY <1>1, <1>2
<1> HIDE DEF s, c
<1>5. /\ node[n].prev = NULL <=> c = 1
      /\ node[n].next = NULL <=> c = Len(s)
      /\ c # 1 => c - 1 \in DOMAIN s /\ node[n].prev = s[c - 1]
      /\ c # Len(s) => c + 1 \in DOMAIN s /\ node[n].next = s[c + 1]
  <2>1. (c # 1 => c - 1 \in 1 .. Len(s)) /\ (c # Len(s) => c + 1 \in 1 .. Len(s))
    BY <1>3
  <2>2. (c # 1 => c - 1 \in DOMAIN s) /\ (c # Len(s) => c + 1 \in DOMAIN s)
    BY <1>2, <2>1
  <2>3. \A i \in DOMAIN s : s[i] # NULL
    BY <1>2, ConstantFacts
  <2> QED BY <1>1, <1>2, <2>2, <2>3 DEF Chain
<1>6. \A i \in DOMAIN s \ {c} :
        /\ s[i] # n /\ s[i] \in Addr
        /\ (s[i] = node[n].prev <=> i + 1 = c) /\ (s[i] = node[n].next <=> i = c + 1)
  <2>1. ASSUME NEW i \in DOMAIN s, i # c
        PROVE  (s[i] = node[n].prev <=> i + 1 = c) /\ (s[i] = node[n].next <=> i = c + 1)
    <3>1. i \in 1 .. Len(s) /\ s[i] # NULL
      BY <1>2, ConstantFacts
    <3>2. c # 1 => (s[i] = s[c - 1] <=> i = c - 1)
      BY <1>2, <1>5 DEF Chain
    <3>3. c # Len(s) => (s[i] = s[c + 1] <=> i = c + 1)
      BY <1>2, <1>5 DEF Chain
    <3>4. (i = c - 1 <=> i + 1 = c) /\ (c = 1 => i + 1 # c) /\ (c = Len(s) => i # c + 1)
      BY <1>3, <3>1
    <3> QED BY <1>5, <3>1, <3>2, <3>3, <3>4
  <2> QED BY <1>1, <1>2, <2>1 DEF Chain
<1>7. TypeOK
  BY DEF IInv
<1>8. CutsOut(node, levels[l], s, c, node', levels'[l])
  <2>1. /\ c = 1 => levels'[l].head = node[n].next
        /\ c # 1 => levels'[l].head = levels[l].head
        /\ c = Len(s) /\ c # 1 => levels'[l].tail = node[n].prev
        /\ c # Len(s) => levels'[l].tail = levels[l].tail
        /\ levels[l].curr # n => levels'[l].curr = levels[l].curr
        /\ levels[l].curr = n /\ (c # Len(s) \/ c = 1) => levels'[l].curr = node[n].next
        /\ levels[l].curr = n /\ c = Len(s) /\ c # 1 => levels'[l].curr = levels[l].head
    BY <1>4, <1>5, <1>7, Unlinks
  <2>2. ASSUME NEW i \in DOMAIN s \ {c}
        PROVE  /\ i + 1 = c => node'[s[i]].next = node[n].next
               /\ i + 1 # c => node'[s[i]].next = node[s[i]].next
               /\ i = c + 1 => node'[s[i]].prev = node[n].prev
               /\ i # c + 1 => node'[s[i]].prev = node[s[i]].prev
    BY <1>4, <1>6, <1>7, Unlinks
  <2> QED BY <1>1, <2>1, <2>2 DEF CutsOut
<1>9. \A m \in Level : m # l => levels'[m] = levels[m] /\ Chain(node', levels'[m], List(m))
  <2>1. ASSUME NEW m \in Level, m # l
        PROVE  levels'[m] = levels[m] /\ Chain(node', levels'[m], List(m))
    <3>1. levels'[m] = levels[m]
      BY <1>4, <1>7, <2>1, Unlinks
    <3>2. \A i \in DOMAIN List(m), j \in DOMAIN s : List(m)[i] # s[j] /\ List(m)[i] \in Addr
      BY <2>1, ListFacts DEF Holds, s
    <3>3. ASSUME NEW i \in DOMAIN List(m)
          PROVE  node'[List(m)[i]] = node[List(m)[i]]
      <4>1. /\ List(m)[i] \in Addr /\ List(m)[i] # n /\ List(m)[i] # NULL
            /\ List(m)[i] # node[n].prev /\ List(m)[i] # node[n].next
        BY <1>1, <1>5, <3>2, ConstantFacts
      <4> QED BY <1>4, <1>7, <4>1, Unlinks
    <3> QED BY <2>1, <3>1, <3>3, ChainSame, ListFacts
  <2> QED BY <2>1
<1>10. Holds(lists, node', levels', allocated')
  <2>1. \A m \in Level : Chain(node', levels'[m], lists[m])
    BY <1>1, <1>2, <1>8, <1>9, ChainCut DEF lists
  <2> DEFINE On(m) == {List(m)[i] : i \in DOMAIN List(m)}
             Now(m) == {lists[m][i] : i \in DOMAIN lists[m]}
  <2>2. \A m \in Level : (m = l => Now(m) = On(m) \ {n}) /\ (m # l => Now(m) = On(m))
    <3>1. s \in Seq(Addr)
      BY <1>2, ChainType
    <3>2. {Cut(s, c)[i] : i \in DOMAIN Cut(s, c)} = {s[i] : i \in DOMAIN s \ {c}}
      BY <1>1, <3>1, CutFacts
    <3>3. {s[i] : i \in DOMAIN s \ {c}} = {s[i] : i \in DOMAIN s} \ {n}
      BY <1>1, <1>2 DEF Chain
    <3> QED BY <3>2, <3>3 DEF s
  <2>3. /\ \A m, o \in Level : \A a \in On(m) : a \in On(o) => m = o
        /\ \A a : a \in allocated <=> \E m \in Level : a \in On(m)
        /\ n \in On(l)
    BY <1>1, ListFacts DEF Holds, s
  <2>4. \A m \in Level : \A i \in DOMAIN lists[m] : lists[m][i] \in Now(m)
    OBVIOUS
  <2>5. \A m \in Level : \A a \in Now(m) : \E i \in DOMAIN lists[m] : lists[m][i] = a
    OBVIOUS
  <2>6. allocated' = allocated \ {n}
    BY DEF free
  <2> HIDE DEF On, Now, lists
  <2>7. /\ \A m, o \in Level : \A a \in Now(m) : a \in Now(o) => m = o
        /\ \A a : a \in allocated' <=> \E m \in Level : a \in Now(m)
    BY <2>2, <2>3, <2>6
  <2> QED BY <2>1, <2>4, <2>5, <2>7 DEF Holds
<1>11. TypeOK'
  BY <1>4, <1>7, Unlinks DEF TypeOK, Node, Pointers, free
<1>12. \A a \in allocated' : node'[a].pid = node[a].pid /\ node'[a].quanta = node[a].quanta
  BY <1>4, <1>7, Unlinks DEF TypeOK, free
<1> QED BY <1>1, <1>8, <1>9, <1>10, <1>11, <1>12 DEF s, c

\* nextProcess takes the process in turn of a level, whose mark moves on by one
\* and from the last to the first.
LEMMA TakeStep ==
  ASSUME IInv, NEW l \in Serving, Take(l, levels[l].curr), UNCHANGED <<node, allocated, undefined>>
  PROVE  /\ l \in Level /\ current <= l
         /\ \E c \in DOMAIN List(l) :
              /\ levels[l].curr = List(l)[c] /\ pid' = node[List(l)[c]].pid /\ time' = node[List(l)[c]].quanta
              /\ c = Len(List(l)) => 1 \in DOMAIN List(l) /\ levels'[l].curr = List(l)[1]
              /\ c # Len(List(l)) => c + 1 \in DOMAIN List(l) /\ levels'[l].curr = List(l)[c + 1]
         /\ \A m \in Level : m # l => levels'[m] = levels[m]
         /\ \A m \in Level : m < l /\ current <= m => Len(List(m)) = 0
         /\ Holds([m \in Level |-> List(m)], node', levels', allocated')
         /\ current' \in Level
         /\ l + 1 = kLevels => current' = 0
         /\ l + 1 # kLevels => current' = l + 1
         /\ TypeOK'
<1> DEFINE s == List(l)
           n == levels[l].curr
<1>1. current \in 0 .. kLevels - 1 /\ kLevels \in Nat /\ l \in current .. kLevels - 1 /\ n # NULL
  BY ConstantFacts DEF IInv, TypeOK, Level, Serving
<1>2. l \in Level /\ l \in Int /\ current <= l /\ l < kLevels
  BY <1>1 DEF Level
<1>3. /\ Chain(node, levels[l], s) /\ Len(s) \in Nat /\ DOMAIN s = 1 .. Len(s)
      /\ \A i \in DOMAIN s : s[i] \in Addr /\ s[i] \in allocated
  BY <1>2, ListFacts
<1>4. Len(s) \in Nat /\ Len(s) # 0
  BY <1>1, <1>3 DEF Chain
<1>5. PICK c \in DOMAIN s : n = s[c]
  BY <1>3, <1>4 DEF Chain
<1>6. /\ node \in [Addr -> Node] /\ levels \in [Level -> Pointers] /\ n \in Addr
      /\ node[n].next \in Ptr /\ levels[l].head \in Ptr
  BY <1>2, <1>3, <1>5 DEF IInv, TypeOK, Node, Pointers
<1> HIDE DEF s
<1>7. /\ pid' = node[n].pid /\ time' = node[n].quanta
      /\ levels' = [levels EXCEPT ![l].curr = IF node[n].next = NULL THEN levels[l].head ELSE node[n].next]
      /\ current' = IF l + 1 >= kLevels THEN 0 ELSE l + 1
  BY DEF Take
<1>8. /\ c = Len(s) => 1 \in DOMAIN s /\ levels[l].head = s[1] /\ node[n].next = NULL
      /\ c # Len(s) => c + 1 \in DOMAIN s /\ node[n].next = s[c + 1] /\ node[n].next # NULL
  <2>1. c \in 1 .. Len(s) /\ 1 \in 1 .. Len(s)
    BY <1>3, <1>4
  <2>2. c # Len(s) => c + 1 \in 1 .. Len(s)
    BY <1>4, <2>1
  <2>3. 1 \in DOMAIN s /\ (c # Len(s) => c + 1 \in DOMAIN s /\ s[c + 1] # NULL)
    BY <1>3, <2>1, <2>2, ConstantFacts
  <2> QED BY <1>3, <1>4, <1>5, <2>3 DEF Chain
<1> HIDE DEF n
<1>9. /\ levels' \in [Level -> Pointers]
      /\ \A m \in Level : m # l => levels'[m] = levels[m]
      /\ levels'[l].head = levels[l].head /\ levels'[l].tail = levels[l].tail
      /\ levels'[l].curr = IF node[n].next = NULL THEN levels[l].head ELSE node[n].next
  BY <1>2, <1>6, <1>7 DEF Pointers
<1>10. \E d \in DOMAIN s : levels'[l].curr = s[d]
  BY <1>8, <1>9
<1>11. Holds([m \in Level |-> List(m)], node', levels', allocated')
  <2>1. Chain(node, levels'[l], s)
    BY <1>3, <1>9, <1>10, ChainMark
  <2>2. \A m \in Level : Chain(node, levels'[m], List(m))
    BY <1>9, <2>1, ListFacts DEF s
  <2>3. Holds([m \in Level |-> List(m)], node, levels, allocated)
    BY ListFacts
  <2> QED BY <2>2, <2>3 DEF Holds
<1>12. /\ current' \in Level
       /\ l + 1 = kLevels => current' = 0
       /\ l + 1 # kLevels => current' = l + 1
  BY <1>1, <1>2, <1>7 DEF Level
<1>13. TypeOK'
  <2>1. pid' \in Pid /\ time' \in 0 .. kLevels
    BY <1>3, <1>5, <1>6, <1>7 DEF IInv, ProcessInv, Node
  <2> QED BY <1>9, <1>12, <2>1 DEF IInv, TypeOK, Pointers
<1>14. ASSUME NEW m \in Level, m < l, current <= m
       PROVE  Len(List(m)) = 0
  <2>1. m \in current .. l - 1
    BY <1>1, <1>2, <1>14 DEF Level
  <2>2. levels[m].curr = NULL
    BY <2>1 DEF Serving
  <2>3. Chain(node, levels[m], List(m)) /\ \A i \in DOMAIN List(m) : List(m)[i] # NULL
    BY ListFacts, ConstantFacts
  <2> QED BY <2>2, <2>3 DEF Chain
<1> QED BY <1>2, <1>5, <1>7, <1>8, <1>9, <1>11, <1>12, <1>13, <1>14 DEF s, n

LEMMA IInvInit == init => IInv
<1> SUFFICES ASSUME init PROVE IInv
  OBVIOUS
<1>1. Chain(node, [curr |-> NULL, head |-> NULL, tail |-> NULL], <<>>)
  BY DEF Chain
<1>2. \A l \in Level : Walk(l) = WalkFrom(NULL, node) /\ levels[l] = [curr |-> NULL, head |-> NULL, tail |-> NULL]
  BY DEF init, Walk
<1>3. LengthFrom(WalkFrom(NULL, node)) = 0 /\ ListFrom(WalkFrom(NULL, node)) = <<>>
  <2>1. Len(<<>>) = 0
    OBVIOUS
  <2> QED BY <1>1, <2>1, ChainList
<1>4. ListsInv
  BY <1>1, <1>2, <1>3 DEF ListsInv, List
<1>5. \A l \in Level : Nodes(l) = {}
  <2>1. \A l \in Level : Length(l) = 0
    BY <1>2, <1>3 DEF Length, LengthFrom
  <2>2. 0 .. 0 - 1 = {}
    OBVIOUS
  <2> QED BY <2>1, <2>2 DEF Nodes
<1>6. NodesOwned
  BY <1>5 DEF NodesOwned, init
<1>7. TypeOK
  <2>1. 0 \in 0 .. kLevels
    BY ConstantFacts
  <2> QED BY <2>1, ConstantFacts DEF TypeOK, init, Blank, Ptr
<1>8. ProcessInv
  BY DEF ProcessInv, init
<1> QED BY <1>4, <1>6, <1>7, <1>8 DEF IInv

LEMMA IInvStep == IInv /\ [Next]_vars => IInv'
<1> SUFFICES ASSUME IInv, [Next]_vars PROVE IInv'
  OBVIOUS
<1>1. ASSUME NEW lists, Holds(lists, node', levels', allocated'), TypeOK',
             \A a \in allocated' : node'[a].pid \in Pid
      PROVE  IInv'
  BY <1>1, ListsNext DEF IInv, ProcessInv
<1>2. CASE UNCHANGED vars
  <2>1. Holds([m \in Level |-> List(m)], node', levels', allocated')
    BY <1>2, ListFacts DEF vars
  <2>2. TypeOK' /\ \A a \in allocated' : node'[a].pid \in Pid
    BY <1>2 DEF IInv, TypeOK, ProcessInv, vars
  <2> QED BY <1>1, <2>1, <2>2
<1>3. ASSUME NEW p \in Pid, NEW priority \in 1 .. kLevels, NEW n \in Addr, addProcess(p, priority, n)
      PROVE  IInv'
  <2>1. allocated' = allocated \cup {n}
    BY <1>3 DEF addProcess
  <2>2. node'[n].pid = p /\ \A a \in allocated : node'[a].pid = node[a].pid
    BY <1>3, AddStep
  <2>3. \A a \in allocated' : node'[a].pid \in Pid
    BY <2>1, <2>2 DEF IInv, ProcessInv
  <2> QED BY <1>1, <1>3, <2>3, AddStep
<1>4. ASSUME NEW p \in Pid, removeProcess(p)
      PROVE  IInv'
  <2>1. PICK l \in Level, k \in Steps :
          /\ IsFirst(p, l, k)
          /\ LET n == Walk(l)[k]
             IN  (UnlinkHead(l, n) \/ UnlinkTail(l, n) \/ UnlinkMiddle(l, n)) /\ free(n)
    BY <1>4 DEF removeProcess
  <2> DEFINE n == Walk(l)[k]
  <2>2. /\ n # NULL /\ free(n)
        /\ UnlinkHead(l, n) \/ UnlinkTail(l, n) \/ UnlinkMiddle(l, n)
        /\ UNCHANGED <<current, pid, time, undefined>>
    BY <1>4, <2>1 DEF IsFirst, removeProcess
  <2>3. allocated' \subseteq allocated
    BY <2>2 DEF free
  <2> HIDE DEF n
  <2>4. /\ Holds([m \in Level |-> IF m = l THEN Cut(List(l), k + 1) ELSE List(m)],
                 node', levels', allocated')
        /\ \A a \in allocated' : node'[a].pid = node[a].pid
        /\ TypeOK'
    BY <2>2, RemoveStep DEF n
  <2>5. \A a \in allocated' : node'[a].pid \in Pid
    BY <2>3, <2>4 DEF IInv, ProcessInv
  <2> QED BY <1>1, <2>4, <2>5
<1>5. CASE nextProcess
  <2>1. PICK l \in Serving : Take(l, levels[l].curr)
    BY <1>5 DEF nextProcess
  <2>2. UNCHANGED <<node, allocated, undefined>>
    BY <1>5 DEF nextProcess
  <2>3. Holds([m \in Level |-> List(m)], node', levels', allocated') /\ TypeOK'
    BY <2>1, <2>2, TakeStep
  <2>4. \A a \in allocated' : node'[a].pid \in Pid
    BY <2>2 DEF IInv, ProcessInv
  <2> QED BY <1>1, <2>3, <2>4
<1>6. CASE nextProcessNone \/ nextProcessBeyond
  <2>1. UNCHANGED <<node, allocated, levels, current, time>> /\ pid' \in {pid, -1} /\ undefined' \in {undefined, TRUE}
    BY <1>6 DEF nextProcessNone, nextProcessBeyond
  <2>2. Holds([m \in Level |-> List(m)], node', levels', allocated')
    BY <2>1, ListFacts
  <2>3. TypeOK' /\ \A a \in allocated' : node'[a].pid \in Pid
    BY <2>1 DEF IInv, TypeOK, ProcessInv
  <2> QED BY <1>1, <2>2, <2>3
<1> QED BY <1>2, <1>3, <1>4, <1>5, <1>6
        DEF Next, OtherCall, addProcessFails, removeProcessFails

\* The lists of the scheduler are in order in every state.
THEOREM Invariance == Spec => []IInv
BY IInvInit, IInvStep, PTL DEF Spec

\* Every variable keeps its type.
THEOREM TypeCorrect == Spec => []TypeOK
<1>1. IInv => TypeOK
  BY DEF IInv
<1> QED BY Invariance, <1>1, PTL

\* next and prev mirror each other, and the pointers of a level lead to its
\* list, whatever was added and removed.
THEOREM ListsCorrect == Spec => []ListsWellFormed
<1>1. ASSUME IInv PROVE ListsWellFormed
  <2>1. SUFFICES ASSUME NEW l \in Level
                 PROVE  /\ \A a \in Nodes(l) :
                             /\ node[a].next # NULL => node[node[a].next].prev = a
                             /\ node[a].prev # NULL => node[node[a].prev].next = a
                        /\ levels[l].head = NULL => levels[l].curr = NULL
                        /\ levels[l].head # NULL =>
                             /\ levels[l].curr \in Nodes(l)
                             /\ node[levels[l].head].prev = NULL
                             /\ levels[l].tail \in Nodes(l) /\ node[levels[l].tail].next = NULL
    BY DEF ListsWellFormed
  <2> DEFINE s == List(l)
  <2>2. /\ Chain(node, levels[l], s) /\ Len(s) \in Nat /\ DOMAIN s = 1 .. Len(s)
        /\ Nodes(l) = {s[i] : i \in DOMAIN s} /\ \A i \in DOMAIN s : s[i] \in Addr
    BY <1>1, ListFacts
  <2>3. Len(s) \in Nat
    BY <2>2
  <2> HIDE DEF s
  <2>4. ASSUME NEW i \in DOMAIN s
        PROVE  /\ node[s[i]].next # NULL => node[node[s[i]].next].prev = s[i]
               /\ node[s[i]].prev # NULL => node[node[s[i]].prev].next = s[i]
    <3>1. i \in 1 .. Len(s)
      BY <2>2
    <3>2. /\ i # Len(s) => i + 1 \in 1 .. Len(s) /\ i + 1 # 1 /\ (i + 1) - 1 = i
          /\ i # 1 => i - 1 \in 1 .. Len(s) /\ i - 1 # Len(s) /\ (i - 1) + 1 = i
      BY <2>3, <3>1
    <3>3. i # Len(s) => node[s[i]].next = s[i + 1] /\ node[s[i + 1]].prev = s[i]
      BY <2>2, <3>2 DEF Chain
    <3>4. i # 1 => node[s[i]].prev = s[i - 1] /\ node[s[i - 1]].next = s[i]
      BY <2>2, <3>2 DEF Chain
    <3> QED BY <2>2, <3>3, <3>4 DEF Chain
  <2>5. Len(s) # 0 => 1 \in DOMAIN s /\ Len(s) \in DOMAIN s
    BY <2>2, <2>3
  <2>6. levels[l].head = NULL <=> Len(s) = 0
    BY <2>2, <2>5, ConstantFacts DEF Chain
  <2> QED BY <2>2, <2>4, <2>5, <2>6 DEF Chain
<1> QED BY Invariance, <1>1, PTL

\* No node leaks, none is used after free, and none is on two lists.
THEOREM OwnedCorrect == Spec => []NodesOwned
<1>1. IInv => NodesOwned
  BY DEF IInv
<1> QED BY Invariance, <1>1, PTL
-----------------------------------------------------------------------------
(* The round robin                                                         *)

\* What the abstract scheduler sees of the lists: a level's processes, and the
\* place of the one in turn.
AbstractFacts ==
  \A l \in Level :
    /\ Members[l] = [i \in DOMAIN List(l) |-> node[List(l)[i]].pid]
    /\ DOMAIN List(l) = 1 .. Len(List(l)) /\ Len(List(l)) \in Nat
    /\ Members[l] \in Seq(Pid) /\ Len(Members[l]) = Len(List(l))
    /\ Len(List(l)) = 0 => Turns[l] = 1
    /\ \A c \in DOMAIN List(l) : levels[l].curr = List(l)[c] => Turns[l] = c

LEMMA AbstractNow == IInv => AbstractFacts
<1> SUFFICES ASSUME IInv, NEW l \in Level
             PROVE  /\ Members[l] = [i \in DOMAIN List(l) |-> node[List(l)[i]].pid]
                    /\ DOMAIN List(l) = 1 .. Len(List(l)) /\ Len(List(l)) \in Nat
                    /\ Members[l] \in Seq(Pid) /\ Len(Members[l]) = Len(List(l))
                    /\ Len(List(l)) = 0 => Turns[l] = 1
                    /\ \A c \in DOMAIN List(l) : levels[l].curr = List(l)[c] => Turns[l] = c
  BY DEF AbstractFacts
<1> DEFINE s == List(l)
<1>1. /\ Chain(node, levels[l], s) /\ Len(s) \in Nat /\ DOMAIN s = 1 .. Len(s) /\ Len(s) = Length(l)
      /\ \A i \in DOMAIN s : s[i] \in Addr /\ s[i] \in allocated
  BY ListFacts
<1>2. Len(s) \in Nat
  BY <1>1
<1>3. \A i \in 1 .. Len(s) : s[i] = Walk(l)[i - 1]
  BY <1>1 DEF List, ListFrom
<1> HIDE DEF s
<1>4. Members[l] = [i \in DOMAIN s |-> node[s[i]].pid]
  <2>1. Members[l] = [i \in 1 .. Len(s) |-> node[Walk(l)[i - 1]].pid]
    BY <1>1 DEF Members
  <2> QED BY <1>1, <1>3, <2>1
<1>5. Members[l] \in Seq(Pid) /\ Len(Members[l]) = Len(s)
  <2>1. Members[l] \in [1 .. Len(s) -> Pid]
    BY <1>1, <1>4 DEF IInv, ProcessInv
  <2> QED BY <1>2, <2>1, SeqDef, LenProperties
<1>6. /\ levels[l].head = NULL => Turns[l] = 1
      /\ levels[l].head # NULL => Turns[l] = 1 + CHOOSE k \in Steps : Walk(l)[k] = levels[l].curr
  BY DEF Turns, CurrIndex
<1>7. ASSUME NEW c \in DOMAIN s, levels[l].curr = s[c]
      PROVE  Turns[l] = c
  <2>1. c \in 1 .. Len(s) /\ 1 \in 1 .. Len(s) /\ Len(s) # 0
    BY <1>1, <1>2
  <2>2. levels[l].head # NULL
    BY <1>1, <2>1, ConstantFacts DEF Chain
  <2>3. c - 1 \in Steps
    <3>1. Len(s) <= Cardinality(Addr)
      BY <1>1, ChainType
    <3>2. c - 1 \in Nat /\ c - 1 <= Cardinality(Addr)
      BY <1>2, <2>1, <3>1, ConstantFacts
    <3> QED BY <3>2, ConstantFacts
  <2>4. Walk(l)[c - 1] = s[c]
    BY <1>3, <2>1
  <2>5. ASSUME NEW k \in Steps, Walk(l)[k] = s[c]
        PROVE  k = c - 1
    <3>1. Walk(l)[k] # NULL
      BY <1>1, <2>5, ConstantFacts
    <3>2. k \in Nat /\ k + 1 \in DOMAIN s /\ s[k + 1] = s[c]
      BY <2>5, <3>1, WalkPlace DEF s
    <3>3. k + 1 = c
      BY <1>1, <3>2 DEF Chain
    <3> QED BY <2>1, <3>2, <3>3
  <2>6. (CHOOSE k \in Steps : Walk(l)[k] = levels[l].curr) = c - 1
    BY <1>7, <2>3, <2>4, <2>5
  <2>7. 1 + (c - 1) = c
    BY <1>2, <2>1
  <2> QED BY <1>6, <2>2, <2>6, <2>7
<1>8. Len(s) = 0 => Turns[l] = 1
  BY <1>1, <1>6 DEF Chain
<1> QED BY <1>1, <1>4, <1>5, <1>7, <1>8 DEF s

LEMMA AbstractNext == IInv' => AbstractFacts'
BY AbstractNow, PTL

\* RemoveAt takes one element out.
LEMMA RemoveAtIs ==
  ASSUME NEW S, NEW s \in Seq(S), NEW c \in DOMAIN s
  PROVE  Abstract!RemoveAt(s, c) = [i \in 1 .. Len(s) - 1 |-> IF i < c THEN s[i] ELSE s[i + 1]]
<1> DEFINE a == SubSeq(s, 1, c - 1)
           b == SubSeq(s, c + 1, Len(s))
<1>1. Len(s) \in Nat /\ DOMAIN s = 1 .. Len(s) /\ \A i \in 1 .. Len(s) : s[i] \in S
  BY LenProperties
<1>2. Len(s) \in Nat /\ c \in 1 .. Len(s)
  BY <1>1
<1>3. /\ 1 \in Int /\ c - 1 \in Int /\ c + 1 \in Int /\ Len(s) \in Int
      /\ \A i \in 1 .. c - 1 : i \in 1 .. Len(s)
      /\ \A i \in c + 1 .. Len(s) : i \in 1 .. Len(s)
  BY <1>2
<1>4. /\ a \in Seq(S) /\ Len(a) = c - 1
      /\ \A i \in 1 .. c - 1 : a[i] = s[i]
  <2>1. /\ a \in Seq(S) /\ Len(a) = IF 1 <= c - 1 THEN (c - 1) - 1 + 1 ELSE 0
        /\ \A i \in 1 .. (c - 1) - 1 + 1 : a[i] = s[1 + i - 1]
    BY <1>1, <1>3, SubSeqProperties
  <2> HIDE DEF a
  <2>2. (c - 1) - 1 + 1 = c - 1 /\ \A i \in 1 .. c - 1 : 1 + i - 1 = i
    BY <1>2
  <2> QED BY <1>2, <2>1, <2>2
<1>5. /\ b \in Seq(S) /\ Len(b) = Len(s) - c
      /\ \A i \in 1 .. Len(s) - c : b[i] = s[c + i]
  <2>1. /\ b \in Seq(S) /\ Len(b) = IF c + 1 <= Len(s) THEN Len(s) - (c + 1) + 1 ELSE 0
        /\ \A i \in 1 .. Len(s) - (c + 1) + 1 : b[i] = s[(c + 1) + i - 1]
    BY <1>1, <1>3, SubSeqProperties
  <2> HIDE DEF b
  <2>2. Len(s) - (c + 1) + 1 = Len(s) - c /\ \A i \in 1 .. Len(s) - c : (c + 1) + i - 1 = c + i
    BY <1>2
  <2> QED BY <1>2, <2>1, <2>2
<1> HIDE DEF a, b
<1>6. /\ a \o b \in Seq(S) /\ Len(a \o b) = Len(a) + Len(b)
      /\ \A i \in 1 .. Len(a) + Len(b) : (a \o b)[i] = IF i <= Len(a) THEN a[i] ELSE b[i - Len(a)]
  BY <1>4, <1>5, ConcatProperties
<1> DEFINE t == a \o b
<1>7. Len(t) = Len(s) - 1 /\ DOMAIN t = 1 .. Len(s) - 1 /\ t = [i \in 1 .. Len(s) - 1 |-> t[i]]
  <2>1. Len(a) + Len(b) = Len(s) - 1
    BY <1>2, <1>4, <1>5
  <2>2. Len(t) = Len(s) - 1 /\ t \in Seq(S)
    BY <1>6, <2>1
  <2> HIDE DEF t
  <2>3. DOMAIN t = 1 .. Len(s) - 1 /\ t \in [1 .. Len(s) - 1 -> S]
    BY <2>2, LenProperties
  <2> QED BY <2>2, <2>3
<1>8. ASSUME NEW i \in 1 .. Len(s) - 1
      PROVE  t[i] = IF i < c THEN s[i] ELSE s[i + 1]
  <2>1. i \in 1 .. Len(a) + Len(b)
    BY <1>2, <1>4, <1>5
  <2>2. CASE i < c
    <3>1. i <= Len(a) /\ i \in 1 .. c - 1
      BY <1>2, <1>4, <2>2
    <3> QED BY <1>4, <1>6, <2>1, <2>2, <3>1
  <2>3. CASE ~(i < c)
    <3>1. ~(i <= Len(a)) /\ i - Len(a) \in 1 .. Len(s) - c /\ c + (i - Len(a)) = i + 1
      BY <1>2, <1>4, <2>3
    <3>2. b[i - Len(a)] = s[i + 1]
      BY <1>5, <3>1
    <3> QED BY <1>6, <2>1, <2>3, <3>1, <3>2
  <2> QED BY <2>2, <2>3
<1>9. Abstract!RemoveAt(s, c) = t
  BY DEF Abstract!RemoveAt, a, b
<1> HIDE DEF t
<1> QED BY <1>7, <1>8, <1>9

\* A level whose list, mark and processes stay is the same to the abstract
\* scheduler.
LEMMA LevelSame ==
  ASSUME IInv, IInv', NEW m \in Level, List(m)' = List(m),
         levels'[m].curr = levels[m].curr \/ Len(List(m)) = 0,
         \A i \in DOMAIN List(m) : node'[List(m)[i]].pid = node[List(m)[i]].pid
  PROVE  Members'[m] = Members[m] /\ Turns'[m] = Turns[m]
<1>1. AbstractFacts /\ AbstractFacts'
  BY AbstractNow, AbstractNext
<1>2. Members'[m] = Members[m]
  <2>1. Members'[m] = [i \in DOMAIN List(m) |-> node'[List(m)[i]].pid]
    BY <1>1 DEF AbstractFacts
  <2>2. Members[m] = [i \in DOMAIN List(m) |-> node[List(m)[i]].pid]
    BY <1>1 DEF AbstractFacts
  <2> QED BY <2>1, <2>2
<1>3. CASE Len(List(m)) = 0
  BY <1>1, <1>2, <1>3 DEF AbstractFacts
<1>4. CASE Len(List(m)) # 0
  <2>1. PICK c \in DOMAIN List(m) : levels[m].curr = List(m)[c]
    BY <1>4, ListFacts DEF Chain
  <2>2. c \in DOMAIN List(m)' /\ levels'[m].curr = List(m)'[c]
    BY <1>4, <2>1
  <2> QED BY <1>1, <1>2, <2>1, <2>2 DEF AbstractFacts
<1> QED BY <1>3, <1>4

\* addProcess is Join.
LEMMA AddJoins ==
  ASSUME IInv, IInv', NEW p \in Pid, NEW priority \in 1 .. kLevels, NEW n \in Addr,
         addProcess(p, priority, n)
  PROVE  Abstract!Next
<1> DEFINE l == priority - 1
           s == List(l)
           t == Append(s, n)
<1>1. /\ l \in Level
      /\ Holds([m \in Level |-> IF m = l THEN Append(List(m), n) ELSE List(m)], node', levels', allocated')
      /\ \A m \in Level : levels[m].head # NULL => levels'[m].curr = levels[m].curr
      /\ levels[l].head = NULL => levels'[l].curr = n
      /\ node'[n].pid = p /\ \A a \in allocated : node'[a].pid = node[a].pid
  BY AddStep
<1> HIDE DEF l, s, t
<1>2. List(l)' = t /\ \A m \in Level : m # l => List(m)' = List(m)
  BY <1>1, ListsNext DEF s, t
<1>3. AbstractFacts /\ AbstractFacts'
  BY AbstractNow, AbstractNext
<1>4. \A m \in Level : Len(List(m)) # 0 => levels[m].head # NULL
  <2>1. ASSUME NEW m \in Level, Len(List(m)) # 0 PROVE levels[m].head # NULL
    <3>1. 1 \in DOMAIN List(m)
      BY <2>1, ListFacts
    <3> QED BY <2>1, <3>1, ListFacts, ConstantFacts DEF Chain
  <2> QED BY <2>1
<1>5. \A m \in Level : m # l => Members'[m] = Members[m] /\ Turns'[m] = Turns[m]
  <2>1. ASSUME NEW m \in Level, m # l
        PROVE  Members'[m] = Members[m] /\ Turns'[m] = Turns[m]
    <3>1. \A i \in DOMAIN List(m) : node'[List(m)[i]].pid = node[List(m)[i]].pid
      BY <1>1, ListFacts
    <3>2. levels'[m].curr = levels[m].curr \/ Len(List(m)) = 0
      BY <1>1, <1>4
    <3> QED BY <1>2, <2>1, <3>1, <3>2, LevelSame
  <2> QED BY <2>1
<1>6. /\ s \in Seq(Addr) /\ Len(s) \in Nat /\ DOMAIN s = 1 .. Len(s)
      /\ \A i \in DOMAIN s : s[i] \in allocated
      /\ Chain(node, levels[l], s)
  BY <1>1, ListFacts, ChainType DEF s
<1>7. /\ Len(t) = Len(s) + 1 /\ DOMAIN t = 1 .. Len(s) + 1 /\ t[Len(s) + 1] = n
      /\ \A i \in 1 .. Len(s) : t[i] = s[i]
  <2>1. t \in Seq(Addr) /\ Len(t) = Len(s) + 1 /\ t[Len(s) + 1] = n /\ \A i \in 1 .. Len(s) : t[i] = s[i]
    BY <1>6, AppendProperties DEF t
  <2> QED BY <2>1, LenProperties
<1>8. Len(s) \in Nat
  BY <1>6
<1>9. \A i \in 1 .. Len(s) + 1 : i = Len(s) + 1 \/ i \in 1 .. Len(s)
  BY <1>8
<1>10. \A i \in 1 .. Len(s) : i \in 1 .. Len(s) + 1 /\ i # Len(s) + 1
  BY <1>8
<1>11. Members'[l] = Append(Members[l], p)
  <2> DEFINE u == Members[l]
             v == Append(u, p)
  <2>1. /\ u \in Seq(Pid) /\ Len(u) = Len(s) /\ \A i \in 1 .. Len(s) : u[i] = node[s[i]].pid
    <3>1. u = [i \in DOMAIN s |-> node[s[i]].pid] /\ u \in Seq(Pid) /\ Len(u) = Len(s)
      BY <1>1, <1>3 DEF AbstractFacts, s
    <3> HIDE DEF u
    <3> QED BY <1>6, <3>1
  <2>2. /\ v \in Seq(Pid) /\ Len(v) = Len(s) + 1 /\ v[Len(s) + 1] = p
        /\ \A i \in 1 .. Len(s) : v[i] = u[i]
    <3> HIDE DEF u
    <3> QED BY <2>1, AppendProperties
  <2> HIDE DEF u, v
  <2>3. DOMAIN v = 1 .. Len(s) + 1 /\ v = [i \in 1 .. Len(s) + 1 |-> v[i]]
    BY <2>2, LenProperties
  <2>4. Members'[l] = [i \in 1 .. Len(s) + 1 |-> node'[t[i]].pid]
    BY <1>1, <1>2, <1>3, <1>7 DEF AbstractFacts
  <2>5. \A i \in 1 .. Len(s) : node'[t[i]].pid = v[i]
    BY <1>1, <1>6, <1>7, <2>1, <2>2
  <2>6. node'[t[Len(s) + 1]].pid = v[Len(s) + 1]
    BY <1>1, <1>7, <2>2
  <2>7. \A i \in 1 .. Len(s) + 1 : node'[t[i]].pid = v[i]
    BY <1>9, <2>5, <2>6
  <2> QED BY <2>3, <2>4, <2>7 DEF u, v
<1>12. Turns'[l] = Turns[l]
  <2>1. CASE Len(s) = 0
    <3>1. 1 \in DOMAIN t /\ t[1] = n /\ levels'[l].curr = n
      BY <1>1, <1>6, <1>7, <2>1 DEF Chain
    <3>2. Turns'[l] = 1
      BY <1>1, <1>2, <1>3, <3>1 DEF AbstractFacts
    <3> QED BY <1>1, <1>3, <2>1, <3>2 DEF AbstractFacts, s
  <2>2. CASE Len(s) # 0
    <3>1. PICK c \in DOMAIN s : levels[l].curr = s[c]
      BY <1>6, <2>2 DEF Chain
    <3>2. c \in 1 .. Len(s)
      BY <1>6
    <3>3. c \in DOMAIN t /\ t[c] = s[c]
      BY <1>7, <1>10, <3>2
    <3>4. levels'[l].curr = t[c]
      BY <1>1, <1>4, <2>2, <3>1, <3>3 DEF s
    <3>5. Turns'[l] = c
      BY <1>1, <1>2, <1>3, <3>3, <3>4 DEF AbstractFacts
    <3> QED BY <1>1, <1>3, <3>1, <3>5 DEF AbstractFacts, s
  <2> QED BY <2>1, <2>2
<1>13. Members' = [Members EXCEPT ![l] = Append(Members[l], p)]
  BY <1>1, <1>5, <1>11 DEF Members
<1>14. Turns' = Turns
  BY <1>5, <1>12 DEF Turns
<1>15. current' = current /\ pid' = pid
  BY DEF addProcess
<1>16. Abstract!Join(p, l)
  BY <1>13, <1>14, <1>15 DEF Abstract!Join
<1> QED BY <1>1, <1>16 DEF Abstract!Next

\* removeProcess is Leave.
LEMMA RemoveLeaves ==
  ASSUME IInv, IInv', NEW l \in Level, NEW k \in Steps, NEW n, n = Walk(l)[k], n # NULL,
         UnlinkHead(l, n) \/ UnlinkTail(l, n) \/ UnlinkMiddle(l, n), free(n),
         UNCHANGED <<current, pid, time, undefined>>
  PROVE  Abstract!Next
<1> DEFINE s == List(l)
           c == k + 1
           t == Cut(s, c)
<1>1. /\ c \in DOMAIN s /\ s[c] = n
      /\ CutsOut(node, levels[l], s, c, node', levels'[l])
      /\ Holds([m \in Level |-> IF m = l THEN t ELSE List(m)], node', levels', allocated')
      /\ \A m \in Level : m # l => levels'[m] = levels[m]
      /\ \A a \in allocated' : node'[a].pid = node[a].pid
  BY RemoveStep
<1> HIDE DEF s, c, t
<1>2. List(l)' = t /\ \A m \in Level : m # l => List(m)' = List(m)
  BY <1>1, ListsNext
<1>3. AbstractFacts /\ AbstractFacts'
  BY AbstractNow, AbstractNext
<1>4. \A m \in Level : \A i \in DOMAIN List(m)' : List(m)'[i] \in allocated'
  BY <1>1, <1>2 DEF Holds
<1>5. \A m \in Level : m # l => Members'[m] = Members[m] /\ Turns'[m] = Turns[m]
  BY <1>1, <1>2, <1>4, LevelSame
<1>6. /\ s \in Seq(Addr) /\ Len(s) \in Nat /\ DOMAIN s = 1 .. Len(s) /\ Chain(node, levels[l], s)
  BY ListFacts, ChainType DEF s
<1>7. Len(s) \in Nat /\ c \in 1 .. Len(s)
  BY <1>1, <1>6
<1>8. /\ Len(t) = Len(s) - 1 /\ DOMAIN t = 1 .. Len(s) - 1
      /\ \A i \in 1 .. Len(s) - 1 : (i < c => t[i] = s[i]) /\ (i >= c => t[i] = s[i + 1])
  BY <1>1, <1>6, CutFacts DEF t
<1> DEFINE u == Members[l]
<1>9. /\ u \in Seq(Pid) /\ Len(u) = Len(s) /\ DOMAIN u = 1 .. Len(s)
      /\ \A i \in 1 .. Len(s) : u[i] = node[s[i]].pid
  <2>1. u = [i \in DOMAIN s |-> node[s[i]].pid] /\ u \in Seq(Pid) /\ Len(u) = Len(s)
    BY <1>3 DEF AbstractFacts, s
  <2> HIDE DEF u
  <2> QED BY <1>6, <2>1
<1> HIDE DEF u
<1>10. Members'[l] = Abstract!RemoveAt(u, c)
  <2>1. Abstract!RemoveAt(u, c) = [i \in 1 .. Len(s) - 1 |-> IF i < c THEN u[i] ELSE u[i + 1]]
    BY <1>7, <1>9, RemoveAtIs
  <2>2. Members'[l] = [i \in 1 .. Len(s) - 1 |-> node'[t[i]].pid]
    BY <1>2, <1>3, <1>8 DEF AbstractFacts
  <2>3. ASSUME NEW i \in 1 .. Len(s) - 1
        PROVE  node'[t[i]].pid = IF i < c THEN u[i] ELSE u[i + 1]
    <3>1. i \in 1 .. Len(s) /\ i + 1 \in 1 .. Len(s)
      BY <1>7
    <3>2. node'[t[i]].pid = node[t[i]].pid
      BY <1>1, <1>2, <1>4, <1>8
    <3>3. CASE i < c
      BY <1>8, <1>9, <3>1, <3>2, <3>3
    <3>4. CASE ~(i < c)
      <4>1. i >= c
        BY <1>7, <3>4
      <4> QED BY <1>8, <1>9, <3>1, <3>2, <3>4, <4>1
    <3> QED BY <3>3, <3>4
  <2> QED BY <2>1, <2>2, <2>3
<1>11. PICK x \in DOMAIN s : levels[l].curr = s[x]
  <2>1. Len(s) # 0
    BY <1>7
  <2> QED BY <1>6, <2>1 DEF Chain
<1>12. x \in 1 .. Len(s) /\ Turns[l] = x
  BY <1>3, <1>6, <1>11 DEF AbstractFacts, s
<1>13. \A d \in DOMAIN t : levels'[l].curr = t[d] => Turns'[l] = d
  BY <1>2, <1>3 DEF AbstractFacts
<1>14. Turns'[l] = IF c < x THEN x - 1 ELSE IF c = x /\ c = Len(s) THEN 1 ELSE x
  <2>1. CASE Len(s) = 1
    <3>1. c = 1 /\ x = 1 /\ Len(t) = 0
      BY <1>7, <1>8, <1>12, <2>1
    <3>2. Turns'[l] = 1
      BY <1>2, <1>3, <3>1 DEF AbstractFacts
    <3> QED BY <2>1, <3>1, <3>2
  <2>2. CASE Len(s) # 1
    <3>1. /\ c < x => x - 1 \in DOMAIN t /\ levels'[l].curr = t[x - 1]
          /\ c = x /\ c = Len(s) => 1 \in DOMAIN t /\ levels'[l].curr = t[1]
          /\ c > x \/ (c = x /\ c # Len(s)) => x \in DOMAIN t /\ levels'[l].curr = t[x]
      BY <1>1, <1>6, <1>11, <2>2, CutTurn DEF t
    <3>2. /\ c < x => Turns'[l] = x - 1
          /\ c = x /\ c = Len(s) => Turns'[l] = 1
          /\ c > x \/ (c = x /\ c # Len(s)) => Turns'[l] = x
      BY <1>13, <3>1
    <3> QED BY <1>7, <1>12, <3>2
  <2> QED BY <2>1, <2>2
<1>15. Members' = [Members EXCEPT ![l] = Abstract!RemoveAt(Members[l], c)]
  BY <1>5, <1>10 DEF Members, u
<1>16. Turns' = [Turns EXCEPT ![l] = IF c < Turns[l] THEN Turns[l] - 1
                                     ELSE IF c = Turns[l] /\ c = Len(Members[l]) THEN 1 ELSE Turns[l]]
  <2>1. Turns'[l] = IF c < Turns[l] THEN Turns[l] - 1
                    ELSE IF c = Turns[l] /\ c = Len(Members[l]) THEN 1 ELSE Turns[l]
    BY <1>9, <1>12, <1>14 DEF u
  <2> QED BY <1>5, <2>1 DEF Turns
<1>17. c \in DOMAIN Members[l]
  BY <1>7, <1>9 DEF u
<1>18. Abstract!Leave(l, c)
  BY <1>15, <1>16, <1>17 DEF Abstract!Leave
<1> QED BY <1>17, <1>18 DEF Abstract!Next

\* Numbers modulo the number of levels.
LEMMA ModLevels ==
  ASSUME NEW x \in Int
  PROVE  /\ 0 <= x /\ x < kLevels => x % kLevels = x
         /\ 0 - kLevels <= x /\ x < 0 => x % kLevels = x + kLevels
         /\ kLevels % kLevels = 0
BY ConstantFacts

\* The abstract scheduler counts the levels.
LEMMA LevelCount == Abstract!Cardinality(Level) = kLevels
<1>1. Cardinality(Level) = kLevels
  BY FS_Interval, ConstantFacts DEF Level
<1>2. Abstract!Cardinality(Level) = Cardinality(Level)
  BY DEF Abstract!Cardinality, Cardinality
<1> QED BY <1>1, <1>2

\* nextProcess is Choose: the level it stops at is the next one with a process.
LEMMA TakeChooses ==
  ASSUME IInv, IInv', NEW l \in Serving, Take(l, levels[l].curr), UNCHANGED <<node, allocated, undefined>>
  PROVE  Abstract!Next
<1> DEFINE s == List(l)
<1>1. /\ l \in Level /\ current <= l
      /\ \A m \in Level : m # l => levels'[m] = levels[m]
      /\ \A m \in Level : m < l /\ current <= m => Len(List(m)) = 0
      /\ Holds([m \in Level |-> List(m)], node', levels', allocated')
      /\ l + 1 = kLevels => current' = 0
      /\ l + 1 # kLevels => current' = l + 1
  BY TakeStep
<1>2. PICK c \in DOMAIN s :
        /\ levels[l].curr = s[c] /\ pid' = node[s[c]].pid
        /\ c = Len(s) => 1 \in DOMAIN s /\ levels'[l].curr = s[1]
        /\ c # Len(s) => c + 1 \in DOMAIN s /\ levels'[l].curr = s[c + 1]
  BY TakeStep
<1>3. \A m \in Level : List(m)' = List(m)
  BY <1>1, ListsNext
<1>4. AbstractFacts /\ AbstractFacts'
  BY AbstractNow, AbstractNext
<1>5. \A m \in Level : Members'[m] = Members[m]
  <2>1. ASSUME NEW m \in Level PROVE Members'[m] = Members[m]
    <3>1. Members'[m] = [i \in DOMAIN List(m) |-> node[List(m)[i]].pid]
      BY <1>3, <1>4 DEF AbstractFacts
    <3>2. Members[m] = [i \in DOMAIN List(m) |-> node[List(m)[i]].pid]
      BY <1>4 DEF AbstractFacts
    <3> QED BY <3>1, <3>2
  <2> QED BY <2>1
<1>6. \A m \in Level : m # l => Turns'[m] = Turns[m]
  BY <1>1, <1>3, LevelSame
<1>7. Turns[l] = c /\ Len(Members[l]) = Len(s) /\ Members[l][c] = node[s[c]].pid
  <2>1. Turns[l] = c /\ Len(Members[l]) = Len(s)
    BY <1>1, <1>2, <1>4 DEF AbstractFacts
  <2>2. Members[l] = [i \in DOMAIN s |-> node[s[i]].pid]
    BY <1>1, <1>4 DEF AbstractFacts
  <2> QED BY <2>1, <2>2
<1>8. Turns'[l] = IF Turns[l] = Len(Members[l]) THEN 1 ELSE Turns[l] + 1
  <2>1. \A d \in DOMAIN s : levels'[l].curr = s[d] => Turns'[l] = d
    BY <1>1, <1>3, <1>4 DEF AbstractFacts
  <2> QED BY <1>2, <1>7, <2>1
<1>9. Members' = Members
  BY <1>5 DEF Members
<1>10. Turns' = [Turns EXCEPT ![l] = IF Turns[l] = Len(Members[l]) THEN 1 ELSE Turns[l] + 1]
  BY <1>6, <1>8 DEF Turns
<1>11. \A m \in Level : Abstract!Busy(m) <=> Len(List(m)) # 0
  <2>1. ASSUME NEW m \in Level PROVE Members[m] # <<>> <=> Len(List(m)) # 0
    <3>1. Members[m] \in Seq(Pid) /\ Len(Members[m]) = Len(List(m))
      BY <1>4 DEF AbstractFacts
    <3> QED BY <3>1, EmptySeq
  <2> QED BY <2>1 DEF Abstract!Busy
<1>12. Abstract!Busy(l)
  <2>1. c \in 1 .. Len(s) /\ Len(s) \in Nat
    BY <1>1, <1>2, ListFacts
  <2>2. Len(s) # 0
    BY <2>1
  <2> QED BY <1>1, <1>11, <2>2
<1>13. Abstract!Cardinality(Level) = kLevels
  BY LevelCount
<1>14. current \in 0 .. kLevels - 1 /\ l \in 0 .. kLevels - 1 /\ kLevels \in Nat /\ kLevels >= 1
  BY <1>1, ConstantFacts DEF IInv, TypeOK, Level
<1>15. ASSUME NEW m \in Level, Abstract!Busy(m)
       PROVE  Abstract!Dist(l) <= Abstract!Dist(m)
  <2>1. Abstract!Dist(l) = l - current
    <3>1. l - current \in Int /\ 0 <= l - current /\ l - current < kLevels
      BY <1>1, <1>14
    <3> QED BY <1>13, <3>1, ModLevels DEF Abstract!Dist
  <2>2. m \in 0 .. kLevels - 1 /\ ~(m < l /\ current <= m)
    BY <1>1, <1>11, <1>15 DEF Level
  <2>3. CASE l <= m
    <3>1. m - current \in Int /\ 0 <= m - current /\ m - current < kLevels
      BY <1>1, <1>14, <2>2, <2>3
    <3>2. Abstract!Dist(m) = m - current
      BY <1>13, <3>1, ModLevels DEF Abstract!Dist
    <3> QED BY <1>14, <2>1, <2>2, <2>3, <3>2
  <2>4. CASE m < current
    <3>1. m - current \in Int /\ 0 - kLevels <= m - current /\ m - current < 0
      BY <1>14, <2>2, <2>4
    <3>2. Abstract!Dist(m) = m - current + kLevels
      BY <1>13, <3>1, ModLevels DEF Abstract!Dist
    <3> QED BY <1>14, <2>1, <2>2, <3>2
  <2> QED BY <1>14, <2>2, <2>3, <2>4
<1>16. current' = (l + 1) % Abstract!Cardinality(Level)
  <2>1. CASE l + 1 = kLevels
    BY <1>1, <1>13, <2>1, ModLevels
  <2>2. CASE l + 1 # kLevels
    <3>1. l + 1 \in Int /\ 0 <= l + 1 /\ l + 1 < kLevels
      BY <1>14, <2>2
    <3> QED BY <1>1, <1>13, <2>2, <3>1, ModLevels
  <2> QED BY <2>1, <2>2
<1>17. pid' = Members[l][Turns[l]]
  BY <1>2, <1>7
<1>18. Abstract!Choose
  BY <1>1, <1>9, <1>10, <1>12, <1>15, <1>16, <1>17 DEF Abstract!Choose
<1> QED BY <1>18 DEF Abstract!Next

\* While nothing is written to the lists they mean the same.
LEMMA ListsKept ==
  ASSUME UNCHANGED <<node, levels>>
  PROVE  Members' = Members /\ Turns' = Turns
<1>1. node' = node /\ levels' = levels
  OBVIOUS
<1>2. \A l \in Level : Walk(l)' = Walk(l)
  BY <1>1 DEF Walk
<1>3. \A l \in Level : Length(l)' = Length(l)
  BY <1>2 DEF Length
<1>4. \A l \in Level : CurrIndex(l)' = CurrIndex(l)
  BY <1>1 DEF CurrIndex, Walk, WalkFrom
<1>5. Members' = Members
  BY <1>1, <1>2, <1>3 DEF Members
<1>6. Turns' = Turns
  BY <1>4 DEF Turns
<1> QED BY <1>5, <1>6

\* A level is empty when its head is NULL.
LEMMA HeadNull ==
  ASSUME IInv, NEW l \in Level, levels[l].head = NULL
  PROVE  Members[l] = <<>> /\ Turns[l] = 1
<1>1. AbstractFacts
  BY AbstractNow
<1>2. Len(List(l)) = 0
  <2>1. SUFFICES ASSUME Len(List(l)) # 0 PROVE FALSE
    OBVIOUS
  <2>2. Len(List(l)) \in Nat /\ DOMAIN List(l) = 1 .. Len(List(l)) /\ \A i \in DOMAIN List(l) : List(l)[i] \in Addr
    BY ListFacts
  <2>3. Len(List(l)) \in Nat
    BY <2>2
  <2>4. 1 \in 1 .. Len(List(l))
    BY <2>1, <2>3
  <2>5. List(l)[1] \in Addr
    BY <2>2, <2>4
  <2> QED BY <2>1, <2>5, ListFacts, ConstantFacts DEF Chain
<1>3. Members[l] \in Seq(Pid) /\ Len(Members[l]) = 0 /\ Turns[l] = 1
  BY <1>1, <1>2 DEF AbstractFacts
<1> QED BY <1>3, EmptySeq

LEMMA RoundRobinInit == init => Abstract!Init
<1> SUFFICES ASSUME init PROVE Abstract!Init
  OBVIOUS
<1>1. \A l \in Level : levels[l].head = NULL
  BY DEF init
<1>2. \A l \in Level : Members[l] = <<>> /\ Turns[l] = 1
  BY <1>1, IInvInit, HeadNull
<1>3. Members = [l \in Level |-> <<>>] /\ Turns = [l \in Level |-> 1]
  BY <1>2 DEF Members, Turns
<1> QED BY <1>3 DEF init, Abstract!Init

LEMMA RoundRobinStep == IInv /\ IInv' /\ [Next]_vars => [Abstract!Next]_(Abstract!vars)
<1> SUFFICES ASSUME IInv, IInv', [Next]_vars
             PROVE  [Abstract!Next]_(Abstract!vars)
  OBVIOUS
<1>1. ASSUME NEW p \in Pid, NEW priority \in 1 .. kLevels, NEW n \in Addr, addProcess(p, priority, n)
      PROVE  Abstract!Next
  BY <1>1, AddJoins
<1>2. ASSUME NEW p \in Pid, removeProcess(p)
      PROVE  Abstract!Next
  <2>1. PICK l \in Level, k \in Steps :
          /\ IsFirst(p, l, k)
          /\ LET n == Walk(l)[k]
             IN  (UnlinkHead(l, n) \/ UnlinkTail(l, n) \/ UnlinkMiddle(l, n)) /\ free(n)
    BY <1>2 DEF removeProcess
  <2> DEFINE n == Walk(l)[k]
  <2>2. /\ n # NULL /\ free(n)
        /\ UnlinkHead(l, n) \/ UnlinkTail(l, n) \/ UnlinkMiddle(l, n)
        /\ UNCHANGED <<current, pid, time, undefined>>
    BY <1>2, <2>1 DEF IsFirst, removeProcess
  <2> HIDE DEF n
  <2> QED BY <2>2, RemoveLeaves DEF n
<1>3. CASE nextProcess
  <2>1. PICK l \in Serving : Take(l, levels[l].curr)
    BY <1>3 DEF nextProcess
  <2>2. UNCHANGED <<node, allocated, undefined>>
    BY <1>3 DEF nextProcess
  <2> QED BY <2>1, <2>2, TakeChooses
<1>4. CASE nextProcessNone
  <2>1. Members' = Members /\ Turns' = Turns
    BY <1>4, ListsKept DEF nextProcessNone
  <2>2. \A l \in Level : Members[l] = <<>>
    BY <1>4, HeadNull DEF nextProcessNone, hasProcess
  <2>3. Abstract!ChooseNone
    BY <1>4, <2>1, <2>2 DEF nextProcessNone, Abstract!ChooseNone, Abstract!Busy
  <2> QED BY <2>3 DEF Abstract!Next
<1>5. CASE nextProcessBeyond \/ UNCHANGED vars
  <2>1. UNCHANGED <<node, levels>> /\ UNCHANGED <<current, pid>>
    BY <1>5 DEF nextProcessBeyond, vars
  <2> QED BY <2>1, ListsKept DEF Abstract!vars
<1> QED BY <1>1, <1>2, <1>3, <1>4, <1>5
        DEF Next, OtherCall, addProcessFails, removeProcessFails

\* The pointers implement the round robin: nobody's turn is lost or doubled when
\* processes join and leave.
THEOREM ImplementsRoundRobin == Spec => RoundRobinSpec
<1>1. init => Abstract!Init
  BY RoundRobinInit
<1>2. IInv /\ IInv' /\ [Next]_vars => [Abstract!Next]_(Abstract!vars)
  BY RoundRobinStep
<1>3. Abstract!Init /\ [][Abstract!Next]_(Abstract!vars) => RoundRobinSpec
  BY DEF RoundRobinSpec, Abstract!Spec
<1> QED BY <1>1, <1>2, <1>3, Invariance, PTL DEF Spec
-----------------------------------------------------------------------------
(* Nobody is overtaken                                                     *)

\* Places of a list whose turns begin at c: j is served before i.
Before(j, i, c) == (c <= j /\ j < i) \/ (i < c /\ c <= j) \/ (j < i /\ i < c)

Ordered(s, curr, a, b) ==
  \E i, j, c \in DOMAIN s : s[i] = a /\ s[j] = b /\ s[c] = curr /\ Before(j, i, c)

\* If a ran since b last ran or came, b is served before a runs again.
Waits(l, a, b) == Ordered(List(l), levels[l].curr, a, b)

OrderInv == \A a, b : <<a, b>> \in ahead => \E l \in Level : Waits(l, a, b)

\* Who is served first is served after nobody.
LEMMA OrderedFirst ==
  ASSUME NEW nodes, NEW lv, NEW s, Chain(nodes, lv, s), NEW b
  PROVE  ~Ordered(s, lv.curr, lv.curr, b)
<1>1. SUFFICES ASSUME NEW i \in DOMAIN s, NEW j \in DOMAIN s, NEW c \in DOMAIN s,
                      s[i] = lv.curr, s[c] = lv.curr, Before(j, i, c)
               PROVE  FALSE
  BY DEF Ordered
<1>2. i = c
  BY <1>1 DEF Chain
<1>3. Len(s) \in Nat /\ DOMAIN s = 1 .. Len(s)
  BY ChainType
<1>4. Len(s) \in Nat /\ i \in 1 .. Len(s) /\ j \in 1 .. Len(s)
  BY <1>3
<1> QED BY <1>1, <1>2, <1>4 DEF Before

\* A newcomer changes nothing between the others.
LEMMA OrderedAppend ==
  ASSUME NEW s \in Seq(Addr), NEW n \in Addr, NEW curr, NEW a, NEW b, Ordered(s, curr, a, b)
  PROVE  Ordered(Append(s, n), curr, a, b)
<1> DEFINE t == Append(s, n)
<1>1. Len(s) \in Nat /\ DOMAIN s = 1 .. Len(s)
  BY LenProperties
<1>2. t \in Seq(Addr) /\ Len(t) = Len(s) + 1 /\ \A i \in 1 .. Len(s) : t[i] = s[i]
  BY AppendProperties
<1>3. DOMAIN t = 1 .. Len(s) + 1
  BY <1>2, LenProperties
<1> HIDE DEF t
<1>4. Len(s) \in Nat
  BY <1>1
<1>5. \A i \in 1 .. Len(s) : i \in 1 .. Len(s) + 1
  BY <1>4
<1>6. \A i \in DOMAIN s : i \in DOMAIN t /\ t[i] = s[i]
  BY <1>1, <1>2, <1>3, <1>5
<1>7. PICK i, j, c \in DOMAIN s : s[i] = a /\ s[j] = b /\ s[c] = curr /\ Before(j, i, c)
  BY DEF Ordered
<1>8. Ordered(t, curr, a, b)
  BY <1>6, <1>7 DEF Ordered
<1> QED BY <1>8 DEF t

\* One who leaves changes nothing between the others, even when it was its turn.
LEMMA OrderedCut ==
  ASSUME NEW nodes, NEW lv, NEW s, Chain(nodes, lv, s), NEW d \in DOMAIN s,
         NEW nodes2, NEW lv2, CutsOut(nodes, lv, s, d, nodes2, lv2),
         NEW a, NEW b, a # s[d], b # s[d], Ordered(s, lv.curr, a, b)
  PROVE  Ordered(Cut(s, d), lv2.curr, a, b)
<1> DEFINE t == Cut(s, d)
<1>1. s \in Seq(Addr) /\ Len(s) \in Nat /\ DOMAIN s = 1 .. Len(s)
  BY ChainType
<1>2. /\ DOMAIN t = 1 .. Len(s) - 1
      /\ \A i \in DOMAIN t : (i < d => t[i] = s[i]) /\ (i >= d => t[i] = s[i + 1])
  BY <1>1, CutFacts
<1> HIDE DEF t
<1>3. PICK i, j, c \in DOMAIN s : s[i] = a /\ s[j] = b /\ s[c] = lv.curr /\ Before(j, i, c)
  BY DEF Ordered
<1>4. i # d /\ j # d
  BY <1>3
<1>5. Len(s) \in Nat /\ i \in 1 .. Len(s) /\ j \in 1 .. Len(s) /\ c \in 1 .. Len(s) /\ d \in 1 .. Len(s)
  BY <1>1
<1>6. Len(s) # 1
  BY <1>4, <1>5
<1>7. /\ d < c => c - 1 \in DOMAIN t /\ lv2.curr = t[c - 1]
      /\ d = c /\ d = Len(s) => 1 \in DOMAIN t /\ lv2.curr = t[1]
      /\ d > c \/ (d = c /\ d # Len(s)) => c \in DOMAIN t /\ lv2.curr = t[c]
  BY <1>3, <1>6, CutTurn DEF t
<1>8. ASSUME NEW k \in 1 .. Len(s), k # d
      PROVE  /\ k < d => k \in DOMAIN t /\ t[k] = s[k]
             /\ k > d => k - 1 \in DOMAIN t /\ t[k - 1] = s[k]
  <2>1. /\ k < d => k \in 1 .. Len(s) - 1
        /\ k > d => k - 1 \in 1 .. Len(s) - 1 /\ k - 1 >= d /\ (k - 1) + 1 = k
    BY <1>5, <1>8
  <2> QED BY <1>2, <2>1
<1>9. PICK x \in DOMAIN t : t[x] = a /\ (i < d => x = i) /\ (i > d => x = i - 1)
  <2>1. i < d \/ i > d
    BY <1>4, <1>5
  <2>2. CASE i < d
    BY <1>3, <1>4, <1>5, <1>8, <2>2
  <2>3. CASE i > d
    BY <1>3, <1>4, <1>5, <1>8, <2>3
  <2> QED BY <2>1, <2>2, <2>3
<1>10. PICK y \in DOMAIN t : t[y] = b /\ (j < d => y = j) /\ (j > d => y = j - 1)
  <2>1. j < d \/ j > d
    BY <1>4, <1>5
  <2>2. CASE j < d
    BY <1>3, <1>4, <1>5, <1>8, <2>2
  <2>3. CASE j > d
    BY <1>3, <1>4, <1>5, <1>8, <2>3
  <2> QED BY <2>1, <2>2, <2>3
<1>11. x \in Int /\ y \in Int /\ (i < d \/ i > d) /\ (j < d \/ j > d)
  BY <1>2, <1>4, <1>5
<1>12. CASE d < c
  <2>1. Before(y, x, c - 1)
    BY <1>3, <1>5, <1>9, <1>10, <1>11, <1>12 DEF Before
  <2> QED BY <1>7, <1>9, <1>10, <1>12, <2>1 DEF Ordered, t
<1>13. CASE d = c /\ d = Len(s)
  <2>1. Before(y, x, 1)
    BY <1>3, <1>5, <1>9, <1>10, <1>11, <1>13 DEF Before
  <2> QED BY <1>7, <1>9, <1>10, <1>13, <2>1 DEF Ordered, t
<1>14. CASE d > c \/ (d = c /\ d # Len(s))
  <2>1. Before(y, x, c)
    BY <1>3, <1>5, <1>9, <1>10, <1>11, <1>14 DEF Before
  <2> QED BY <1>7, <1>9, <1>10, <1>14, <2>1 DEF Ordered, t
<1>15. d < c \/ (d = c /\ d = Len(s)) \/ d > c \/ (d = c /\ d # Len(s))
  BY <1>5
<1> QED BY <1>12, <1>13, <1>14, <1>15

\* Who runs goes to the end of the order: everybody else of the level is before
\* it, and the order among the others is kept.
LEMMA OrderedTurn ==
  ASSUME NEW nodes, NEW lv, NEW s, Chain(nodes, lv, s), NEW c \in DOMAIN s, lv.curr = s[c],
         NEW curr,
         c = Len(s) => 1 \in DOMAIN s /\ curr = s[1],
         c # Len(s) => c + 1 \in DOMAIN s /\ curr = s[c + 1],
         NEW a, NEW b, b # s[c],
         Ordered(s, lv.curr, a, b) \/ (a = s[c] /\ \E k \in DOMAIN s : b = s[k])
  PROVE  Ordered(s, curr, a, b)
<1>1. s \in Seq(Addr) /\ Len(s) \in Nat /\ DOMAIN s = 1 .. Len(s)
  BY ChainType
<1>2. Len(s) \in Nat /\ c \in 1 .. Len(s)
  BY <1>1
<1>3. PICK i, j \in DOMAIN s : s[i] = a /\ s[j] = b /\ j # c /\ (Before(j, i, c) \/ i = c)
  <2>1. CASE a = s[c] /\ \E k \in DOMAIN s : b = s[k]
    BY <2>1
  <2>2. CASE Ordered(s, lv.curr, a, b)
    <3>1. PICK i, j, e \in DOMAIN s : s[i] = a /\ s[j] = b /\ s[e] = lv.curr /\ Before(j, i, e)
      BY <2>2 DEF Ordered
    <3>2. e = c /\ j # c
      BY <3>1 DEF Chain
    <3> QED BY <3>1, <3>2
  <2> QED BY <2>1, <2>2
<1>4. i \in 1 .. Len(s) /\ j \in 1 .. Len(s)
  BY <1>1
<1>5. CASE c = Len(s)
  <2>1. Before(j, i, 1)
    BY <1>2, <1>3, <1>4, <1>5 DEF Before
  <2> QED BY <1>3, <1>5, <2>1 DEF Ordered
<1>6. CASE c # Len(s)
  <2>1. Before(j, i, c + 1)
    BY <1>2, <1>3, <1>4, <1>6 DEF Before
  <2> QED BY <1>3, <1>6, <2>1 DEF Ordered
<1> QED BY <1>5, <1>6

\* Coming, leaving and failing calls keep the order of those who stay.
LEMMA CallKeepsOrder ==
  ASSUME IInv, OtherCall, NEW l \in Level, NEW a \in allocated', NEW b \in allocated',
         Waits(l, a, b)
  PROVE  Waits(l, a, b)'
<1>1. CASE UNCHANGED <<node, levels>>
  <2>1. List(l)' = List(l) /\ levels' = levels
    BY <1>1 DEF List, Walk
  <2> QED BY <2>1 DEF Waits
<1>2. ASSUME NEW p \in Pid, NEW priority \in 1 .. kLevels, NEW n \in Addr, addProcess(p, priority, n)
      PROVE  Waits(l, a, b)'
  <2>1. /\ Holds([m \in Level |-> IF m = priority - 1 THEN Append(List(m), n) ELSE List(m)],
                 node', levels', allocated')
        /\ \A m \in Level : levels[m].head # NULL => levels'[m].curr = levels[m].curr
    BY <1>2, AddStep
  <2>2. List(l)' = IF l = priority - 1 THEN Append(List(l), n) ELSE List(l)
    BY <2>1, ListsNext
  <2>3. List(l) \in Seq(Addr) /\ Chain(node, levels[l], List(l))
    BY ListFacts, ChainType
  <2>4. levels'[l].curr = levels[l].curr
    <3>1. PICK i \in DOMAIN List(l) : TRUE
      BY DEF Waits, Ordered
    <3>2. DOMAIN List(l) = 1 .. Len(List(l)) /\ Len(List(l)) \in Nat /\ \A k \in DOMAIN List(l) : List(l)[k] \in Addr
      BY ListFacts
    <3>3. Len(List(l)) \in Nat /\ i \in 1 .. Len(List(l))
      BY <3>2
    <3>4. Len(List(l)) # 0 /\ 1 \in 1 .. Len(List(l))
      BY <3>3
    <3>5. List(l)[1] # NULL
      BY <3>2, <3>4, ConstantFacts
    <3>6. levels[l].head # NULL
      BY <2>3, <3>4, <3>5 DEF Chain
    <3> QED BY <2>1, <3>6
  <2> QED BY <2>2, <2>3, <2>4, OrderedAppend DEF Waits
<1>3. ASSUME NEW p \in Pid, removeProcess(p)
      PROVE  Waits(l, a, b)'
  <2>1. PICK m \in Level, k \in Steps :
          /\ IsFirst(p, m, k)
          /\ LET n == Walk(m)[k]
             IN  (UnlinkHead(m, n) \/ UnlinkTail(m, n) \/ UnlinkMiddle(m, n)) /\ free(n)
    BY <1>3 DEF removeProcess
  <2> DEFINE n == Walk(m)[k]
  <2>2. /\ n # NULL /\ free(n)
        /\ UnlinkHead(m, n) \/ UnlinkTail(m, n) \/ UnlinkMiddle(m, n)
        /\ UNCHANGED <<current, pid, time, undefined>>
    BY <1>3, <2>1 DEF IsFirst, removeProcess
  <2> HIDE DEF n
  <2>3. /\ k + 1 \in DOMAIN List(m) /\ List(m)[k + 1] = n
        /\ CutsOut(node, levels[m], List(m), k + 1, node', levels'[m])
        /\ Holds([o \in Level |-> IF o = m THEN Cut(List(m), k + 1) ELSE List(o)],
                 node', levels', allocated')
        /\ \A o \in Level : o # m => levels'[o] = levels[o]
    BY <2>2, RemoveStep DEF n
  <2>4. List(l)' = IF l = m THEN Cut(List(m), k + 1) ELSE List(l)
    BY <2>3, ListsNext
  <2>5. a # n /\ b # n
    BY <2>2 DEF free
  <2>6. CASE l = m
    <3>1. Chain(node, levels[m], List(m))
      BY ListFacts
    <3>2. Ordered(Cut(List(m), k + 1), levels'[m].curr, a, b)
      BY <2>3, <2>5, <2>6, <3>1, OrderedCut DEF Waits
    <3> QED BY <2>4, <2>6, <3>2 DEF Waits
  <2>7. CASE l # m
    BY <2>3, <2>4, <2>7 DEF Waits
  <2> QED BY <2>6, <2>7
<1> QED BY <1>1, <1>2, <1>3
        DEF OtherCall, addProcessFails, removeProcessFails, nextProcessNone, nextProcessBeyond, vars

\* A turn puts who runs behind everybody else of its level.
LEMMA TurnKeepsOrder ==
  ASSUME IInv, OrderInv, MCTurn
  PROVE  OrderInv'
<1>1. UNCHANGED <<node, allocated, undefined>>
  BY DEF MCTurn, nextProcess
<1>2. PICK l \in Serving : Take(l, levels[l].curr)
  BY DEF MCTurn, nextProcess
<1>3. PICK m \in Serving :
        ahead' = {ab \in ahead : ab[2] # levels[m].curr} \cup ({levels[m].curr} \X (Nodes(m) \ {levels[m].curr}))
  BY DEF MCTurn
<1>4. m = l
  <2>1. /\ current \in Int /\ kLevels \in Int
        /\ l \in current .. kLevels - 1 /\ m \in current .. kLevels - 1
        /\ levels[l].curr # NULL /\ levels[m].curr # NULL
        /\ \A o \in current .. l - 1 : levels[o].curr = NULL
        /\ \A o \in current .. m - 1 : levels[o].curr = NULL
    BY ConstantFacts DEF Serving, IInv, TypeOK, Level
  <2>2. m < l => m \in current .. l - 1
    BY <2>1
  <2>3. l < m => l \in current .. m - 1
    BY <2>1
  <2> QED BY <2>1, <2>2, <2>3
<1>5. /\ l \in Level
      /\ \A o \in Level : o # l => levels'[o] = levels[o]
      /\ Holds([o \in Level |-> List(o)], node', levels', allocated')
  BY <1>1, <1>2, TakeStep
<1>6. PICK c \in DOMAIN List(l) :
        /\ levels[l].curr = List(l)[c]
        /\ c = Len(List(l)) => 1 \in DOMAIN List(l) /\ levels'[l].curr = List(l)[1]
        /\ c # Len(List(l)) => c + 1 \in DOMAIN List(l) /\ levels'[l].curr = List(l)[c + 1]
  BY <1>1, <1>2, TakeStep
<1>7. \A o \in Level : List(o)' = List(o)
  BY <1>5, ListsNext
<1>8. Chain(node, levels[l], List(l)) /\ Nodes(l) = {List(l)[i] : i \in DOMAIN List(l)}
  BY <1>5, ListFacts
<1>9. ASSUME NEW a, NEW b, <<a, b>> \in ahead'
      PROVE  \E o \in Level : Waits(o, a, b)'
  <2>1. \/ <<a, b>> \in ahead /\ b # levels[l].curr
        \/ a = levels[l].curr /\ b \in Nodes(l) \ {levels[l].curr}
    BY <1>3, <1>4, <1>9
  <2>2. CASE a = levels[l].curr /\ b \in Nodes(l) \ {levels[l].curr}
    <3>1. b # List(l)[c] /\ a = List(l)[c] /\ \E k \in DOMAIN List(l) : b = List(l)[k]
      BY <1>6, <1>8, <2>2
    <3>2. Ordered(List(l), levels'[l].curr, a, b)
      BY <1>6, <1>8, <3>1, OrderedTurn
    <3> QED BY <1>5, <1>7, <3>2 DEF Waits
  <2>3. CASE <<a, b>> \in ahead /\ b # levels[l].curr
    <3>1. PICK o \in Level : Waits(o, a, b)
      BY <2>3 DEF OrderInv
    <3>2. CASE o = l
      <4>1. Ordered(List(l), levels[l].curr, a, b) /\ b # List(l)[c]
        BY <1>6, <2>3, <3>1, <3>2 DEF Waits
      <4>2. Ordered(List(l), levels'[l].curr, a, b)
        BY <1>6, <1>8, <4>1, OrderedTurn
      <4> QED BY <1>5, <1>7, <4>2 DEF Waits
    <3>3. CASE o # l
      BY <1>5, <1>7, <3>1, <3>3 DEF Waits
    <3> QED BY <3>2, <3>3
  <2> QED BY <2>1, <2>2, <2>3
<1> QED BY <1>9 DEF OrderInv

LEMMA HistoryStep == [MCNext]_<<vars, ahead>> => [Next]_vars
BY DEF MCNext, MCCall, MCTurn, Next

LEMMA OrderStep == IInv /\ OrderInv /\ [MCNext]_<<vars, ahead>> => OrderInv'
<1> SUFFICES ASSUME IInv, OrderInv, [MCNext]_<<vars, ahead>> PROVE OrderInv'
  OBVIOUS
<1>1. CASE MCTurn
  BY <1>1, TurnKeepsOrder
<1>2. CASE MCCall
  <2>1. ASSUME NEW a, NEW b, <<a, b>> \in ahead'
        PROVE  \E l \in Level : Waits(l, a, b)'
    <3>1. <<a, b>> \in ahead /\ a \in allocated' /\ b \in allocated' /\ OtherCall
      BY <1>2, <2>1 DEF MCCall
    <3> QED BY <3>1, CallKeepsOrder DEF OrderInv
  <2> QED BY <2>1 DEF OrderInv
<1>3. CASE UNCHANGED <<vars, ahead>>
  <2>1. node' = node /\ levels' = levels /\ ahead' = ahead
    BY <1>3 DEF vars
  <2>2. \A l \in Level : List(l)' = List(l)
    BY <2>1 DEF List, Walk
  <2> QED BY <2>1, <2>2 DEF OrderInv, Waits
<1> QED BY <1>1, <1>2, <1>3 DEF MCNext

\* The history of MCScheduler only watches: with it the scheduler does what
\* schedule.cc does, so that what holds of Spec holds of MCSpec.
THEOREM HistoryWatches == MCSpec => Spec
<1>1. MCInit => init
  BY DEF MCInit
<1> QED BY <1>1, HistoryStep, PTL DEF MCSpec, Spec

\* The process whose turn comes has not run since any other member of its level
\* last ran or came, whatever joined and left in between.
THEOREM OrderCorrect == MCSpec => []NoOvertaking
<1>1. MCInit => OrderInv
  BY DEF MCInit, OrderInv
<1>2. IInv /\ OrderInv => NoOvertaking
  <2>1. ASSUME IInv, OrderInv, NEW l \in Level, NEW b \in Addr, <<levels[l].curr, b>> \in ahead
        PROVE  FALSE
    <3>1. PICK m \in Level : Waits(m, levels[l].curr, b)
      BY <2>1 DEF OrderInv
    <3>2. PICK i \in DOMAIN List(m) : List(m)[i] = levels[l].curr
      BY <3>1 DEF Waits, Ordered
    <3>3. m = l
      <4>1. List(m)[i] # NULL
        BY <2>1, ListFacts, ConstantFacts
      <4>2. Len(List(l)) # 0
        BY <2>1, <3>2, <4>1, ListFacts DEF Chain
      <4>3. PICK c \in DOMAIN List(l) : levels[l].curr = List(l)[c]
        BY <2>1, <4>2, ListFacts DEF Chain
      <4> QED BY <2>1, <3>2, <4>3, ListFacts DEF Holds
    <3>4. Chain(node, levels[l], List(l))
      BY <2>1, ListFacts
    <3> QED BY <3>1, <3>3, <3>4, OrderedFirst DEF Waits
  <2> QED BY <2>1 DEF NoOvertaking
<1>3. MCSpec => []IInv
  BY HistoryWatches, Invariance, PTL
<1> QED BY <1>1, <1>2, <1>3, OrderStep, PTL DEF MCSpec
=============================================================================
