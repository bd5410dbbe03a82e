----------------------------- MODULE PagersProof ----------------------------
(***************************************************************************)
(* Each pager of the repository is a pager that calls pagein and pageout   *)
(* as it likes, so that what PagerProof proves holds with each of them.    *)
(***************************************************************************)
EXTENDS PagerProof, MCPagers, WellFoundedInduction

\* What the turn of a pager comes to.
LEMMA Calls ==
  ASSUME phase = "pageit", phase' \in {"pageit", NextTick, "done"}, UNCHANGED <<queue, i>>,
         NEW s \in Slot, NEW p,
         \/ UNCHANGED <<processes, pagesavail>>
         \/ PageInOk(s, p) /\ PageIn(s, p)
         \/ PageOutOk(s, p) /\ PageOut(s, p)
  PROVE  AnyNext
<1>1. CASE UNCHANGED <<processes, pagesavail>>
  BY <1>1 DEF AnyNext, CallNothing, GoesOn
<1>2. CASE PageInOk(s, p) /\ PageIn(s, p)
  BY <1>2 DEF AnyNext, CallPageIn, GoesOn, PageInOk
<1>3. CASE PageOutOk(s, p) /\ PageOut(s, p)
  BY <1>3 DEF AnyNext, CallPageOut, GoesOn, PageOutOk
<1> QED BY <1>1, <1>2, <1>3

LEMMA BasicStepAny == BasicStep => AnyNext
<1>1. ASSUME BasicNothing PROVE AnyNext
  BY <1>1 DEF BasicNothing, BasicPageit, AnyNext, CallNothing, GoesOn
<1>2. ASSUME NEW s \in Slot, BasicSwapIn(s) PROVE AnyNext
  BY <1>2, Calls DEF BasicSwapIn, BasicPageit
<1>3. ASSUME NEW s \in Slot, BasicSwapOut(s) PROVE AnyNext
  BY <1>3, Calls DEF BasicSwapOut, BasicPageit, Victims
<1> QED BY <1>1, <1>2, <1>3 DEF BasicStep

LEMMA TurnAny ==
  ASSUME NEW s \in Slot, Turn(s), NextSlot, NEW p,
         \/ UNCHANGED <<processes, pagesavail>>
         \/ PageInOk(s, p) /\ PageIn(s, p)
         \/ PageOutOk(s, p) /\ PageOut(s, p)
  PROVE  AnyNext
BY Calls DEF Turn, NextSlot

LEMMA LRUStepAny == LRUStep => AnyNext
<1> SUFFICES ASSUME NEW s \in Slot, SkipInactive(s) \/ StampResident(s) \/ SwapIn(s) \/ SwapOut(s)
             PROVE  AnyNext
  BY DEF LRUStep
<1>1. CASE SkipInactive(s) \/ StampResident(s)
  BY <1>1, TurnAny DEF SkipInactive, StampResident
<1>2. CASE SwapIn(s)
  BY <1>2, TurnAny DEF SwapIn
<1>3. CASE SwapOut(s)
  <2> DEFINE p == Lowest(s)
  <2>1. (PageOutOk(s, p) /\ PageOut(s, p)) \/ UNCHANGED <<processes, pagesavail>>
    BY <1>3 DEF SwapOut
  <2> HIDE DEF p
  <2> QED BY <1>3, <2>1, TurnAny DEF SwapOut
<1> QED BY <1>1, <1>2, <1>3

LEMMA SwapOutLowestCalls ==
  ASSUME NEW s \in Slot, NEW ps, SwapOutLowest(s, ps)
  PROVE  \E p \in {lowest_index(s, ps)} :
           (PageOutOk(s, p) /\ PageOut(s, p)) \/ UNCHANGED <<processes, pagesavail>>
BY DEF SwapOutLowest

LEMMA PredictStepAny == PredictStep => AnyNext
<1> SUFFICES ASSUME PredictStep PROVE AnyNext
  OBVIOUS
<1>1. PICK s \in Slot :
        \/ SkipInactive(s)
        \/ NeedResident(s) \/ NeedSwapIn(s) \/ NeedSwapOut(s)
        \/ \E p \in Page : PredictNothing(s, p) \/ PredictSwapIn(s, p) \/ PredictSwapOut(s, p)
  BY DEF PredictStep
<1>2. CASE SkipInactive(s)
  BY <1>2, TurnAny DEF SkipInactive
<1>3. CASE NeedResident(s)
  BY <1>3, Calls DEF NeedResident, Need, Turn
<1>4. CASE NeedSwapIn(s)
  BY <1>4, Calls DEF NeedSwapIn, Need, Turn
<1>5. CASE NeedSwapOut(s)
  BY <1>5, Calls, SwapOutLowestCalls DEF NeedSwapOut, Need, Turn
<1>6. ASSUME NEW p \in Page, PredictNothing(s, p) PROVE AnyNext
  BY <1>6, TurnAny DEF PredictNothing, Predict
<1>7. ASSUME NEW p \in Page, PredictSwapIn(s, p) PROVE AnyNext
  BY <1>7, TurnAny DEF PredictSwapIn, Predict
<1>8. ASSUME NEW p \in Page, PredictSwapOut(s, p) PROVE AnyNext
  BY <1>8, TurnAny, SwapOutLowestCalls DEF PredictSwapOut, Predict
<1> QED BY <1>1, <1>2, <1>3, <1>4, <1>5, <1>6, <1>7, <1>8

LEMMA TestStepAny == TestStep => AnyNext
<1>1. 0 \in Slot
  BY ConstantFacts
<1>2. ASSUME TestOut PROVE AnyNext
  BY <1>1, <1>2, Calls DEF TestOut, Returns
<1>3. ASSUME TestIn PROVE AnyNext
  BY <1>1, <1>3, Calls DEF TestIn, Returns
<1>4. ASSUME TestWaits PROVE AnyNext
  BY <1>1, <1>4, Calls DEF TestWaits, Returns
<1> QED BY <1>2, <1>3, <1>4 DEF TestStep
-----------------------------------------------------------------------------
(* The theorems                                                            *)

\* The basic pager is a pager that calls pagein and pageout as it likes.
THEOREM BasicImplementsAny == BasicSpec => AnySpec
<1>1. BasicNext => AnyNext
  BY BasicStepAny DEF BasicNext, AnyNext
<1> QED BY <1>1, PTL DEF BasicSpec, AnySpec

\* So is the LRU pager, its timestamps left aside.
THEOREM LRUImplementsAny == LRUSpec => AnySpec
<1>1. LRUInit => Init
  BY DEF LRUInit
<1>2. [LRUNext]_LRUVars => [AnyNext]_simVars
  BY LRUStepAny DEF LRUNext, AnyNext, LRUVars
<1> QED BY <1>1, <1>2, PTL DEF LRUSpec, AnySpec

\* So is the predictive pager, whatever it predicts.
THEOREM PredictImplementsAny == PredictSpec => AnySpec
<1>1. PredictInit => Init
  BY DEF PredictInit
<1>2. [PredictNext]_PredictVars => [AnyNext]_simVars
  BY PredictStepAny DEF PredictNext, AnyNext, PredictVars
<1> QED BY <1>1, <1>2, PTL DEF PredictSpec, AnySpec

\* So is the test of the interface.
THEOREM TestImplementsAny == TestSpec => AnySpec
<1>1. [TestNext]_<<simVars, testVars>> => [AnyNext]_simVars
  BY TestStepAny DEF TestNext, AnyNext
<1> QED BY <1>1, PTL DEF TestSpec, AnySpec

\* With each of the repository's pagers no page frame is lost or given out twice.
THEOREM FramesCorrectForAll ==
  BasicSpec \/ LRUSpec \/ PredictSpec \/ TestSpec => []FramesConserved
BY BasicImplementsAny, LRUImplementsAny, PredictImplementsAny, TestImplementsAny, FramesCorrect, PTL
-----------------------------------------------------------------------------
(* The order of timestamps                                                 *)

In(seq, p)          == \E k \in DOMAIN seq : seq[k] = p
Precedes(seq, p, r) == \E j, k \in DOMAIN seq : j < k /\ seq[j] = p /\ seq[k] = r
Distinct(seq)       == \A j, k \in DOMAIN seq : seq[j] = seq[k] => j = k
Latest(seq, p)      == In(seq, p) /\ \A r : ~Precedes(seq, p, r)

\* A nonempty set of natural numbers has a least element.
LEMMA LeastNumber ==
  ASSUME NEW S \in SUBSET Nat, S # {}
  PROVE  \E m \in S : \A n \in S : m <= n
<1>1. \E m \in S : \A n \in S : <<n, m>> \notin OpToRel(<, Nat)
  BY NatLessThanWellFounded, WFMin
<1>2. \A m, n \in S : m < n => <<m, n>> \in OpToRel(<, Nat)
  BY DEF OpToRel
<1>3. PICK m \in S : \A n \in S : ~(n < m)
  BY <1>1, <1>2
<1>4. \A n \in S : m <= n
  BY <1>3
<1> QED BY <1>4

\* RemoveAt takes one element out.
LEMMA RemoveAtIs ==
  ASSUME NEW S, NEW seq \in Seq(S), NEW c \in DOMAIN seq
  PROVE  RemoveAt(seq, c) = [k \in 1 .. Len(seq) - 1 |-> IF k < c THEN seq[k] ELSE seq[k + 1]]
<1> DEFINE a == SubSeq(seq, 1, c - 1)
           b == SubSeq(seq, c + 1, Len(seq))
           t == a \o b
<1>1. Len(seq) \in Nat /\ DOMAIN seq = 1 .. Len(seq) /\ \A k \in 1 .. Len(seq) : seq[k] \in S
  BY LenProperties
<1>2. Len(seq) \in Nat /\ c \in 1 .. Len(seq)
  BY <1>1
<1>3. /\ 1 \in Int /\ c - 1 \in Int /\ c + 1 \in Int /\ Len(seq) \in Int
      /\ \A k \in 1 .. c - 1 : k \in 1 .. Len(seq)
      /\ \A k \in c + 1 .. Len(seq) : k \in 1 .. Len(seq)
  BY <1>2
<1>4. a \in Seq(S) /\ Len(a) = c - 1 /\ \A k \in 1 .. c - 1 : a[k] = seq[k]
  <2>1. /\ a \in Seq(S) /\ Len(a) = IF 1 <= c - 1 THEN (c - 1) - 1 + 1 ELSE 0
        /\ \A k \in 1 .. (c - 1) - 1 + 1 : a[k] = seq[1 + k - 1]
    BY <1>1, <1>3, SubSeqProperties
  <2> HIDE DEF a
  <2>2. (c - 1) - 1 + 1 = c - 1 /\ \A k \in 1 .. c - 1 : 1 + k - 1 = k
    BY <1>2
  <2> QED BY <1>2, <2>1, <2>2
<1>5. b \in Seq(S) /\ Len(b) = Len(seq) - c /\ \A k \in 1 .. Len(seq) - c : b[k] = seq[c + k]
  <2>1. /\ b \in Seq(S) /\ Len(b) = IF c + 1 <= Len(seq) THEN Len(seq) - (c + 1) + 1 ELSE 0
        /\ \A k \in 1 .. Len(seq) - (c + 1) + 1 : b[k] = seq[(c + 1) + k - 1]
    BY <1>1, <1>3, SubSeqProperties
  <2> HIDE DEF b
  <2>2. Len(seq) - (c + 1) + 1 = Len(seq) - c /\ \A k \in 1 .. Len(seq) - c : (c + 1) + k - 1 = c + k
    BY <1>2
  <2> QED BY <1>2, <2>1, <2>2
<1>6. RemoveAt(seq, c) = t
  BY DEF RemoveAt
<1> HIDE DEF a, b
<1>7. /\ t \in Seq(S) /\ Len(t) = Len(a) + Len(b)
      /\ \A k \in 1 .. Len(a) + Len(b) : t[k] = IF k <= Len(a) THEN a[k] ELSE b[k - Len(a)]
  BY <1>4, <1>5, ConcatProperties
<1> HIDE DEF t
<1>8. Len(a) + Len(b) = Len(seq) - 1
  BY <1>2, <1>4, <1>5
<1>9. t = [k \in 1 .. Len(seq) - 1 |-> t[k]]
  BY <1>7, <1>8, LenProperties
<1>10. ASSUME NEW k \in 1 .. Len(seq) - 1
       PROVE  t[k] = IF k < c THEN seq[k] ELSE seq[k + 1]
  <2>1. k \in 1 .. Len(a) + Len(b)
    BY <1>8
  <2>2. CASE k < c
    <3>1. k <= Len(a) /\ k \in 1 .. c - 1
      BY <1>2, <1>4, <2>2
    <3> QED BY <1>4, <1>7, <2>1, <2>2, <3>1
  <2>3. CASE ~(k < c)
    <3>1. ~(k <= Len(a)) /\ k - Len(a) \in 1 .. Len(seq) - c /\ c + (k - Len(a)) = k + 1
      BY <1>2, <1>4, <2>3
    <3>2. b[k - Len(a)] = seq[k + 1]
      BY <1>5, <3>1
    <3> QED BY <1>7, <2>1, <2>3, <3>1, <3>2
  <2> QED BY <2>2, <2>3
<1> QED BY <1>6, <1>9, <1>10

\* Without one of its elements a sequence has the others, in their order.
LEMMA RemoveKeeps ==
  ASSUME NEW seq \in Seq(Int), Distinct(seq), NEW e
  PROVE  LET t == RemoveFirst(seq, e)
         IN  /\ t \in Seq(Int) /\ Distinct(t)
             /\ \A p : In(t, p) <=> In(seq, p) /\ p # e
             /\ \A p, r : Precedes(t, p, r) <=> Precedes(seq, p, r) /\ p # e /\ r # e
<1> DEFINE t == RemoveFirst(seq, e)
<1>1. Len(seq) \in Nat /\ DOMAIN seq = 1 .. Len(seq) /\ \A k \in 1 .. Len(seq) : seq[k] \in Int
  BY LenProperties
<1>2. CASE ~In(seq, e)
  <2>1. t = seq
    BY <1>1, <1>2 DEF RemoveFirst, In
  <2> QED BY <1>2, <2>1 DEF In, Precedes
<1>3. CASE In(seq, e)
  <2> DEFINE c == Min({k \in 1 .. Len(seq) : seq[k] = e})
  <2>1. PICK d \in 1 .. Len(seq) : seq[d] = e
    BY <1>1, <1>3 DEF In
  <2>2. {k \in 1 .. Len(seq) : seq[k] = e} = {d}
    BY <1>1, <2>1 DEF Distinct
  <2>3. c = d
    <3>1. d <= d
      BY <2>1
    <3> QED BY <2>2, <3>1 DEF Min
  <2>4. t = RemoveAt(seq, d)
    BY <2>1, <2>2, <2>3 DEF RemoveFirst, SelectInSeq
  <2> HIDE DEF c, t
  <2>5. t = [k \in 1 .. Len(seq) - 1 |-> IF k < d THEN seq[k] ELSE seq[k + 1]]
    BY <1>1, <2>1, <2>4, RemoveAtIs
  <2>6. Len(seq) \in Nat /\ d \in 1 .. Len(seq) /\ Len(seq) - 1 \in Nat
    BY <1>1, <2>1
  <2>7. \A k \in 1 .. Len(seq) - 1 : k \in 1 .. Len(seq) /\ k + 1 \in 1 .. Len(seq)
    BY <2>6
  <2>8. DOMAIN t = 1 .. Len(seq) - 1 /\ t \in Seq(Int)
    <3>1. t \in [1 .. Len(seq) - 1 -> Int]
      BY <1>1, <2>5, <2>7
    <3> QED BY <2>5, <2>6, <3>1, SeqDef
  \* Where an element of t was, and where an element of seq is now.
  <2>9. \A k \in DOMAIN t : \E j \in DOMAIN seq :
          j # d /\ t[k] = seq[j] /\ (k < d => j = k) /\ (k >= d => j = k + 1)
    <3>1. ASSUME NEW k \in 1 .. Len(seq) - 1
          PROVE  \E j \in 1 .. Len(seq) :
                   j # d /\ t[k] = seq[j] /\ (k < d => j = k) /\ (k >= d => j = k + 1)
      <4>1. CASE k < d
        <5>1. k \in 1 .. Len(seq) /\ k # d /\ ~(k >= d)
          BY <2>6, <4>1
        <5> QED BY <2>5, <4>1, <5>1
      <4>2. CASE ~(k < d)
        <5>1. k + 1 \in 1 .. Len(seq) /\ k + 1 # d
          BY <2>6, <4>2
        <5> QED BY <2>5, <4>2, <5>1
      <4> QED BY <4>1, <4>2
    <3> QED BY <1>1, <2>8, <3>1
  <2>10. \A j \in DOMAIN seq : j # d => \E k \in DOMAIN t :
          t[k] = seq[j] /\ (j < d => k = j) /\ (j > d => k = j - 1)
    <3>1. ASSUME NEW j \in 1 .. Len(seq), j # d
          PROVE  \E k \in 1 .. Len(seq) - 1 :
                   t[k] = seq[j] /\ (j < d => k = j) /\ (j > d => k = j - 1)
      <4>1. CASE j < d
        <5>1. j \in 1 .. Len(seq) - 1 /\ ~(j > d)
          BY <2>6, <4>1
        <5> QED BY <2>5, <4>1, <5>1
      <4>2. CASE ~(j < d)
        <5>1. j - 1 \in 1 .. Len(seq) - 1 /\ ~(j - 1 < d) /\ (j - 1) + 1 = j
          BY <2>6, <3>1, <4>2
        <5> QED BY <2>5, <4>2, <5>1
      <4> QED BY <4>1, <4>2
    <3> QED BY <1>1, <2>8, <3>1
  <2>11. \A j, k \in DOMAIN t : j \in Int /\ k \in Int
    BY <2>8
  <2>12. d \in Int /\ \A j, k \in DOMAIN seq : j \in Int /\ k \in Int
    BY <1>1, <2>6
  <2>13. \A j \in DOMAIN seq : seq[j] = e <=> j = d
    BY <1>1, <2>1 DEF Distinct
  <2>14. Distinct(t)
    <3>1. ASSUME NEW j \in DOMAIN t, NEW k \in DOMAIN t, t[j] = t[k]
          PROVE  j = k
      <4>1. PICK v \in DOMAIN seq : v # d /\ t[j] = seq[v] /\ (j < d => v = j) /\ (j >= d => v = j + 1)
        BY <2>9
      <4>2. PICK w \in DOMAIN seq : w # d /\ t[k] = seq[w] /\ (k < d => w = k) /\ (k >= d => w = k + 1)
        BY <2>9
      <4>3. v = w
        BY <3>1, <4>1, <4>2 DEF Distinct
      <4>4. j \in Int /\ k \in Int /\ d \in Int
        BY <2>11, <2>12
      <4> QED BY <4>1, <4>2, <4>3, <4>4
    <3> QED BY <3>1 DEF Distinct
  <2>15. \A p : In(t, p) <=> In(seq, p) /\ p # e
    BY <2>9, <2>10, <2>13 DEF In
  <2>16. ASSUME NEW p, NEW r, Precedes(t, p, r)
         PROVE  Precedes(seq, p, r) /\ p # e /\ r # e
    <3>1. PICK j, k \in DOMAIN t : j < k /\ t[j] = p /\ t[k] = r
      BY <2>16 DEF Precedes
    <3>2. PICK v \in DOMAIN seq : v # d /\ t[j] = seq[v] /\ (j < d => v = j) /\ (j >= d => v = j + 1)
      BY <2>9
    <3>3. PICK w \in DOMAIN seq : w # d /\ t[k] = seq[w] /\ (k < d => w = k) /\ (k >= d => w = k + 1)
      BY <2>9
    <3>4. j \in Int /\ k \in Int /\ d \in Int
      BY <2>11, <2>12
    <3>5. v < w
      BY <3>1, <3>2, <3>3, <3>4
    <3> QED BY <2>13, <3>1, <3>2, <3>3, <3>5 DEF Precedes
  <2>17. ASSUME NEW p, NEW r, Precedes(seq, p, r), p # e, r # e
         PROVE  Precedes(t, p, r)
    <3>1. PICK j, k \in DOMAIN seq : j < k /\ seq[j] = p /\ seq[k] = r
      BY <2>17 DEF Precedes
    <3>2. j # d /\ k # d
      BY <2>1, <2>17, <3>1
    <3>3. PICK v \in DOMAIN t : t[v] = seq[j] /\ (j < d => v = j) /\ (j > d => v = j - 1)
      BY <2>10, <3>2
    <3>4. PICK w \in DOMAIN t : t[w] = seq[k] /\ (k < d => w = k) /\ (k > d => w = k - 1)
      BY <2>10, <3>2
    <3>5. j \in Int /\ k \in Int /\ d \in Int
      BY <2>12
    <3>6. v < w
      BY <3>1, <3>2, <3>3, <3>4, <3>5
    <3> QED BY <3>1, <3>3, <3>4, <3>6 DEF Precedes
  <2> QED BY <2>8, <2>14, <2>15, <2>16, <2>17 DEF t
<1> QED BY <1>2, <1>3

\* An element moved to the end: the others keep their order, and it is the last.
LEMMA MoveToEnd ==
  ASSUME NEW seq \in Seq(Int), Distinct(seq), NEW e \in Int
  PROVE  LET t == Append(RemoveFirst(seq, e), e)
         IN  /\ t \in Seq(Int) /\ Distinct(t) /\ Latest(t, e)
             /\ \A p : In(t, p) <=> In(seq, p) \/ p = e
             /\ \A p, r : Precedes(t, p, r) <=>
                  (Precedes(seq, p, r) /\ p # e /\ r # e) \/ (In(seq, p) /\ p # e /\ r = e)
<1> DEFINE u == RemoveFirst(seq, e)
           t == Append(u, e)
<1>1. /\ u \in Seq(Int) /\ Distinct(u)
      /\ \A p : In(u, p) <=> In(seq, p) /\ p # e
      /\ \A p, r : Precedes(u, p, r) <=> Precedes(seq, p, r) /\ p # e /\ r # e
  BY RemoveKeeps
<1> HIDE DEF u
<1>2. Len(u) \in Nat /\ DOMAIN u = 1 .. Len(u)
  BY <1>1, LenProperties
<1>3. Len(u) \in Nat
  BY <1>2
<1>4. /\ t \in Seq(Int) /\ Len(t) = Len(u) + 1 /\ t[Len(u) + 1] = e
      /\ \A k \in 1 .. Len(u) : t[k] = u[k]
  BY <1>1, AppendProperties
<1>5. DOMAIN t = 1 .. Len(u) + 1
  BY <1>4, LenProperties
<1> HIDE DEF t
<1>6. /\ \A k \in DOMAIN t : k = Len(u) + 1 \/ (k \in DOMAIN u /\ t[k] = u[k])
      /\ \A k \in DOMAIN u : k \in DOMAIN t /\ t[k] = u[k] /\ u[k] # e /\ k < Len(u) + 1
      /\ Len(u) + 1 \in DOMAIN t
  <2>1. /\ \A k \in 1 .. Len(u) + 1 : k = Len(u) + 1 \/ k \in 1 .. Len(u)
        /\ \A k \in 1 .. Len(u) : k \in 1 .. Len(u) + 1 /\ k < Len(u) + 1
        /\ Len(u) + 1 \in 1 .. Len(u) + 1
    BY <1>3
  <2>2. \A k \in DOMAIN u : u[k] # e
    BY <1>1 DEF In
  <2> QED BY <1>2, <1>4, <1>5, <2>1, <2>2
<1>7. Distinct(t)
  BY <1>1, <1>4, <1>6 DEF Distinct
<1>8. \A p : In(t, p) <=> In(u, p) \/ p = e
  BY <1>4, <1>6 DEF In
<1>9. ASSUME NEW p, NEW r
      PROVE  Precedes(t, p, r) <=> Precedes(u, p, r) \/ (In(u, p) /\ r = e)
  <2>1. ASSUME Precedes(t, p, r)
        PROVE  Precedes(u, p, r) \/ (In(u, p) /\ r = e)
    <3>1. PICK j, k \in DOMAIN t : j < k /\ t[j] = p /\ t[k] = r
      BY <2>1 DEF Precedes
    <3>2. j \in DOMAIN u
      <4>1. j \in Int /\ k \in Int /\ k <= Len(u) + 1
        BY <1>3, <1>5
      <4>2. j # Len(u) + 1
        BY <1>3, <3>1, <4>1
      <4> QED BY <1>6, <4>2
    <3> QED BY <1>4, <1>6, <3>1, <3>2 DEF Precedes, In
  <2>2. ASSUME Precedes(u, p, r) PROVE Precedes(t, p, r)
    BY <1>6, <2>2 DEF Precedes
  <2>3. ASSUME In(u, p), r = e PROVE Precedes(t, p, r)
    BY <1>4, <1>6, <2>3 DEF Precedes, In
  <2> QED BY <2>1, <2>2, <2>3
<1>10. Latest(t, e)
  <2>1. \A r : ~Precedes(u, e, r)
    BY <1>1
  <2> QED BY <1>1, <1>8, <1>9, <2>1 DEF Latest
<1> QED BY <1>1, <1>4, <1>7, <1>8, <1>9, <1>10 DEF t, u

\* The oldest timestamp is before all others that are looked at.
LEMMA OldestFirst ==
  ASSUME NEW s, stamped[s] \in Seq(Int), NEW ps, NEW none, NEW r, In(stamped[s], r), r \notin ps,
         r # Oldest(s, ps, none)
  PROVE  Precedes(stamped[s], Oldest(s, ps, none), r)
<1> DEFINE seq == stamped[s]
           K == Others(s, ps)
<1>1. Len(seq) \in Nat /\ DOMAIN seq = 1 .. Len(seq)
  BY LenProperties
<1>2. K = {k \in DOMAIN seq : seq[k] \notin ps}
  BY DEF Others
<1>3. PICK k \in K : seq[k] = r
  BY <1>2 DEF In
<1>4. K \subseteq Nat /\ K # {}
  BY <1>1, <1>2, <1>3
<1>5. PICK m \in K : \A n \in K : m <= n
  BY <1>4, LeastNumber
<1>6. Min(K) = CHOOSE m1 \in K : \A n \in K : m1 =< n
  BY DEF Min
<1> HIDE DEF K
<1>7. Min(K) \in K /\ \A n \in K : Min(K) <= n
  BY <1>5, <1>6
<1>8. Oldest(s, ps, none) = seq[Min(K)]
  BY <1>4 DEF Oldest, K
<1>9. Min(K) \in DOMAIN seq /\ k \in DOMAIN seq
  BY <1>2, <1>3, <1>7
<1>10. Min(K) # k
  BY <1>3, <1>8
<1>11. Min(K) \in Int /\ k \in Int /\ Min(K) <= k
  <2>1. Min(K) \in Nat /\ k \in Nat
    BY <1>3, <1>4, <1>7
  <2>2. Min(K) <= k
    BY <1>3, <1>7
  <2> QED BY <2>1, <2>2
<1>12. Min(K) < k
  BY <1>10, <1>11
<1> QED BY <1>3, <1>8, <1>9, <1>12 DEF Precedes
-----------------------------------------------------------------------------
(* The timestamps of the LRU pager                                         *)

\* Has pageit been at slot s since its process last ran?
Due(s) == (phase = "step" /\ i <= s) \/ (phase = "pageit" /\ s < x)

\* Only the page that is needed comes in; a page in memory has a timestamp, and
\* the one that is needed has the last.
SlotInv(s) ==
  active(s) =>
    /\ \A p \in Page : processes[s].pages[p] > 0 => p = Needed(s)
    /\ \A p \in Page : processes[s].pages[p] = 0 =>
         In(stamped[s], p) \/ (phase = "pageit" /\ x <= s /\ p = Needed(s))
    /\ Due(s) /\ Runnable(s) /\ Needed(s) \in Page => Latest(stamped[s], Needed(s))
    /\ phase = "init" => ~Runnable(s)

LoopInv ==
  /\ x \in Slot
  /\ phase # "pageit" => x = 0
  /\ phase \notin {"init", "step"} => i = 0
  /\ stamped \in [Slot -> Seq(Int)] /\ \A s \in Slot : Distinct(stamped[s])

LRUInv == LoopInv /\ \A s \in Slot : SlotInv(s)

\* A slot that nothing happens to.
LEMMA SlotKept ==
  ASSUME NEW s \in Slot, SlotInv(s), processes'[s] = processes[s], stamped'[s] = stamped[s],
         phase = "pageit" /\ x <= s => phase' = "pageit" /\ x' <= s,
         Due(s)' => Due(s) \/ ~Runnable(s),
         phase' = "init" => phase = "init"
  PROVE  SlotInv(s)'
<1>1. active(s)' = active(s) /\ Needed(s)' = Needed(s) /\ Runnable(s)' = Runnable(s)
  BY DEF active, Needed, Runnable
<1> QED BY <1>1 DEF SlotInv

\* The page that a new process needs is not in memory.
LEMMA NewNeeds == 0 \div PAGESIZE \in Page
<1>1. PAGESIZE \in Nat \ {0} /\ MAXPROCPAGES \in Nat \ {0}
  BY SimulatorAssumption
<1>2. 0 \div PAGESIZE = 0
  BY <1>1
<1> QED BY <1>1, <1>2 DEF Page

LEMMA NeededInt ==
  ASSUME TypeOK, NEW s \in Slot, active(s)
  PROVE  Needed(s) \in Int
<1>1. processes[s].pc \in Nat /\ PAGESIZE \in Nat \ {0}
  BY SlotType, SimulatorAssumption DEF Process
<1> QED BY <1>1 DEF Needed

\* Reload leaves a process none of whose pages is in memory, or none.
LEMMA ReloadNew ==
  ASSUME TypeOK, Reload
  PROVE  \A s \in Slot : /\ s # i => processes'[s] = processes[s]
                         /\ s = i => SlotInv(s)' /\ ~Runnable(s)'
<1>1. i \in Slot /\ processes \in [Slot -> Process \cup {IDLE}]
  BY DEF TypeOK
<1>2. CASE processes' = [processes EXCEPT ![i] = IDLE]
  <2>1. ASSUME NEW s \in Slot, s = i PROVE ~active(s)'
    BY <1>1, <1>2, <2>1 DEF active
  <2>2. \A s \in Slot : ~active(s)' => SlotInv(s)' /\ ~Runnable(s)'
    BY DEF SlotInv, Runnable
  <2> QED BY <1>1, <1>2, <2>1, <2>2
<1>3. ASSUME NEW q \in process_load(Head(queue)), processes' = [processes EXCEPT ![i] = q],
             NEW s \in Slot, s = i
      PROVE  SlotInv(s)' /\ ~Runnable(s)'
  <2>1. q.pc = 0 /\ q.pages = [p \in Page |-> Out]
    BY DEF process_load
  <2>2. processes'[s] = q
    BY <1>1, <1>3
  <2>3. \A p \in Page : processes'[s].pages[p] = Out
    BY <2>1, <2>2
  <2>4. Needed(s)' \in Page
    BY <2>1, <2>2, NewNeeds DEF Needed
  <2>5. ~Runnable(s)'
    BY <2>3, <2>4, ConstantFacts DEF Runnable
  <2>6. SlotInv(s)'
    BY <2>3, <2>5, ConstantFacts DEF SlotInv
  <2> QED BY <2>5, <2>6
<1> QED BY <1>1, <1>2, <1>3 DEF Reload

\* A process that runs stays in memory with its pages.
LEMMA StepRuns ==
  ASSUME TypeOK, StepBranch \/ StepDefault
  PROVE  /\ i \in Slot /\ phase = "step" /\ Runnable(i) /\ Advance("age")
         /\ \A s \in Slot : s # i => processes'[s] = processes[s]
         /\ processes'[i].pages = processes[i].pages /\ active(i)
<1>1. /\ i \in Slot /\ processes \in [Slot -> Process \cup {IDLE}] /\ active(i)
      /\ processes[i] \in Process /\ Runnable(i) /\ phase = "step" /\ Advance("age")
  BY DEF TypeOK, StepBranch, StepDefault, Runnable, active
<1>2. CASE StepDefault
  <2>1. PICK z : processes' = [processes EXCEPT ![i].pc = z]
    BY <1>2 DEF StepDefault
  <2> QED BY <1>1, <2>1 DEF Process
<1>3. CASE StepBranch
  <2> DEFINE q == processes[i]
             Goes(k) == IF q.bcontexts[k].bvalue THEN Table(q.program)[k].whereto ELSE q.pc + 1
             Lands(k) == IF Goes(k) \in 0 .. q.program.size - 1 THEN Goes(k) ELSE 0
  <2>0. PICK k \in DOMAIN Table(q.program) :
          \E c \in bcontext_decide(Table(q.program)[k], q.bcontexts[k]) :
            processes' = [processes EXCEPT ![i].pc = Lands(k), ![i].bcontexts[k] = c]
    BY <1>3 DEF StepBranch
  <2> HIDE DEF Lands
  <2>1. PICK z, c : processes' = [processes EXCEPT ![i].pc = z, ![i].bcontexts[k] = c]
    BY <2>0
  <2> DEFINE P == [processes EXCEPT ![i].pc = z]
  <2>2. /\ P \in [Slot -> [program : Program, pc : {z}, pages : [Page -> Out .. PAGEWAIT], bcontexts : Seq(Context)]
                            \cup Process \cup {IDLE}]
        /\ P[i].pages = processes[i].pages /\ \A s \in Slot : s # i => P[s] = processes[s]
        /\ P[i] \in [program : Program, pc : {z}, pages : [Page -> Out .. PAGEWAIT], bcontexts : Seq(Context)]
    BY <1>1 DEF Process
  <2>3. processes' = [P EXCEPT ![i].bcontexts[k] = c]
    BY <2>1
  <2> HIDE DEF P
  <2>4. processes'[i].pages = P[i].pages /\ \A s \in Slot : s # i => processes'[s] = P[s]
    BY <1>1, <2>2, <2>3
  <2> QED BY <1>1, <2>2, <2>4
<1> QED BY <1>1, <1>2, <1>3

\* The loop over the slots.
LEMMA AdvanceMoves ==
  ASSUME TypeOK, LoopInv, NEW next \in {"step", "age"}, Advance(next),
         phase \in {"init", "step"}, phase # next,
         phase = "init" => next = "step", UNCHANGED <<x, stamped>>
  PROVE  /\ LoopInv'
         /\ \A s \in Slot : s # i /\ Due(s)' => Due(s) \/ phase = "init"
         /\ phase = "step" => \A s \in Slot : s = i => ~Due(s)'
         /\ phase' = "init" => phase = "init"
         /\ phase' # "pageit" /\ phase # "pageit" /\ x = 0
<1>1. i \in Int /\ procs \in Int /\ i >= 0 /\ i < procs
  BY ConstantFacts DEF TypeOK, Slot
<1>2. \A s \in Slot : s \in Int /\ 0 <= s /\ s < procs
  BY ConstantFacts DEF Slot
<1>3. CASE i + 1 < procs
  BY <1>1, <1>2, <1>3 DEF Advance, LoopInv, Due
<1>4. CASE ~(i + 1 < procs)
  BY <1>1, <1>2, <1>4 DEF Advance, LoopInv, Due
<1> QED BY <1>3, <1>4

\* allinit and allstep.
LEMMA LRUAdvance ==
  ASSUME TypeOK, LRUInv, allinit \/ allstep, UNCHANGED loopVars
  PROVE  LRUInv'
<1>1. UNCHANGED <<x, stamped>> /\ LoopInv /\ \A s \in Slot : SlotInv(s)
  BY DEF loopVars, LRUInv
<1>2. PICK next \in {"step", "age"} :
        /\ Advance(next) /\ phase \in {"init", "step"} /\ phase # next
        /\ phase = "init" => next = "step"
  BY DEF allinit, allstep, StepIdle, StepBlocked, StepExit, StepBranch, StepDefault
<1>3. /\ LoopInv'
      /\ \A s \in Slot : s # i /\ Due(s)' => Due(s) \/ phase = "init"
      /\ phase = "step" => \A s \in Slot : s = i => ~Due(s)'
      /\ phase' = "init" => phase = "init"
      /\ phase' # "pageit" /\ phase # "pageit" /\ x = 0
  BY <1>1, <1>2, AdvanceMoves
<1>4. ASSUME NEW s \in Slot, s # i, processes'[s] = processes[s]
      PROVE  SlotInv(s)'
  <2>1. SlotInv(s) /\ (phase = "init" => ~Runnable(s))
    BY <1>1 DEF SlotInv, Runnable
  <2> QED BY <1>1, <1>3, <1>4, <2>1, SlotKept
<1>5. CASE Reload
  <2>1. \A s \in Slot : /\ s # i => processes'[s] = processes[s]
                        /\ s = i => SlotInv(s)'
    BY <1>5, ReloadNew
  <2> QED BY <1>3, <1>4, <2>1 DEF LRUInv
<1>6. CASE StepBlocked
  <2>1. \A s \in Slot : SlotInv(s)'
    <3>1. phase = "step" /\ processes' = processes
      BY <1>6 DEF StepBlocked
    <3>2. \A s \in Slot : Due(s)' => Due(s)
      BY <1>3, <3>1
    <3> QED BY <1>1, <1>3, <3>1, <3>2, SlotKept
  <2> QED BY <1>3, <2>1 DEF LRUInv
<1>7. CASE StepBranch \/ StepDefault
  <2>1. /\ i \in Slot /\ phase = "step" /\ Runnable(i) /\ active(i)
        /\ \A s \in Slot : s # i => processes'[s] = processes[s]
        /\ processes'[i].pages = processes[i].pages
    BY <1>7, StepRuns
  <2>2. ASSUME NEW s \in Slot, s = i
        PROVE  SlotInv(s)'
    <3>1. /\ \A p \in Page : processes[s].pages[p] > 0 => p = Needed(s)
          /\ \A p \in Page : processes[s].pages[p] = 0 => In(stamped[s], p)
          /\ processes[s].pages[Needed(s)] = 0
      BY <1>1, <1>3, <2>1, <2>2 DEF SlotInv, Runnable
    <3>2. \A p \in Page : ~(processes[s].pages[p] > 0)
      BY <3>1
    <3>3. processes'[s].pages = processes[s].pages /\ stamped'[s] = stamped[s] /\ ~Due(s)' /\ phase' # "init"
      BY <1>1, <1>3, <2>1, <2>2
    <3> QED BY <3>1, <3>2, <3>3 DEF SlotInv
  <2> QED BY <1>3, <1>4, <2>1, <2>2 DEF LRUInv
<1> QED BY <1>5, <1>6, <1>7 DEF allinit, allstep, StepIdle, StepExit

\* allage: a page that has come in is the one its process needs.
LEMMA LRUAge ==
  ASSUME TypeOK, LRUInv, allage, UNCHANGED loopVars
  PROVE  LRUInv' /\ \A s \in Slot : ~Due(s)'
<1>1. UNCHANGED <<x, stamped>> /\ LoopInv /\ \A s \in Slot : SlotInv(s)
  BY DEF loopVars, LRUInv
<1>2. /\ phase = "age" /\ phase' = "pageit" /\ UNCHANGED <<queue, i>> /\ x = 0 /\ i = 0
      /\ \A s \in Slot : s \in Int /\ s >= 0
  BY <1>1, ConstantFacts DEF allage, LoopInv, Slot
<1>3. LoopInv' /\ \A s \in Slot : ~Due(s)'
  BY <1>1, <1>2 DEF LoopInv, Due
<1>4. ASSUME NEW s \in Slot PROVE SlotInv(s)'
  <2>1. CASE ~active(s)
    <3>1. processes'[s] = IDLE
      BY <2>1 DEF allage
    <3> QED BY <3>1 DEF SlotInv, active
  <2>2. CASE active(s)
    <3>1. /\ processes[s] \in Process /\ processes[s].pages \in [Page -> Out .. PAGEWAIT]
          /\ \A p \in Page : processes[s].pages[p] \in Int
      BY <2>2, SlotType, ConstantFacts DEF Process
    <3>2. processes'[s] = [processes[s] EXCEPT !.pages =
             [p \in Page |-> IF @[p] \in {0, Out} THEN @[p] ELSE @[p] - 1]]
      BY <2>2 DEF allage
    <3>3. /\ processes'[s].pc = processes[s].pc
          /\ processes'[s].pages = [p \in Page |-> IF processes[s].pages[p] \in {0, Out}
                                      THEN processes[s].pages[p] ELSE processes[s].pages[p] - 1]
      BY <3>1, <3>2 DEF Process
    <3>4. /\ \A p \in Page : processes[s].pages[p] > 0 => p = Needed(s)
          /\ \A p \in Page : processes[s].pages[p] = 0 => In(stamped[s], p)
      BY <1>1, <1>2, <2>2 DEF SlotInv
    <3>5. Needed(s)' = Needed(s) /\ stamped'[s] = stamped[s]
      BY <1>1, <3>3 DEF Needed
    <3>6. ASSUME NEW p \in Page
          PROVE  /\ processes'[s].pages[p] > 0 => processes[s].pages[p] > 0
                 /\ processes'[s].pages[p] = 0 => processes[s].pages[p] = 0 \/ processes[s].pages[p] > 0
      BY <3>1, <3>3, ConstantFacts
    <3>7. 0 <= s
      BY <1>2
    <3> QED BY <1>1, <1>2, <1>3, <3>4, <3>5, <3>6, <3>7 DEF SlotInv
  <2> QED BY <2>1, <2>2
<1> QED BY <1>1, <1>3, <1>4 DEF LRUInv

\* What a turn of the pager does to slot s: nothing, or ...
LEMMA TurnMoves ==
  ASSUME TypeOK, LoopInv, NEW s \in Slot, Turn(s), NextSlot
  PROVE  /\ phase' = "done" => alldone
         /\ x' \in Slot /\ (phase' # "pageit" => x' = 0) /\ i' = 0 /\ phase' \in {"pageit", "step", "done"}
         /\ ~Due(s) /\ (phase' # "done" => Due(s)')
         /\ ~(phase' = "pageit" /\ x' <= s)
         /\ \A r \in Slot : r # s =>
              /\ phase = "pageit" /\ x <= r => phase' = "pageit" /\ x' <= r
              /\ Due(r)' => Due(r)
              /\ phase' # "done" => (Due(r) => Due(r)')
<1>1. /\ phase = "pageit" /\ x = s /\ i' = i /\ i = 0
      /\ procs \in Int /\ \A r \in Slot : r \in Int /\ 0 <= r /\ r < procs
  BY ConstantFacts DEF Turn, LoopInv, Slot
<1>2. CASE s + 1 < procs
  <2>1. x' = s + 1 /\ phase' = "pageit"
    BY <1>1, <1>2 DEF NextSlot
  <2>2. x' \in Slot
    BY <1>1, <1>2, <2>1 DEF Slot
  <2> QED BY <1>1, <2>1, <2>2 DEF Due
<1>3. CASE ~(s + 1 < procs)
  <2>1. x' = 0 /\ phase' \in {"step", "done"} /\ (phase' = "done" => alldone)
    BY <1>1, <1>3 DEF NextSlot, NextTick
  <2>2. x' \in Slot
    BY <2>1, ConstantFacts
  <2>3. \A r \in Slot : r <= s
    BY <1>1, <1>3
  <2> QED BY <1>1, <2>1, <2>2, <2>3 DEF Due
<1> QED BY <1>2, <1>3

\* What the actions of the pager do to the process and the timestamps of their slot.
LEMMA LRUTurn ==
  ASSUME TypeOK, LoopInv, NEW s \in Slot,
         SkipInactive(s) \/ StampResident(s) \/ SwapIn(s) \/ SwapOut(s)
  PROVE  /\ Turn(s) /\ NextSlot
         /\ \A r \in Slot : r # s => processes'[r] = processes[r] /\ stamped'[r] = stamped[r]
         /\ stamped' \in [Slot -> Seq(Int)] /\ Distinct(stamped'[s])
         /\ ~active(s) => UNCHANGED <<processes, stamped>>
         /\ active(s) => /\ active(s)' /\ Needed(s)' = Needed(s)
                         /\ Needed(s) \in Page => (Runnable(s)' <=> Runnable(s))
                         /\ processes'[s].pages \in [Page -> Int]
         /\ Runnable(s) => /\ processes' = processes
                           /\ stamped'[s] = Append(RemoveFirst(stamped[s], Needed(s)), Needed(s))
         /\ active(s) /\ ~Runnable(s) =>
              /\ \A p \in Page :
                   /\ processes'[s].pages[p] > 0 => processes[s].pages[p] > 0 \/ p = Needed(s)
                   /\ processes'[s].pages[p] = 0 => processes[s].pages[p] = 0
              /\ \/ stamped' = stamped /\ \A p \in Page : processes[s].pages[p] = 0 => processes'[s].pages[p] = 0
                 \/ /\ stamped'[s] = RemoveFirst(stamped[s], Lowest(s)) /\ SwapOut(s)
                    /\ Lowest(s) \in Page /\ processes'[s].pages[Lowest(s)] < 0
                    /\ \A p \in Page : p # Lowest(s) => processes'[s].pages[p] = processes[s].pages[p]
<1> DEFINE q == processes[s]
<1>1. /\ stamped \in [Slot -> Seq(Int)] /\ \A r \in Slot : Distinct(stamped[r])
      /\ processes \in [Slot -> Process \cup {IDLE}]
  BY DEF LoopInv, TypeOK
<1>2. active(s) => /\ q \in Process /\ q.pages \in [Page -> Out .. PAGEWAIT] /\ q.pages \in [Page -> Int]
                   /\ \A p \in Page : q.pages[p] \in Int
  BY SlotType, ConstantFacts DEF Process
<1>3. CASE SkipInactive(s)
  <2>1. Turn(s) /\ NextSlot /\ ~active(s) /\ ~Runnable(s) /\ UNCHANGED <<processes, stamped>>
    BY <1>3 DEF SkipInactive, Runnable
  <2> QED BY <1>1, <2>1
<1>4. CASE StampResident(s)
  <2>1. /\ Turn(s) /\ NextSlot /\ Runnable(s) /\ active(s) /\ processes' = processes
        /\ stamped' = [stamped EXCEPT ![s] = Append(RemoveFirst(stamped[s], Needed(s)), Needed(s))]
    BY <1>4 DEF StampResident, Runnable, Stamp
  <2>2. Append(RemoveFirst(stamped[s], Needed(s)), Needed(s)) \in Seq(Int)
        /\ Distinct(Append(RemoveFirst(stamped[s], Needed(s)), Needed(s)))
    BY <1>1, <2>1, NeededInt, MoveToEnd
  <2>3. active(s)' /\ Needed(s)' = Needed(s) /\ Runnable(s)'
    BY <2>1 DEF active, Needed, Runnable
  <2> QED BY <1>1, <1>2, <2>1, <2>2, <2>3
<1>5. CASE SwapIn(s)
  <2>1. /\ Turn(s) /\ NextSlot /\ ~Runnable(s) /\ active(s) /\ stamped' = stamped
        /\ PageInOk(s, Needed(s)) /\ PageIn(s, Needed(s)) /\ Needed(s) \in Page
        /\ q.pages[Needed(s)] # 0
    BY <1>5 DEF SwapIn, PageInOk, Runnable
  <2>2. CASE UNCHANGED processes
    <3>1. active(s)' /\ Needed(s)' = Needed(s) /\ ~Runnable(s)'
      BY <2>1, <2>2 DEF active, Needed, Runnable
    <3> QED BY <1>1, <1>2, <2>1, <2>2, <3>1
  <2>3. CASE processes' = [processes EXCEPT ![s].pages[Needed(s)] = PAGEWAIT] /\ q.pages[Needed(s)] = Out
    <3>1. /\ processes'[s] = [q EXCEPT !.pages[Needed(s)] = PAGEWAIT]
          /\ \A r \in Slot : r # s => processes'[r] = processes[r]
      BY <1>1, <2>3
    <3>2. /\ processes'[s].pages = [q.pages EXCEPT ![Needed(s)] = PAGEWAIT] /\ processes'[s].pc = q.pc
          /\ processes'[s].pages \in [Page -> Int]
      <4>1. processes'[s].pages = [q.pages EXCEPT ![Needed(s)] = PAGEWAIT] /\ processes'[s].pc = q.pc
        BY <1>2, <2>1, <3>1 DEF Process
      <4>2. PAGEWAIT \in Int
        BY ConstantFacts
      <4> QED BY <1>2, <2>1, <4>1, <4>2
    <3>3. Needed(s)' = Needed(s)
      BY <3>2 DEF Needed
    <3>4. active(s)'
      <4>1. PAGEWAIT \in Out .. PAGEWAIT
        BY ConstantFacts
      <4>2. processes'[s] \in Process
        BY <1>2, <2>1, <3>1, <4>1 DEF Process
      <4> QED BY <4>2, IdleAssumption DEF active
    <3>5. processes'[s].pages[Needed(s)] = PAGEWAIT /\ \A p \in Page : p # Needed(s) => processes'[s].pages[p] = q.pages[p]
      BY <1>2, <2>1, <3>2
    <3>6. ~Runnable(s)'
      BY <3>3, <3>5, ConstantFacts DEF Runnable
    <3>7. \A p \in Page : /\ processes'[s].pages[p] > 0 => processes[s].pages[p] > 0 \/ p = Needed(s)
                          /\ processes'[s].pages[p] = 0 <=> processes[s].pages[p] = 0
      BY <2>1, <3>5, ConstantFacts
    <3> QED BY <1>1, <2>1, <3>1, <3>2, <3>3, <3>4, <3>6, <3>7
  <2> QED BY <2>1, <2>2, <2>3 DEF PageIn, PageInOk
<1>6. CASE SwapOut(s)
  <2>1. /\ Turn(s) /\ NextSlot /\ ~Runnable(s) /\ active(s)
    BY <1>6 DEF SwapOut
  <2>2. CASE UNCHANGED <<processes, stamped>>
    <3>1. active(s)' /\ Needed(s)' = Needed(s) /\ (Runnable(s)' <=> Runnable(s))
      BY <2>1, <2>2 DEF active, Needed, Runnable
    <3> QED BY <1>1, <1>2, <2>1, <2>2, <3>1
  <2>3. CASE PageOutOk(s, Lowest(s)) /\ PageOut(s, Lowest(s)) /\ Unstamp(s, Lowest(s))
    <3> DEFINE v == Lowest(s)
               out == IF q.pages[v] = 0 THEN -1 ELSE q.pages[v]
    <3>1. /\ v \in Page /\ q.pages[v] <= 0
          /\ processes' = [processes EXCEPT ![s].pages[v] = IF @ = 0 THEN -1 ELSE @]
          /\ stamped' = [stamped EXCEPT ![s] = RemoveFirst(stamped[s], v)]
      BY <2>3 DEF PageOutOk, PageOut, Unstamp
    <3> HIDE DEF v
    <3>2. RemoveFirst(stamped[s], v) \in Seq(Int) /\ Distinct(RemoveFirst(stamped[s], v))
      BY <1>1, RemoveKeeps
    <3>3. /\ processes'[s] = [q EXCEPT !.pages[v] = out]
          /\ \A r \in Slot : r # s => processes'[r] = processes[r]
      BY <1>1, <1>2, <2>1, <3>1 DEF Process
    <3>4. out \in Out .. PAGEWAIT /\ out < 0 /\ out \in Int
      BY <1>2, <2>1, <3>1, ConstantFacts
    <3> HIDE DEF out
    <3>5. /\ processes'[s].pages = [q.pages EXCEPT ![v] = out] /\ processes'[s].pc = q.pc
          /\ processes'[s] \in Process
      <4>1. processes'[s].pages = [q.pages EXCEPT ![v] = out] /\ processes'[s].pc = q.pc
        BY <1>2, <2>1, <3>3 DEF Process
      <4>2. [q.pages EXCEPT ![v] = out] \in [Page -> Out .. PAGEWAIT]
        BY <1>2, <2>1, <3>4
      <4>3. processes'[s] = [q EXCEPT !.pages = [q.pages EXCEPT ![v] = out]]
        BY <1>2, <2>1, <3>3 DEF Process
      <4> QED BY <1>2, <2>1, <4>1, <4>2, <4>3 DEF Process
    <3>6. Needed(s)' = Needed(s) /\ active(s)'
      BY <3>5, IdleAssumption DEF Needed, active
    <3>7. processes'[s].pages \in [Page -> Int]
      BY <1>2, <2>1, <3>4, <3>5
    <3>8. processes'[s].pages[v] = out /\ \A p \in Page : p # v => processes'[s].pages[p] = q.pages[p]
      BY <1>2, <2>1, <3>1, <3>5
    <3>9. Needed(s) \in Page => ~Runnable(s)'
      BY <2>1, <3>1, <3>4, <3>6, <3>8 DEF Runnable
    <3>10. \A p \in Page : /\ processes'[s].pages[p] > 0 => processes[s].pages[p] > 0
                           /\ processes'[s].pages[p] = 0 => processes[s].pages[p] = 0
      BY <3>4, <3>8
    <3>11. stamped'[s] = RemoveFirst(stamped[s], v) /\ stamped' \in [Slot -> Seq(Int)]
           /\ \A r \in Slot : r # s => stamped'[r] = stamped[r]
      BY <1>1, <3>1, <3>2
    <3> QED BY <1>6, <2>1, <3>1, <3>2, <3>3, <3>4, <3>6, <3>7, <3>8, <3>9, <3>10, <3>11 DEF v
  <2> QED BY <1>6, <2>2, <2>3 DEF SwapOut
<1> QED BY <1>3, <1>4, <1>5, <1>6

\* pageit at slot s.
LEMMA LRUTurnInv ==
  ASSUME TypeOK, LRUInv, NEW s \in Slot,
         SkipInactive(s) \/ StampResident(s) \/ SwapIn(s) \/ SwapOut(s)
  PROVE  LRUInv'
<1> DEFINE t == Append(RemoveFirst(stamped[s], Needed(s)), Needed(s))
           u == RemoveFirst(stamped[s], Lowest(s))
<1>1. /\ LoopInv /\ SlotInv(s) /\ \A r \in Slot : SlotInv(r)
      /\ stamped[s] \in Seq(Int) /\ Distinct(stamped[s])
  BY DEF LRUInv, LoopInv
<1>2. /\ Turn(s) /\ NextSlot
      /\ \A r \in Slot : r # s => processes'[r] = processes[r] /\ stamped'[r] = stamped[r]
      /\ stamped' \in [Slot -> Seq(Int)] /\ Distinct(stamped'[s])
  BY <1>1, LRUTurn
<1>3. /\ x' \in Slot /\ (phase' # "pageit" => x' = 0) /\ i' = 0 /\ phase' \in {"pageit", "step", "done"}
      /\ ~(phase' = "pageit" /\ x' <= s)
      /\ \A r \in Slot : r # s =>
           /\ phase = "pageit" /\ x <= r => phase' = "pageit" /\ x' <= r
           /\ Due(r)' => Due(r)
  BY <1>1, <1>2, TurnMoves
<1>4. LoopInv'
  BY <1>1, <1>2, <1>3 DEF LoopInv
<1>5. ASSUME NEW r \in Slot, r # s PROVE SlotInv(r)'
  BY <1>1, <1>2, <1>3, <1>5, SlotKept
<1>6. CASE ~active(s)
  <2>1. processes' = processes
    BY <1>1, <1>6, LRUTurn
  <2>2. SlotInv(s)'
    BY <1>6, <2>1 DEF SlotInv, active
  <2> QED BY <1>4, <1>5, <2>2 DEF LRUInv
<1>7. CASE Runnable(s)
  <2>1. active(s)
    BY <1>7 DEF Runnable
  <2>2. /\ processes' = processes /\ stamped'[s] = t /\ Needed(s)' = Needed(s)
        /\ Needed(s) \in Int
    BY <1>1, <1>7, <2>1, LRUTurn, NeededInt
  <2>3. Latest(t, Needed(s)) /\ \A p : In(t, p) <=> In(stamped[s], p) \/ p = Needed(s)
    BY <1>1, <2>2, MoveToEnd
  <2> HIDE DEF t
  <2>4. SlotInv(s)'
    BY <1>1, <1>3, <2>1, <2>2, <2>3 DEF SlotInv
  <2> QED BY <1>4, <1>5, <2>4 DEF LRUInv
<1>8. CASE active(s) /\ ~Runnable(s)
  <2>1. /\ Needed(s)' = Needed(s)
        /\ Needed(s) \in Page => ~Runnable(s)'
        /\ \A p \in Page :
             /\ processes'[s].pages[p] > 0 => processes[s].pages[p] > 0 \/ p = Needed(s)
             /\ processes'[s].pages[p] = 0 => processes[s].pages[p] = 0
        /\ stamped' = stamped \/ (stamped'[s] = u /\ Lowest(s) \in Page /\ processes'[s].pages[Lowest(s)] < 0)
        /\ processes'[s].pages \in [Page -> Int]
    BY <1>1, <1>8, LRUTurn
  <2>2. \A p : In(u, p) <=> In(stamped[s], p) /\ p # Lowest(s)
    BY <1>1, RemoveKeeps
  <2> HIDE DEF u
  <2>3. ASSUME NEW p \in Page, processes'[s].pages[p] = 0
        PROVE  In(stamped'[s], p)
    <3>1. processes[s].pages[p] = 0 /\ p # Needed(s)
      BY <1>8, <2>1, <2>3 DEF Runnable
    <3>2. In(stamped[s], p)
      BY <1>1, <1>8, <3>1 DEF SlotInv
    <3>3. processes'[s].pages[Lowest(s)] < 0 => p # Lowest(s)
      BY <2>3
    <3> QED BY <2>1, <2>2, <3>2, <3>3
  <2>4. \A p \in Page : processes'[s].pages[p] > 0 => p = Needed(s)
    BY <1>1, <1>8, <2>1 DEF SlotInv
  <2>5. SlotInv(s)'
    BY <1>3, <2>1, <2>3, <2>4 DEF SlotInv
  <2> QED BY <1>4, <1>5, <2>5 DEF LRUInv
<1> QED BY <1>6, <1>7, <1>8 DEF Runnable

LEMMA LRUInvInit == LRUInit => LRUInv
<1> SUFFICES ASSUME LRUInit PROVE LRUInv
  OBVIOUS
<1>1. /\ processes = [s \in Slot |-> IDLE] /\ phase = "init" /\ i = 0
      /\ x = 0 /\ stamped = [s \in Slot |-> <<>>]
  BY DEF LRUInit, Init, LoopInit
<1>2. LoopInv
  BY <1>1, ConstantFacts DEF LoopInv, Distinct
<1>3. \A s \in Slot : SlotInv(s)
  BY <1>1 DEF SlotInv, active
<1> QED BY <1>2, <1>3 DEF LRUInv

LEMMA LRUStutters == LRUInv /\ UNCHANGED LRUVars => LRUInv'
BY DEF LRUVars, simVars, loopVars, LRUInv, LoopInv, SlotInv, Due, active, Needed, Runnable

LEMMA LRUNextInv == TypeOK /\ LRUInv /\ [LRUNext]_LRUVars => LRUInv'
<1> SUFFICES ASSUME TypeOK, LRUInv, LRUNext PROVE LRUInv'
  BY LRUStutters
<1>1. CASE LRUStep
  BY <1>1, LRUTurnInv DEF LRUStep
<1>2. CASE Terminated /\ UNCHANGED loopVars
  BY <1>2, LRUStutters DEF Terminated, LRUVars
<1>3. CASE SimNext /\ UNCHANGED loopVars
  BY <1>3, LRUAdvance, LRUAge DEF SimNext
<1> QED BY <1>1, <1>2, <1>3 DEF LRUNext

LEMMA InvStamps == LRUInv => ResidentStamped
BY DEF LRUInv, SlotInv, ResidentStamped, In

\* With the LRU pager a page in memory has a timestamp, for any number of slots,
\* pages and frames.
THEOREM StampsCorrect == LRUSpec => []ResidentStamped
<1>1. LRUSpec => []TypeOK
  BY LRUImplementsAny, TypeCorrect
<1> QED BY <1>1, LRUInvInit, LRUNextInv, InvStamps, PTL DEF LRUSpec
-----------------------------------------------------------------------------
(* The simulator as it is checked, with any of the pagers                  *)

LEMMA MCStepAny == [MCNext]_allVars => [AnyNext]_simVars
<1> SUFFICES ASSUME MCNext PROVE AnyNext
  BY DEF allVars, simVars
<1>1. CASE MCStep
  BY <1>1 DEF MCStep, AnyNext, SimNext
<1>2. CASE MCOther
  BY <1>2, BasicStepAny, LRUStepAny, PredictStepAny, TestStepAny DEF MCOther, AnyNext, SimNext
<1> QED BY <1>1, <1>2 DEF MCNext

\* Whichever pager the simulator is linked with, it is a simulator with a pager
\* that calls pagein and pageout as it likes.
THEOREM MCImplementsAny == MCSpec => AnySpec
<1>1. MCInit => Init
  BY DEF MCInit
<1> QED BY <1>1, MCStepAny, PTL DEF MCSpec, AnySpec

\* Linked with the LRU pager it does what PagerLRU says.
LEMMA MCStepLRU == pager = "lru" /\ [MCNext]_allVars => [LRUNext]_LRUVars /\ pager' = pager
<1> SUFFICES ASSUME pager = "lru", [MCNext]_allVars
             PROVE  [LRUNext]_LRUVars /\ pager' = pager
  OBVIOUS
<1>1. CASE UNCHANGED allVars
  BY <1>1 DEF allVars, LRUVars
<1>2. CASE MCStep /\ UNCHANGED pager
  BY <1>2 DEF MCStep, LRUNext, SimNext
<1>3. CASE MCOther /\ UNCHANGED pager
  BY <1>3 DEF MCOther, LRUNext, SimNext
<1> QED BY <1>1, <1>2, <1>3 DEF MCNext

MCLRUInv == pager = "lru" => LRUInv

LEMMA MCLRUInvHolds == MCSpec => []MCLRUInv
<1>1. MCInit => MCLRUInv
  BY LRUInvInit DEF MCInit, LRUInit, MCLRUInv
<1>2. TypeOK /\ MCLRUInv /\ [MCNext]_allVars => MCLRUInv'
  <2> SUFFICES ASSUME TypeOK, MCLRUInv, [MCNext]_allVars, pager' = "lru"
               PROVE  LRUInv'
    BY DEF MCLRUInv
  <2>1. pager = "lru"
    BY DEF MCNext, allVars
  <2>2. LRUInv
    BY <2>1 DEF MCLRUInv
  <2>3. [LRUNext]_LRUVars
    BY <2>1, MCStepLRU
  <2> QED BY <2>2, <2>3, LRUNextInv
<1>3. MCSpec => []TypeOK
  BY MCImplementsAny, TypeCorrect
<1> QED BY <1>1, <1>2, <1>3, PTL DEF MCSpec

\* A page in memory can be swapped out, whatever programs are loaded: the LRU pager
\* has a timestamp for it, or has not looked at it yet in this tick.
THEOREM TimestampsCorrect == MCSpec => []TimestampsComplete
<1>1. MCLRUInv => TimestampsComplete
  BY InvStamps DEF MCLRUInv, TimestampsComplete
<1> QED BY <1>1, MCLRUInvHolds, PTL
-----------------------------------------------------------------------------
(* The page that is swapped out                                            *)

\* Of two pages that its process ran on, the one with the older timestamp was used
\* before; but a page that is used in this tick got its timestamp already.
AgreeInv(s) ==
  active(s) =>
    \A p, r \in Page :
      Precedes(stamped[s], p, r) /\ In(used[s], p) /\ In(used[s], r) =>
        Precedes(used[s], p, r) \/ (Due(s) /\ Runnable(s) /\ r = Needed(s))

UsedInv ==
  /\ used \in [Slot -> Seq(Int)] /\ \A s \in Slot : Distinct(used[s])
  /\ phase = "init" => \A s \in Slot : used[s] = <<>>

EvictInv == UsedInv /\ \A s \in Slot : AgreeInv(s)

LEMMA AgreeKept ==
  ASSUME NEW s \in Slot, AgreeInv(s), processes'[s] = processes[s], stamped'[s] = stamped[s],
         used'[s] = used[s], active(s) /\ Runnable(s) /\ Due(s) => Due(s)'
  PROVE  AgreeInv(s)'
<1>1. active(s)' = active(s) /\ Needed(s)' = Needed(s) /\ Runnable(s)' = Runnable(s)
  BY DEF active, Needed, Runnable
<1> QED BY <1>1 DEF AgreeInv

LEMMA AgreeEmpty ==
  ASSUME NEW s \in Slot, used'[s] = <<>>
  PROVE  AgreeInv(s)'
BY DEF AgreeInv, In

LEMMA DueKept ==
  ASSUME TypeOK, phase = "step", Advance("age")
  PROVE  \A s \in Slot : s # i /\ Due(s) => Due(s)'
<1>1. i \in Int /\ procs \in Int /\ i >= 0 /\ i < procs
  BY ConstantFacts DEF TypeOK, Slot
<1>2. \A s \in Slot : s \in Int /\ 0 <= s /\ s < procs
  BY ConstantFacts DEF Slot
<1> QED BY <1>1, <1>2 DEF Advance, Due

\* A process that goes on, or that ends and is followed by another or by none.
LEMMA StepMakes ==
  ASSUME TypeOK, allstep
  PROVE  /\ i \in Slot /\ phase = "step" /\ Advance("age") /\ phase' \in {"step", "age"}
         /\ \A s \in Slot : s # i => processes'[s] = processes[s]
         /\ \/ StepBlocked
            \/ StepBranch \/ StepDefault
            \/ queue' # queue \/ \A s \in Slot : s = i => processes'[s] = IDLE
<1>1. /\ i \in Slot /\ phase = "step" /\ Advance("age") /\ phase' \in {"step", "age"}
      /\ queue \in Seq(Program) /\ processes \in [Slot -> Process \cup {IDLE}]
  BY DEF TypeOK, allstep, StepIdle, StepBlocked, StepExit, StepBranch, StepDefault, Advance
<1>2. CASE StepBlocked
  BY <1>1, <1>2 DEF StepBlocked
<1>3. CASE StepBranch \/ StepDefault
  BY <1>1, <1>3, StepRuns
<1>4. CASE Reload
  <2>1. queue # <<>> => Tail(queue) # queue
    <3>1. queue # <<>> => Len(queue) \in Nat /\ Len(Tail(queue)) = Len(queue) - 1
      BY <1>1, HeadTailProperties, LenProperties
    <3>2. ASSUME queue # <<>>, Tail(queue) = queue PROVE FALSE
      <4>1. Len(queue) \in Nat /\ Len(queue) = Len(queue) - 1
        BY <3>1, <3>2
      <4> QED BY <4>1
    <3> QED BY <3>2
  <2> QED BY <1>1, <1>4, <2>1, ReloadNew DEF Reload
<1> QED BY <1>2, <1>3, <1>4 DEF allstep, StepIdle, StepExit

\* What the history records in a step of allstep.
LEMMA MCStepEvict ==
  ASSUME TypeOK, LRUInv, EvictInv, MCStep
  PROVE  EvictInv'
<1> DEFINE t == Append(RemoveFirst(used[i], Needed(i)), Needed(i))
           clears == queue' # queue \/ ~active(i) \/ processes'[i] = IDLE
<1>1. /\ i \in Slot /\ phase = "step" /\ Advance("age") /\ phase' \in {"step", "age"}
      /\ \A s \in Slot : s # i => processes'[s] = processes[s]
      /\ \/ StepBlocked
         \/ StepBranch \/ StepDefault
         \/ queue' # queue \/ \A s \in Slot : s = i => processes'[s] = IDLE
  BY StepMakes DEF MCStep
<1>2. /\ used' = [used EXCEPT ![i] = IF clears THEN <<>> ELSE IF Runnable(i) THEN t ELSE used[i]]
      /\ stamped' = stamped /\ x' = x
  BY DEF MCStep, loopVars
<1>3. /\ used \in [Slot -> Seq(Int)] /\ \A s \in Slot : Distinct(used[s])
      /\ \A s \in Slot : AgreeInv(s)
      /\ LoopInv /\ \A s \in Slot : SlotInv(s)
  BY DEF EvictInv, UsedInv, LRUInv
<1>4. Runnable(i) => Needed(i) \in Int
  BY <1>1, NeededInt DEF Runnable
<1>5. Runnable(i) => /\ t \in Seq(Int) /\ Distinct(t)
                     /\ \A p : In(t, p) <=> In(used[i], p) \/ p = Needed(i)
                     /\ \A p, r : Precedes(t, p, r) <=>
                          \/ Precedes(used[i], p, r) /\ p # Needed(i) /\ r # Needed(i)
                          \/ In(used[i], p) /\ p # Needed(i) /\ r = Needed(i)
  BY <1>1, <1>3, <1>4, MoveToEnd
<1> HIDE DEF t, clears
<1>6. <<>> \in Seq(Int) /\ Distinct(<<>>)
  BY DEF Distinct
<1>7. /\ \A s \in Slot : s # i => used'[s] = used[s]
      /\ \A s \in Slot : s = i => used'[s] = IF clears THEN <<>> ELSE IF Runnable(i) THEN t ELSE used[s]
  BY <1>1, <1>2, <1>3
<1>8. UsedInv'
  <2>1. used' \in [Slot -> Seq(Int)] /\ \A s \in Slot : Distinct(used'[s])
    BY <1>1, <1>2, <1>3, <1>5, <1>6, <1>7
  <2> QED BY <1>1, <2>1 DEF UsedInv
<1>9. ASSUME NEW s \in Slot, s # i PROVE AgreeInv(s)'
  <2>1. Due(s) => Due(s)'
    BY <1>1, <1>9, DueKept
  <2> QED BY <1>1, <1>2, <1>3, <1>7, <1>9, <2>1, AgreeKept
<1>10. ASSUME NEW s \in Slot, s = i, clears PROVE AgreeInv(s)'
  BY <1>7, <1>10, AgreeEmpty
<1>11. ASSUME NEW s \in Slot, s = i, ~clears PROVE AgreeInv(s)'
  <2>1. CASE StepBlocked
    <3>1. ~Runnable(s) /\ processes' = processes /\ used'[s] = used[s]
      BY <1>7, <1>11, <2>1 DEF StepBlocked
    <3> QED BY <1>2, <1>3, <3>1, AgreeKept
  <2>2. CASE StepBranch \/ StepDefault
    <3>1. Runnable(s) /\ active(s) /\ Due(s) /\ used'[s] = t /\ stamped'[s] = stamped[s]
      <4>1. Runnable(i) /\ phase = "step" /\ i <= i
        BY <1>1, <2>2, StepRuns, ConstantFacts
      <4> QED BY <1>2, <1>7, <1>11, <4>1 DEF Due, Runnable
    <3>2. ASSUME NEW p \in Page, NEW r \in Page,
                 Precedes(stamped[s], p, r), In(t, p), In(t, r)
          PROVE  Precedes(t, p, r)
      <4>1. p # Needed(s)
        BY <1>3, <3>1, <3>2 DEF SlotInv, Latest
      <4>2. In(used[s], p)
        BY <1>5, <1>11, <3>1, <3>2, <4>1
      <4>3. CASE r = Needed(s)
        BY <1>5, <1>11, <3>1, <4>1, <4>2, <4>3
      <4>4. CASE r # Needed(s)
        <5>1. In(used[s], r)
          BY <1>5, <1>11, <3>1, <3>2, <4>4
        <5>2. Precedes(used[s], p, r)
          BY <1>3, <3>1, <3>2, <4>2, <4>4, <5>1 DEF AgreeInv
        <5> QED BY <1>5, <1>11, <3>1, <4>1, <4>4, <5>2
      <4> QED BY <4>3, <4>4
    <3> QED BY <3>1, <3>2 DEF AgreeInv
  <2>3. CASE queue' # queue \/ \A z \in Slot : z = i => processes'[z] = IDLE
    BY <1>1, <1>11, <2>3 DEF clears
  <2> QED BY <1>1, <2>1, <2>2, <2>3
<1> QED BY <1>8, <1>9, <1>10, <1>11 DEF EvictInv

\* A step that leaves the history alone, while no slot is due.
LEMMA QuietEvict ==
  ASSUME EvictInv, UNCHANGED <<used, stamped>>, phase' # "init",
         \A s \in Slot : active(s)' => active(s) /\ ~Due(s)
  PROVE  EvictInv'
<1>1. UsedInv'
  BY DEF EvictInv, UsedInv
<1>2. \A s \in Slot : AgreeInv(s)'
  BY DEF EvictInv, AgreeInv
<1> QED BY <1>1, <1>2 DEF EvictInv

\* pageit at slot s.
LEMMA LRUTurnEvict ==
  ASSUME TypeOK, LRUInv, EvictInv, used' = used, NEW s \in Slot,
         SkipInactive(s) \/ StampResident(s) \/ SwapIn(s) \/ SwapOut(s)
  PROVE  EvictInv'
<1> DEFINE t == Append(RemoveFirst(stamped[s], Needed(s)), Needed(s))
           u == RemoveFirst(stamped[s], Lowest(s))
<1>1. /\ LoopInv /\ UsedInv /\ \A r \in Slot : AgreeInv(r)
      /\ stamped[s] \in Seq(Int) /\ Distinct(stamped[s])
  BY DEF LRUInv, LoopInv, EvictInv
<1>2. /\ Turn(s) /\ NextSlot
      /\ \A r \in Slot : r # s => processes'[r] = processes[r] /\ stamped'[r] = stamped[r]
  BY <1>1, LRUTurn
<1>3. /\ phase' = "done" => alldone
      /\ ~Due(s) /\ (phase' # "done" => Due(s)')
      /\ \A r \in Slot : r # s /\ phase' # "done" => (Due(r) => Due(r)')
      /\ phase' # "init"
  BY <1>1, <1>2, TurnMoves
<1>4. UsedInv'
  BY <1>1, <1>3 DEF UsedInv
<1>5. ASSUME NEW r \in Slot, r # s PROVE AgreeInv(r)'
  <2>1. active(r) => (Due(r) => Due(r)')
    BY <1>3, <1>5 DEF alldone
  <2> QED BY <1>1, <1>2, <1>5, <2>1, AgreeKept
<1>6. CASE ~active(s)
  <2>1. processes' = processes
    BY <1>1, <1>6, LRUTurn
  <2>2. AgreeInv(s)'
    BY <1>6, <2>1 DEF AgreeInv, active
  <2> QED BY <1>4, <1>5, <2>2 DEF EvictInv
<1>7. CASE Runnable(s)
  <2>1. active(s) /\ phase' # "done" /\ Due(s)' /\ ~Due(s)
    BY <1>3, <1>7 DEF Runnable, alldone
  <2>2. /\ processes' = processes /\ stamped'[s] = t /\ Needed(s) \in Int
    BY <1>1, <1>7, <2>1, LRUTurn, NeededInt
  <2>3. Needed(s)' = Needed(s) /\ Runnable(s)'
    BY <1>7, <2>2 DEF Needed, Runnable, active
  <2>4. \A p, r : Precedes(t, p, r) => Precedes(stamped[s], p, r) \/ r = Needed(s)
    BY <1>1, <2>2, MoveToEnd
  <2> HIDE DEF t
  <2>5. AgreeInv(s)'
    BY <1>1, <2>1, <2>2, <2>3, <2>4 DEF AgreeInv
  <2> QED BY <1>4, <1>5, <2>5 DEF EvictInv
<1>8. CASE active(s) /\ ~Runnable(s)
  <2>1. stamped' = stamped \/ stamped'[s] = u
    BY <1>1, <1>8, LRUTurn
  <2>2. \A p, r : Precedes(u, p, r) => Precedes(stamped[s], p, r)
    BY <1>1, RemoveKeeps
  <2> HIDE DEF u
  <2>3. AgreeInv(s)'
    BY <1>1, <1>8, <2>1, <2>2 DEF AgreeInv
  <2> QED BY <1>4, <1>5, <2>3 DEF EvictInv
<1> QED BY <1>6, <1>7, <1>8 DEF Runnable

LEMMA EvictStutters == EvictInv /\ UNCHANGED allVars => EvictInv'
BY DEF allVars, simVars, loopVars, EvictInv, UsedInv, AgreeInv, Due, active, Needed, Runnable

LEMMA EvictNext ==
  ASSUME TypeOK, LRUInv, EvictInv, pager = "lru", [MCNext]_allVars
  PROVE  EvictInv'
<1>1. CASE UNCHANGED allVars
  BY <1>1, EvictStutters
<1>2. CASE MCStep
  BY <1>2, MCStepEvict
<1>3. CASE allinit /\ UNCHANGED loopVars /\ UNCHANGED used
  <2>1. /\ \A s \in Slot : used'[s] = <<>>
        /\ UsedInv'
    BY <1>3 DEF allinit, EvictInv, UsedInv
  <2> QED BY <2>1, AgreeEmpty DEF EvictInv
<1>4. CASE allage /\ UNCHANGED loopVars /\ UNCHANGED used
  <2>1. \A s \in Slot : active(s)' => active(s) /\ ~Due(s)
    BY <1>4 DEF allage, active, Due
  <2> QED BY <1>4, <2>1, QuietEvict DEF allage, loopVars
<1>5. CASE Terminated /\ UNCHANGED loopVars /\ UNCHANGED used
  <2>1. \A s \in Slot : active(s)' => active(s) /\ ~Due(s)
    BY <1>5 DEF Terminated, active, Due, simVars
  <2> QED BY <1>5, <2>1, QuietEvict DEF Terminated, loopVars, simVars
<1>6. CASE LRUStep /\ UNCHANGED used
  BY <1>6, LRUTurnEvict DEF LRUStep
<1> QED BY <1>1, <1>2, <1>3, <1>4, <1>5, <1>6 DEF MCNext, MCOther

\* The page that leaves memory, and the pages that stay.
LEMMA EvictStep ==
  ASSUME TypeOK, LRUInv, EvictInv, pager = "lru", MCNext, phase = "pageit",
         NEW s \in Slot, NEW p \in Page, active(s), processes[s].pages[p] = 0,
         processes'[s].pages[p] < 0,
         NEW r \in Page \ {p}, processes[s].pages[r] = 0,
         NEW k \in DOMAIN used[s], NEW m \in DOMAIN used[s], used[s][k] = p, used[s][m] = r
  PROVE  k < m
<1>1. /\ LoopInv /\ SlotInv(s) /\ AgreeInv(s) /\ Distinct(used[s])
      /\ stamped[s] \in Seq(Int)
  BY DEF LRUInv, LoopInv, EvictInv, UsedInv
<1>2. processes'[s] # processes[s]
  <2>1. ASSUME processes'[s] = processes[s] PROVE FALSE
    <3>1. 0 < 0
      BY <2>1
    <3> QED BY <3>1
  <2> QED BY <2>1
<1>3. PICK z \in Slot : SkipInactive(z) \/ StampResident(z) \/ SwapIn(z) \/ SwapOut(z)
  BY <1>2 DEF MCNext, MCOther, MCStep, allinit, allage, allstep, StepIdle, StepBlocked, StepExit,
              StepBranch, StepDefault, Terminated, simVars, LRUStep
<1>4. z = s
  BY <1>1, <1>2, <1>3, LRUTurn
<1>5. /\ ~Runnable(s) /\ Turn(s) /\ p = Lowest(s)
  <2>1. ~Runnable(s) /\ Turn(s)
    BY <1>1, <1>2, <1>3, <1>4, LRUTurn
  <2>2. \/ \A n \in Page : processes[s].pages[n] = 0 => processes'[s].pages[n] = 0
        \/ \A n \in Page : n # Lowest(s) => processes'[s].pages[n] = processes[s].pages[n]
    BY <1>1, <1>3, <1>4, <2>1, LRUTurn
  <2>3. processes'[s].pages[p] # 0
    <3>1. ASSUME processes'[s].pages[p] = 0 PROVE FALSE
      <4>1. 0 < 0
        BY <3>1
      <4> QED BY <4>1
    <3> QED BY <3>1
  <2> QED BY <2>1, <2>2, <2>3
<1>6. r # Needed(s) /\ In(stamped[s], r)
  <2>1. r # Needed(s)
    BY <1>5 DEF Runnable
  <2> QED BY <1>1, <2>1 DEF SlotInv
<1>7. Precedes(stamped[s], p, r)
  BY <1>1, <1>5, <1>6, OldestFirst DEF Lowest
<1>8. PICK j, n \in DOMAIN used[s] : j < n /\ used[s][j] = p /\ used[s][n] = r
  BY <1>1, <1>5, <1>7 DEF AgreeInv, In, Precedes
<1> QED BY <1>1, <1>8 DEF Distinct

MCEvictInv == pager = "lru" => EvictInv

LEMMA MCEvictInvHolds == MCSpec => []MCEvictInv
<1>1. MCInit => MCEvictInv
  <2> SUFFICES ASSUME MCInit PROVE EvictInv
    BY DEF MCEvictInv
  <2>1. used = [s \in Slot |-> <<>>] /\ processes = [s \in Slot |-> IDLE]
    BY DEF MCInit, Init
  <2> QED BY <2>1 DEF EvictInv, UsedInv, AgreeInv, active, Distinct
<1>2. TypeOK /\ MCLRUInv /\ MCEvictInv /\ [MCNext]_allVars => MCEvictInv'
  <2> SUFFICES ASSUME TypeOK, MCLRUInv, MCEvictInv, [MCNext]_allVars, pager' = "lru"
               PROVE  EvictInv'
    BY DEF MCEvictInv
  <2>1. pager = "lru"
    BY DEF MCNext, allVars
  <2> QED BY <2>1, EvictNext DEF MCLRUInv, MCEvictInv
<1>3. MCSpec => []TypeOK
  BY MCImplementsAny, TypeCorrect
<1> QED BY <1>1, <1>2, <1>3, MCLRUInvHolds, PTL DEF MCSpec

\* The LRU pager swaps out the page in memory that its process has not run on for
\* longest, for any number of slots, pages and frames: timestamps that a page out
\* of memory or an earlier process of the slot has left never stand in the way.
THEOREM EvictionCorrect == MCSpec => EvictsLeastRecentlyUsed
<1>1. /\ TypeOK /\ MCLRUInv /\ MCEvictInv /\ [MCNext]_allVars
      => [pager = "lru" =>
            \A s \in Slot, p \in Page :
              (active(s) /\ processes[s].pages[p] = 0 /\ phase = "pageit"
                 /\ processes'[s].pages[p] < 0) =>
                \A r \in Page \ {p} : processes[s].pages[r] = 0 =>
                  \A k, m \in DOMAIN used[s] : used[s][k] = p /\ used[s][m] = r => k < m]_allVars
  <2> SUFFICES ASSUME TypeOK, MCLRUInv, MCEvictInv, MCNext, pager = "lru",
                      NEW s \in Slot, NEW p \in Page, active(s), processes[s].pages[p] = 0,
                      phase = "pageit", processes'[s].pages[p] < 0,
                      NEW r \in Page \ {p}, processes[s].pages[r] = 0,
                      NEW k \in DOMAIN used[s], NEW m \in DOMAIN used[s],
                      used[s][k] = p, used[s][m] = r
               PROVE  k < m
    OBVIOUS
  <2> QED BY EvictStep DEF MCLRUInv, MCEvictInv
<1>2. MCSpec => []TypeOK
  BY MCImplementsAny, TypeCorrect
<1> QED BY <1>1, <1>2, MCLRUInvHolds, MCEvictInvHolds, PTL DEF MCSpec, EvictsLeastRecentlyUsed
=============================================================================
