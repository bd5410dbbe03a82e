----------------------------- MODULE JobsProof -----------------------------
(***************************************************************************)
(* What the helpers of the job list return and preserve, for a list of any *)
(* length.  ShellProof cites these lemmas by name.                         *)
(***************************************************************************)
EXTENDS Jobs, TLAPS, FiniteSetTheorems, WellFoundedInduction

\* A finite set of numbers has a largest one: maxjid's loop finds it.  The
\* sets of numbers above an element, ordered by inclusion, have a least one.
LEMMA FiniteSetHasMax ==
  ASSUME NEW S \in SUBSET Nat, IsFiniteSet(S), S # {}
  PROVE  \E m \in S : \A n \in S : n <= m
<1> DEFINE Above(x) == {n \in S : n > x}
           T == {Above(x) : x \in S}
           R == StrictSubsetOrdering(S)
<1>1. T # {}
  OBVIOUS
<1>2. T \subseteq FiniteSubsetsOf(S)
  <2>1. \A x \in S : Above(x) \in SUBSET S
    OBVIOUS
  <2>2. \A x \in S : IsFiniteSet(Above(x))
    BY <2>1, FS_Subset
  <2> QED BY <2>1, <2>2 DEF FiniteSubsetsOf
<1>3. IsWellFoundedOn(R, FiniteSubsetsOf(S))
  BY FS_StrictSubsetOrderingWellFounded
<1> HIDE DEF T, R
<1>4. PICK A \in T : \A B \in T : <<B, A>> \notin R
  BY <1>1, <1>2, <1>3, WFMin
<1>5. PICK x \in S : A = Above(x)
  BY <1>4 DEF T
<1>6. ASSUME NEW y \in Above(x)
      PROVE  FALSE
  <2>1. y \in S /\ y > x
    BY <1>6
  <2>2. Above(y) \in T
    BY <2>1 DEF T
  <2>3. Above(y) \subseteq Above(x) /\ Above(y) # Above(x)
    <3>1. x \in Nat /\ y \in Nat /\ S \subseteq Nat
      BY <2>1
    <3>2. \A n \in S : n > y => n > x
      BY <3>1, <2>1
    <3>3. y \in Above(x) /\ y \notin Above(y)
      BY <3>1, <2>1
    <3> QED BY <3>2, <3>3
  <2>4. <<Above(y), A>> \in R
    BY <2>3, <1>5 DEF R, StrictSubsetOrdering
  <2> QED BY <1>4, <2>2, <2>4
<1> QED BY <1>5, <1>6

\* A nonempty set of slots has a first one, and a loop finds it.
LEMMA FirstSlotSpec ==
  ASSUME NEW S \in SUBSET Slots, S # {}
  PROVE  FirstSlot(S) \in S /\ \A j \in S : FirstSlot(S) <= j
<1>1. S \subseteq Nat
  BY MaxJobsAssumption DEF Slots
<1>2. \E i \in S : \A j \in S : <<j, i>> \notin OpToRel(<, Nat)
  BY <1>1, NatLessThanWellFounded, WFMin
<1>3. \A i, j \in S : i < j => <<i, j>> \in OpToRel(<, Nat)
  BY <1>1 DEF OpToRel
<1>4. \E i \in S : \A j \in S : i <= j
  <2>1. PICK i \in S : \A j \in S : ~(j < i)
    BY <1>2, <1>3
  <2>2. \A j \in S : i <= j
    BY <1>1, <2>1
  <2> QED BY <2>2
<1> QED BY <1>4 DEF FirstSlot

LEMMA FirstSlotType ==
  ASSUME NEW S \in SUBSET Slots
  PROVE  /\ FirstSlot(S) \in Slots \cup {NoSlot}
         /\ FirstSlot(S) = NoSlot <=> S = {}
<1>1. NoSlot \notin Slots
  BY MaxJobsAssumption DEF NoSlot, Slots
<1>2. S = {} => FirstSlot(S) = NoSlot
  BY DEF FirstSlot
<1>3. S # {} => FirstSlot(S) \in Slots
  BY FirstSlotSpec
<1> QED BY <1>1, <1>2, <1>3

\* The table, as far as its own functions know it.
Table(P) == [Slots -> [pid : P \cup {0}, jid : Nat, state : JobStates]]

\* maxjid returns a job ID, and none in the list is larger.
LEMMA MaxJid_Spec ==
  ASSUME NEW P, NEW jobs \in Table(P)
  PROVE  maxjid(jobs) \in Nat /\ \A i \in Slots : jobs[i].jid <= maxjid(jobs)
<1> DEFINE f   == [i \in Slots |-> jobs[i].jid]
           ids == {jobs[i].jid : i \in Slots}
<1>1. IsFiniteSet(Slots)
  BY FS_Interval, MaxJobsAssumption DEF Slots
<1>2. f \in Surjection(Slots, ids)
  BY DEF Surjection
<1>3. IsFiniteSet(ids)
  BY <1>1, <1>2, FS_Surjection
<1>4. IsFiniteSet(ids \cup {0})
  BY <1>3, FS_AddElement
<1>5. ids \cup {0} \in SUBSET Nat
  BY DEF Table
<1>6. \E m \in ids \cup {0} : \A n \in ids \cup {0} : n <= m
  BY <1>4, <1>5, FiniteSetHasMax
<1>7. maxjid(jobs) \in ids \cup {0} /\ \A n \in ids \cup {0} : n <= maxjid(jobs)
  BY <1>6 DEF maxjid
<1> QED BY <1>5, <1>7

\* getjobpid returns a slot of the process, and NULL only when there is none.
LEMMA GetJobPid_Spec ==
  ASSUME NEW jobs, NEW p \in Int
  PROVE  /\ getjobpid(jobs, p) \in Slots \cup {NoSlot}
         /\ getjobpid(jobs, p) # NoSlot => p >= 1 /\ jobs[getjobpid(jobs, p)].pid = p
         /\ p >= 1 /\ getjobpid(jobs, p) = NoSlot => \A i \in Slots : jobs[i].pid # p
<1> DEFINE S == {i \in Slots : jobs[i].pid = p}
<1>1. S \in SUBSET Slots
  OBVIOUS
<1>2. CASE p < 1
  BY <1>2 DEF getjobpid
<1>3. CASE ~(p < 1)
  <2>1. getjobpid(jobs, p) = FirstSlot(S)
    BY <1>3 DEF getjobpid
  <2>2. FirstSlot(S) \in Slots \cup {NoSlot} /\ (FirstSlot(S) = NoSlot <=> S = {})
    BY <1>1, FirstSlotType
  <2>3. S # {} => FirstSlot(S) \in S
    BY <1>1, FirstSlotSpec
  <2> QED BY <1>3, <2>1, <2>2, <2>3
<1> QED BY <1>2, <1>3

\* getjobjid returns a slot of the table or NULL.
LEMMA GetJobJid_Type ==
  ASSUME NEW jobs, NEW j
  PROVE  getjobjid(jobs, j) \in Slots \cup {NoSlot}
<1>1. {i \in Slots : jobs[i].jid = j} \in SUBSET Slots
  OBVIOUS
<1> QED BY <1>1, FirstSlotType DEF getjobjid

\* fgpid returns the process of a foreground job if there is one, else 0.
LEMMA Fgpid_Spec ==
  ASSUME NEW jobs
  PROVE  /\ Foreground(jobs) = {} => fgpid(jobs) = 0
         /\ Foreground(jobs) # {} => \E i \in Foreground(jobs) : fgpid(jobs) = jobs[i].pid
<1>1. Foreground(jobs) \in SUBSET Slots
  BY DEF Foreground
<1>2. FirstSlot(Foreground(jobs)) = NoSlot <=> Foreground(jobs) = {}
  BY <1>1, FirstSlotType
<1>3. Foreground(jobs) # {} => FirstSlot(Foreground(jobs)) \in Foreground(jobs)
  BY <1>1, FirstSlotSpec
<1> QED BY <1>2, <1>3 DEF fgpid, Foreground

\* addjob fills one free slot, or changes nothing because there is none.
LEMMA AddJob_Spec ==
  ASSUME NEW jobs, NEW n, NEW p \in Int, NEW st
  PROVE  \/ /\ addjob(jobs, n, p, st) = jobs /\ NextJidAfterAdd(jobs, n, p) = n
            /\ p < 1 \/ \A i \in Slots : jobs[i].pid # 0
         \/ /\ p >= 1
            /\ \E f \in Slots :
                 /\ jobs[f].pid = 0
                 /\ addjob(jobs, n, p, st)
                      = [jobs EXCEPT ![f] = [pid |-> p, jid |-> n, state |-> st]]
                 /\ NextJidAfterAdd(jobs, n, p) = IF n + 1 > MAXJOBS THEN 1 ELSE n + 1
<1> DEFINE S == {i \in Slots : jobs[i].pid = 0}
<1>1. S \in SUBSET Slots
  OBVIOUS
<1>2. (FreeSlot(jobs) = NoSlot /\ S = {}) \/ FreeSlot(jobs) \in S
  BY <1>1, FirstSlotType, FirstSlotSpec DEF FreeSlot
<1>3. FreeSlot(jobs) \in S => FreeSlot(jobs) # NoSlot
  BY MaxJobsAssumption DEF Slots, NoSlot
<1> QED BY <1>2, <1>3 DEF addjob, NextJidAfterAdd

\* deletejob clears one slot of the process, or changes nothing because the
\* process is not in the list; the next job ID stays positive.
LEMMA DeleteJob_Spec ==
  ASSUME NEW P, P \subseteq Nat, NEW jobs \in Table(P), NEW n \in Nat \ {0}, NEW p \in Nat \ {0}
  PROVE  /\ NextJidAfterDelete(jobs, n, p) \in Nat \ {0}
         /\ \/ /\ deletejob(jobs, p) = jobs
               /\ \A i \in Slots : jobs[i].pid # p
            \/ \E s \in Slots : /\ jobs[s].pid = p
                                /\ deletejob(jobs, p) = [jobs EXCEPT ![s] = EmptyJob]
<1>1. p \in Int /\ p >= 1
  OBVIOUS
<1>2. CASE getjobpid(jobs, p) = NoSlot
  <2>1. deletejob(jobs, p) = jobs /\ NextJidAfterDelete(jobs, n, p) = n
    BY <1>2 DEF deletejob, NextJidAfterDelete
  <2>2. \A i \in Slots : jobs[i].pid # p
    BY <1>1, <1>2, GetJobPid_Spec
  <2> QED BY <2>1, <2>2
<1>3. CASE getjobpid(jobs, p) # NoSlot
  <2> DEFINE s == getjobpid(jobs, p)
  <2>1. s \in Slots /\ jobs[s].pid = p
    BY <1>1, <1>3, GetJobPid_Spec
  <2>2. deletejob(jobs, p) = [jobs EXCEPT ![s] = EmptyJob]
    BY <1>3 DEF deletejob
  <2> HIDE DEF s
  <2>3. deletejob(jobs, p) \in Table(P)
    <3>1. EmptyJob \in [pid : P \cup {0}, jid : Nat, state : JobStates]
      BY DEF EmptyJob, JobStates
    <3> QED BY <2>2, <3>1 DEF Table
  <2>4. maxjid(deletejob(jobs, p)) \in Nat
    BY <2>3, MaxJid_Spec
  <2>5. NextJidAfterDelete(jobs, n, p) = maxjid(deletejob(jobs, p)) + 1
    BY <1>3 DEF NextJidAfterDelete
  <2>6. NextJidAfterDelete(jobs, n, p) \in Nat \ {0}
    BY <2>4, <2>5
  <2> QED BY <2>1, <2>2, <2>6
<1> QED BY <1>2, <1>3
=============================================================================
