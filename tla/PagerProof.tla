----------------------------- MODULE PagerProof -----------------------------
(***************************************************************************)
(* Page frames are conserved, for any number of slots, pages and frames,   *)
(* whatever the pager does.                                                *)
(***************************************************************************)
EXTENDS PagerAny, FiniteSetTheorems, SequenceTheorems, TLAPS

\* The frames in use when the slots hold the processes P.
FramesOf(P) == {sp \in Slot \X Page : P[sp[1]] # IDLE /\ sp[2] \in Held(P[sp[1]])}

LEMMA ConstantFacts ==
  /\ procs \in Nat \ {0} /\ MAXPROCPAGES \in Nat \ {0} /\ PAGEWAIT \in Nat \ {0}
  /\ PHYSICALPAGES \in Nat \ {0}
  /\ Out \in Int /\ Out < -1 /\ Out = -PAGEWAIT - 1
  /\ 0 \in Slot /\ Slot \subseteq Nat
BY SimulatorAssumption DEF Out, Slot

LEMMA FramesFinite ==
  ASSUME NEW P
  PROVE  /\ IsFiniteSet(FramesOf(P)) /\ Cardinality(FramesOf(P)) \in Nat
         /\ \A s \in Slot : IsFiniteSet(Held(P[s]))
<1>1. IsFiniteSet(Slot) /\ IsFiniteSet(Page)
  BY ConstantFacts, FS_Interval DEF Slot, Page
<1>2. IsFiniteSet(Slot \X Page)
  BY <1>1, FS_Product
<1>3. IsFiniteSet(FramesOf(P))
  BY <1>2, FS_Subset DEF FramesOf
<1>4. \A s \in Slot : IsFiniteSet(Held(P[s]))
  BY <1>1, FS_Subset DEF Held
<1> QED BY <1>3, <1>4, FS_CardinalityType
-----------------------------------------------------------------------------
(* Branches and loading                                                    *)

LEMMA TableType ==
  ASSUME NEW p \in Program
  PROVE  Table(p) \in Seq(Branch)
<1>1. p.branches \in Seq(Branch)
  BY DEF Program
<1>2. [wherefrom |-> 0, whereto |-> 0, btype |-> "FOR", min |-> 1, max |-> 1] \in Branch
  BY DEF Branch
<1> QED BY <1>1, <1>2 DEF Table

LEMMA TripsType ==
  ASSUME NEW b \in Branch
  PROVE  Trips(b) \subseteq Int
BY DEF Trips, Branch

LEMMA ContextInit ==
  ASSUME NEW b \in Branch
  PROVE  bcontext_init(b) \subseteq Context
<1> SUFFICES ASSUME NEW c \in bcontext_init(b)
             PROVE  c \in Context
  OBVIOUS
<1>1. CASE b.btype = "GOTO"
  <2>1. c = [bvalue |-> TRUE, left |-> 1]
    BY <1>1 DEF bcontext_init
  <2> QED BY <2>1 DEF Context
<1>2. CASE b.btype = "IF"
  BY <1>2 DEF bcontext_init, Context
<1>3. CASE b.btype = "FOR"
  BY <1>3, TripsType DEF bcontext_init, Context
<1>4. CASE b.btype = "NFOR"
  BY <1>4, TripsType DEF bcontext_init, Context
<1> QED BY <1>1, <1>2, <1>3, <1>4 DEF Branch

LEMMA ContextDecide ==
  ASSUME NEW b \in Branch, NEW c \in Context
  PROVE  bcontext_decide(b, c) \subseteq Context
<1>1. b.btype \in {"GOTO", "IF", "FOR", "NFOR"}
  BY DEF Branch
<1>2. c.bvalue \in BOOLEAN /\ c.left \in Int /\ [c EXCEPT !.left = @ - 1] \in Context
  BY DEF Context
<1>3. \A n \in Trips(b) \cup {1} : [bvalue |-> ~c.bvalue, left |-> n] \in Context
  BY <1>2, TripsType DEF Context
<1> QED BY <1>1, <1>2, <1>3, TripsType DEF bcontext_decide, Context

\* A process just loaded is at the start of its program and holds no frame.
LEMMA LoadType ==
  ASSUME NEW p \in Program, NEW q \in process_load(p)
  PROVE  /\ q \in Process
         /\ q.pc <= q.program.size
         /\ DOMAIN q.bcontexts = DOMAIN Table(q.program)
         /\ Held(q) = {}
<1>1. PICK c : /\ q = [program |-> p, pc |-> 0, pages |-> [r \in Page |-> Out], bcontexts |-> c]
               /\ DOMAIN c = DOMAIN Table(p)
               /\ c = [k \in DOMAIN Table(p) |-> c[k]]
               /\ \A k \in DOMAIN Table(p) : c[k] \in bcontext_init(Table(p)[k])
  BY DEF process_load
<1>2. PICK n \in Nat : DOMAIN Table(p) = 1 .. n /\ \A k \in 1 .. n : Table(p)[k] \in Branch
  BY TableType, LenProperties
<1>3. \A k \in 1 .. n : c[k] \in Context
  BY <1>1, <1>2, ContextInit
<1>4. c \in Seq(Context)
  <2>1. c \in [1 .. n -> Context]
    BY <1>1, <1>2, <1>3
  <2> QED BY <2>1, SeqDef
<1>5. p.size \in Nat
  BY SimulatorAssumption DEF Program
<1>6. [r \in Page |-> Out] \in [Page -> Out .. PAGEWAIT]
  BY ConstantFacts
<1> QED BY <1>1, <1>4, <1>5, <1>6 DEF Process, Held
-----------------------------------------------------------------------------
(* The inductive invariant                                                 *)

\* Before a slot is filled for the first time it is idle.
InitInv == phase = "init" => \A s \in Slot : s >= i => processes[s] = IDLE

IInv == TypeOK /\ FramesConserved /\ InitInv

LEMMA FramesNow == Frames = FramesOf(processes) /\ Frames' = FramesOf(processes')
BY DEF Frames, FramesOf, active

\* What the types say of a slot.
LEMMA SlotType ==
  ASSUME TypeOK, NEW s \in Slot, active(s)
  PROVE  /\ processes[s] \in Process
         /\ \A p \in Page : processes[s].pages[p] \in Out .. PAGEWAIT
         /\ processes[s].program \in Program
BY DEF TypeOK, active, Process

LEMMA PagesavailType ==
  ASSUME pagesavail' \in Int, pagesavail' >= 0, FramesConserved'
  PROVE  pagesavail' \in 0 .. PHYSICALPAGES
<1>1. Cardinality(Frames') \in Nat
  BY FramesNow, FramesFinite
<1> QED BY <1>1, ConstantFacts DEF FramesConserved

LEMMA AdvanceType ==
  ASSUME TypeOK, NEW next \in {"step", "age", "pageit", "done"}, Advance(next)
  PROVE  /\ i' \in Slot /\ phase' \in {"init", "step", "age", "pageit", "done"}
         /\ phase' = "init" => phase = "init" /\ i' = i + 1
BY ConstantFacts DEF TypeOK, Advance, Slot

\* Filling a slot anew takes its frames, and nothing else, out of use.
LEMMA ReloadStep ==
  ASSUME TypeOK, Reload
  PROVE  /\ queue' \in Seq(Program)
         /\ processes' \in [Slot -> Process \cup {IDLE}]
         /\ \A s \in Slot : s # i => processes'[s] = processes[s]
         /\ \A s \in Slot : active(s)' =>
              /\ processes'[s].pc <= processes'[s].program.size
              /\ DOMAIN processes'[s].bcontexts = DOMAIN Table(processes'[s].program)
         /\ FramesOf(processes') = Frames \ ({i} \X Page)
<1> i \in Slot /\ processes \in [Slot -> Process \cup {IDLE}] /\ queue \in Seq(Program)
  BY DEF TypeOK
<1>1. CASE queue = <<>> /\ processes' = [processes EXCEPT ![i] = IDLE] /\ UNCHANGED queue
  <2>1. FramesOf(processes') = Frames \ ({i} \X Page)
    BY <1>1 DEF FramesOf, Frames, active
  <2> QED BY <1>1, <2>1 DEF TypeOK, active
<1>2. ASSUME queue # <<>>, queue' = Tail(queue),
             NEW q \in process_load(Head(queue)), processes' = [processes EXCEPT ![i] = q]
      PROVE  /\ queue' \in Seq(Program)
             /\ processes' \in [Slot -> Process \cup {IDLE}]
             /\ \A s \in Slot : s # i => processes'[s] = processes[s]
             /\ \A s \in Slot : active(s)' =>
                  /\ processes'[s].pc <= processes'[s].program.size
                  /\ DOMAIN processes'[s].bcontexts = DOMAIN Table(processes'[s].program)
             /\ FramesOf(processes') = Frames \ ({i} \X Page)
  <2>1. Head(queue) \in Program /\ Tail(queue) \in Seq(Program)
    BY <1>2, HeadTailProperties
  <2>2. /\ q \in Process /\ q.pc <= q.program.size
        /\ DOMAIN q.bcontexts = DOMAIN Table(q.program)
        /\ Held(q) = {}
    BY <2>1, <1>2, LoadType
  <2>3. processes' \in [Slot -> Process \cup {IDLE}]
    BY <1>2, <2>2
  <2>4. FramesOf(processes') = Frames \ ({i} \X Page)
    BY <1>2, <2>2 DEF FramesOf, Frames, active
  <2> QED BY <1>2, <2>1, <2>2, <2>3, <2>4 DEF TypeOK, active
<1> QED BY <1>1, <1>2 DEF Reload

\* How many frames a slot has in use.
LEMMA FramesOfSlot ==
  ASSUME TypeOK, NEW s \in Slot
  PROVE  /\ ~active(s) => Frames \ ({s} \X Page) = Frames
         /\ active(s) => Cardinality(Frames \ ({s} \X Page))
                           = Cardinality(Frames) - Cardinality(Held(processes[s]))
<1>1. CASE ~active(s)
  BY <1>1 DEF Frames
<1>2. CASE active(s)
  <2>1. Frames \cap ({s} \X Page) = {s} \X Held(processes[s])
    BY <1>2 DEF Frames, Held
  <2>2. IsFiniteSet(Frames) /\ Cardinality(Frames) \in Nat /\ IsFiniteSet(Held(processes[s]))
    BY FramesNow, FramesFinite
  <2>3. Cardinality({s} \X Held(processes[s])) = 1 * Cardinality(Held(processes[s]))
    <3>1. IsFiniteSet({s}) /\ Cardinality({s}) = 1
      BY FS_Singleton
    <3>2. Cardinality({s} \X Held(processes[s])) = Cardinality({s}) * Cardinality(Held(processes[s]))
      BY <2>2, <3>1, FS_Product, Zenon
    <3> QED BY <3>1, <3>2, Zenon
  <2>4. Cardinality(Held(processes[s])) \in Nat
    BY <2>2, FS_CardinalityType
  <2>5. 1 * Cardinality(Held(processes[s])) = Cardinality(Held(processes[s]))
    BY <2>4
  <2>6. Cardinality(Frames \ ({s} \X Page))
          = Cardinality(Frames) - Cardinality(Frames \cap ({s} \X Page))
    BY <2>2, FS_Difference
  <2> QED BY <1>2, <2>1, <2>3, <2>5, <2>6
<1> QED BY <1>1, <1>2

\* A process that goes on in its slot.
LEMMA SlotStep ==
  ASSUME TypeOK, NEW s \in Slot, active(s), NEW q \in Process,
         processes' = [processes EXCEPT ![s] = q],
         q.pc <= q.program.size, DOMAIN q.bcontexts = DOMAIN Table(q.program)
  PROVE  /\ processes' \in [Slot -> Process \cup {IDLE}]
         /\ \A r \in Slot : active(r)' =>
              /\ processes'[r].pc <= processes'[r].program.size
              /\ DOMAIN processes'[r].bcontexts = DOMAIN Table(processes'[r].program)
         /\ Frames' = (Frames \ ({s} \X Page)) \cup ({s} \X Held(q))
         /\ Held(q) = Held(processes[s]) => Frames' = Frames
<1> processes \in [Slot -> Process \cup {IDLE}] /\ q # IDLE
  BY IdleAssumption DEF TypeOK
<1>1. Frames' = (Frames \ ({s} \X Page)) \cup ({s} \X Held(q))
  BY DEF Frames, active, Held
<1>2. Held(q) = Held(processes[s]) => Frames' = Frames
  BY <1>1 DEF Frames, Held
<1> QED BY <1>1, <1>2 DEF TypeOK, active
-----------------------------------------------------------------------------
(* The initial states and the steps                                        *)

LEMMA InitIInv == Init => IInv
<1> SUFFICES ASSUME Init PROVE IInv
  OBVIOUS
<1>1. TypeOK
  BY ConstantFacts, SimulatorAssumption DEF Init, TypeOK, active
<1>2. Frames = {}
  BY DEF Init, Frames, active
<1>3. FramesConserved
  BY <1>2, FS_EmptySet, ConstantFacts DEF Init, FramesConserved
<1> QED BY <1>1, <1>3 DEF Init, IInv, InitInv

\* Filling a slot that was idle.
LEMMA ReloadIdle ==
  ASSUME IInv, Reload, ~active(i), UNCHANGED pagesavail,
         NEW next \in {"step", "age"}, Advance(next)
  PROVE  IInv'
<1> i \in Slot /\ TypeOK /\ FramesConserved /\ InitInv
  BY DEF IInv, TypeOK
<1>1. Frames' = Frames
  BY ReloadStep, FramesOfSlot, FramesNow
<1>2. FramesConserved'
  BY <1>1 DEF FramesConserved
<1>3. TypeOK'
  BY ReloadStep, AdvanceType DEF TypeOK
<1>4. InitInv'
  BY ReloadStep, AdvanceType, ConstantFacts DEF InitInv, TypeOK
<1> QED BY <1>2, <1>3, <1>4 DEF IInv

LEMMA ExitIInv ==
  ASSUME IInv, StepExit
  PROVE  IInv'
<1> /\ i \in Slot /\ TypeOK /\ FramesConserved /\ phase = "step" /\ active(i)
    /\ Reload /\ Advance("age")
    /\ pagesavail' = pagesavail + Cardinality(Held(processes[i]))
    /\ pagesavail \in Int /\ pagesavail >= 0
  BY DEF IInv, TypeOK, StepExit, Runnable
<1>1. Cardinality(Frames') = Cardinality(Frames) - Cardinality(Held(processes[i]))
  BY ReloadStep, FramesOfSlot, FramesNow
<1>2. Cardinality(Held(processes[i])) \in Nat /\ Cardinality(Frames) \in Nat
  BY FramesFinite, FS_CardinalityType, FramesNow
<1>3. FramesConserved'
  BY <1>1, <1>2, ConstantFacts DEF FramesConserved
<1>4. pagesavail' \in 0 .. PHYSICALPAGES
  BY <1>2, <1>3, PagesavailType
<1>5. TypeOK'
  BY <1>4, ReloadStep, AdvanceType DEF TypeOK
<1>6. InitInv'
  BY AdvanceType DEF InitInv
<1> QED BY <1>3, <1>5, <1>6 DEF IInv

\* An instruction other than an exit, or a call of pageout: no frame changes hands.
LEMMA QuietStep ==
  ASSUME IInv, NEW s \in Slot, active(s), NEW q \in Process,
         processes' = [processes EXCEPT ![s] = q],
         q.pc <= q.program.size, DOMAIN q.bcontexts = DOMAIN Table(q.program),
         Held(q) = Held(processes[s]),
         UNCHANGED <<queue, pagesavail>>, phase # "init",
         i' \in Slot, phase' \in {"step", "age", "pageit", "done"}
  PROVE  IInv'
<1> TypeOK /\ FramesConserved
  BY DEF IInv
<1>1. Frames' = Frames
  BY SlotStep
<1>2. TypeOK'
  BY SlotStep DEF TypeOK
<1> QED BY <1>1, <1>2 DEF IInv, FramesConserved, InitInv

LEMMA BranchIInv ==
  ASSUME IInv, StepBranch
  PROVE  IInv'
<1> DEFINE q == processes[i]
           T == Table(q.program)
<1>1. /\ i \in Slot /\ TypeOK /\ phase = "step" /\ active(i)
      /\ UNCHANGED <<queue, pagesavail>> /\ Advance("age")
  BY DEF IInv, TypeOK, StepBranch, Runnable
<1>2. /\ q \in Process /\ q.program \in Program /\ q.pc \in Nat /\ q.program.size \in Nat
      /\ T \in Seq(Branch) /\ q.bcontexts \in Seq(Context) /\ DOMAIN q.bcontexts = DOMAIN T
  <2>1. q \in Process /\ q.program \in Program
    BY <1>1, SlotType
  <2>2. q.pc \in Nat /\ q.program.size \in Nat /\ q.bcontexts \in Seq(Context)
    BY <2>1, SimulatorAssumption DEF Process, Program
  <2> QED BY <1>1, <2>1, <2>2, TableType DEF TypeOK
<1>3. PICK k \in DOMAIN T : \E c \in bcontext_decide(T[k], q.bcontexts[k]) :
        processes' = [processes EXCEPT
          ![i].pc = IF (IF q.bcontexts[k].bvalue THEN T[k].whereto ELSE q.pc + 1)
                         \in 0 .. q.program.size - 1
                    THEN (IF q.bcontexts[k].bvalue THEN T[k].whereto ELSE q.pc + 1) ELSE 0,
          ![i].bcontexts[k] = c]
  BY DEF StepBranch
<1>4. PICK c \in bcontext_decide(T[k], q.bcontexts[k]), x \in 0 .. q.program.size :
        processes' = [processes EXCEPT ![i] = [q EXCEPT !.pc = x, !.bcontexts[k] = c]]
  <2> DEFINE y == IF q.bcontexts[k].bvalue THEN T[k].whereto ELSE q.pc + 1
             x == IF y \in 0 .. q.program.size - 1 THEN y ELSE 0
  <2>1. x \in 0 .. q.program.size
    BY <1>2
  <2>2. PICK c \in bcontext_decide(T[k], q.bcontexts[k]) :
          processes' = [processes EXCEPT ![i].pc = x, ![i].bcontexts[k] = c]
    BY <1>3
  <2>3. PICK z \in 0 .. q.program.size : processes' = [processes EXCEPT ![i].pc = z, ![i].bcontexts[k] = c]
    BY <2>1, <2>2
  <2>4. processes \in [Slot -> Process \cup {IDLE}] /\ processes[i] \in Process
    BY <1>1, <1>2 DEF TypeOK
  <2>5. [processes EXCEPT ![i].pc = z, ![i].bcontexts[k] = c]
          = [processes EXCEPT ![i] = [processes[i] EXCEPT !.pc = z, !.bcontexts[k] = c]]
    <3>1. [processes EXCEPT ![i].pc = z][i] = [processes[i] EXCEPT !.pc = z]
      BY <1>1, <2>4
    <3>2. [[processes EXCEPT ![i].pc = z] EXCEPT ![i].bcontexts[k] = c]
            = [processes EXCEPT ![i] = [[processes[i] EXCEPT !.pc = z] EXCEPT !.bcontexts[k] = c]]
      BY <1>1, <2>4, <3>1
    <3> QED BY <3>2
  <2> QED BY <2>3, <2>5
<1>5. T[k] \in Branch /\ q.bcontexts[k] \in Context /\ c \in Context
  BY <1>2, ElementOfSeq, ContextDecide
<1> DEFINE r == [q EXCEPT !.pc = x, !.bcontexts[k] = c]
<1>6. [q.bcontexts EXCEPT ![k] = c] \in Seq(Context)
  BY <1>2, <1>5, ExceptSeq
<1>7. /\ r \in Process /\ Held(r) = Held(q)
      /\ r.pc <= r.program.size /\ DOMAIN r.bcontexts = DOMAIN Table(r.program)
  <2>1. x \in Nat /\ x <= q.program.size
    BY <1>2
  <2>2. /\ r.pc = x /\ r.program = q.program /\ r.pages = q.pages
        /\ r.bcontexts = [q.bcontexts EXCEPT ![k] = c]
    BY <1>2 DEF Process
  <2>3. r \in Process
    BY <1>2, <1>6, <2>1 DEF Process
  <2> QED BY <1>2, <2>1, <2>2, <2>3 DEF Held
<1>8. i' \in Slot /\ phase' \in {"step", "age", "pageit"}
  BY <1>1, ConstantFacts DEF TypeOK, Advance, Slot
<1> QED BY <1>1, <1>4, <1>7, <1>8, QuietStep

LEMMA DefaultIInv ==
  ASSUME IInv, StepDefault
  PROVE  IInv'
<1> DEFINE q == processes[i]
<1>1. /\ i \in Slot /\ TypeOK /\ phase = "step" /\ active(i)
      /\ UNCHANGED <<queue, pagesavail>> /\ Advance("age")
  BY DEF IInv, TypeOK, StepDefault, Runnable
<1>2. /\ q \in Process /\ q.program \in Program /\ q.pc \in Nat /\ q.program.size \in Nat
      /\ DOMAIN q.bcontexts = DOMAIN Table(q.program)
  <2>1. q \in Process /\ q.program \in Program
    BY <1>1, SlotType
  <2>2. q.pc \in Nat /\ q.program.size \in Nat
    BY <2>1, SimulatorAssumption DEF Process, Program
  <2> QED BY <1>1, <2>1, <2>2 DEF TypeOK
<1>3. PICK x \in 0 .. q.program.size : processes' = [processes EXCEPT ![i] = [q EXCEPT !.pc = x]]
  <2>1. processes' = [processes EXCEPT
          ![i] = [q EXCEPT !.pc = IF q.pc + 1 > q.program.size THEN 0 ELSE q.pc + 1]]
    BY DEF StepDefault
  <2>2. (IF q.pc + 1 > q.program.size THEN 0 ELSE q.pc + 1) \in 0 .. q.program.size
    BY <1>2
  <2> QED BY <2>1, <2>2
<1> DEFINE r == [q EXCEPT !.pc = x]
<1>4. /\ r.pc = x /\ r.program = q.program /\ r.pages = q.pages /\ r.bcontexts = q.bcontexts
      /\ r \in Process
  BY <1>2 DEF Process
<1>5. /\ Held(r) = Held(q) /\ r.pc <= r.program.size
      /\ DOMAIN r.bcontexts = DOMAIN Table(r.program)
  BY <1>2, <1>4 DEF Held
<1>6. i' \in Slot /\ phase' \in {"step", "age", "pageit"}
  BY <1>1, ConstantFacts DEF TypeOK, Advance, Slot
<1> QED BY <1>1, <1>3, <1>4, <1>5, <1>6, QuietStep

\* Aging takes the pages whose way out ends, and no others, off their frames.
LEMMA AgeIInv ==
  ASSUME IInv, allage
  PROVE  IInv'
<1> DEFINE Aged(q) == [q EXCEPT !.pages =
                         [p \in Page |-> IF @[p] \in {0, Out} THEN @[p] ELSE @[p] - 1]]
           Ending == {sp \in Slot \X Page : active(sp[1]) /\ Freed(processes[sp[1]].pages[sp[2]])}
<1>1. /\ TypeOK /\ FramesConserved /\ phase' = "pageit" /\ UNCHANGED <<queue, i>>
      /\ processes' = [s \in Slot |-> IF ~active(s) THEN IDLE ELSE Aged(processes[s])]
      /\ pagesavail' = pagesavail + Cardinality(Ending)
  BY DEF IInv, allage
<1>2. ASSUME NEW s \in Slot, active(s)
      PROVE  /\ Aged(processes[s]) \in Process
             /\ Aged(processes[s]).pc = processes[s].pc
             /\ Aged(processes[s]).program = processes[s].program
             /\ Aged(processes[s]).bcontexts = processes[s].bcontexts
             /\ Held(Aged(processes[s])) =
                  {p \in Held(processes[s]) : ~Freed(processes[s].pages[p])}
  <2> DEFINE q == processes[s]
             aged == [p \in Page |-> IF q.pages[p] \in {0, Out} THEN q.pages[p] ELSE q.pages[p] - 1]
  <2>1. q \in Process /\ q.pages \in [Page -> Out .. PAGEWAIT]
    BY <1>1, <1>2, SlotType DEF Process
  <2>2. aged \in [Page -> Out .. PAGEWAIT]
    BY <2>1, ConstantFacts
  <2>3. /\ Aged(q).pages = aged /\ Aged(q) \in Process /\ Aged(q).pc = q.pc
        /\ Aged(q).program = q.program /\ Aged(q).bcontexts = q.bcontexts
    BY <2>1, <2>2 DEF Process
  <2>4. \A p \in Page : aged[p] # Out <=> q.pages[p] # Out /\ ~Freed(q.pages[p])
    BY <2>1, ConstantFacts DEF Freed
  <2> QED BY <2>3, <2>4 DEF Held
<1>3. \A s \in Slot : active(s)' <=> active(s)
  BY <1>1, <1>2, IdleAssumption DEF active
<1>4. Frames' = Frames \ Ending
  BY <1>1, <1>2, <1>3 DEF Frames
<1>5. Ending \subseteq Frames
  BY <1>1, SlotType, ConstantFacts DEF Frames, Held, Freed
<1>6. IsFiniteSet(Frames) /\ IsFiniteSet(Ending)
      /\ Cardinality(Frames) \in Nat /\ Cardinality(Ending) \in Nat
  BY <1>5, FramesNow, FramesFinite, FS_Subset, FS_CardinalityType
<1>7. Cardinality(Frames') = Cardinality(Frames) - Cardinality(Ending)
  <2>1. Frames \cap Ending = Ending
    BY <1>5
  <2>2. Cardinality(Frames \ Ending) = Cardinality(Frames) - Cardinality(Frames \cap Ending)
    BY <1>6, FS_Difference
  <2> QED BY <1>4, <2>1, <2>2
<1>8. FramesConserved'
  BY <1>1, <1>6, <1>7, ConstantFacts DEF FramesConserved, TypeOK
<1>9. pagesavail' \in 0 .. PHYSICALPAGES
  BY <1>1, <1>6, <1>8, PagesavailType DEF TypeOK
<1>10. processes' \in [Slot -> Process \cup {IDLE}]
  BY <1>1, <1>2
<1>11. \A s \in Slot : active(s)' =>
         /\ processes'[s].pc <= processes'[s].program.size
         /\ DOMAIN processes'[s].bcontexts = DOMAIN Table(processes'[s].program)
  BY <1>1, <1>2, <1>3 DEF TypeOK
<1>12. TypeOK'
  BY <1>1, <1>9, <1>10, <1>11 DEF TypeOK
<1> QED BY <1>1, <1>8, <1>12 DEF IInv, InitInv

\* pageit goes on, or main does.
LEMMA GoesOnType == GoesOn => phase' \in {"step", "pageit", "done"}
BY DEF GoesOn, NextTick

LEMMA PageInIInv ==
  ASSUME IInv, NEW s \in Slot, NEW p \in Page, CallPageIn(s, p)
  PROVE  IInv'
<1> DEFINE q == processes[s]
           r == [q EXCEPT !.pages[p] = PAGEWAIT]
<1>1. /\ TypeOK /\ FramesConserved /\ active(s) /\ phase = "pageit" /\ UNCHANGED <<queue, i>>
      /\ PageInOk(s, p) /\ PageIn(s, p) /\ phase' \in {"step", "pageit", "done"}
  BY GoesOnType DEF IInv, CallPageIn, PageInOk
<1>2. CASE UNCHANGED <<processes, pagesavail>>
  BY <1>1, <1>2 DEF IInv, TypeOK, FramesConserved, Frames, InitInv, active
<1>3. CASE /\ q.pages[p] = Out /\ pagesavail # 0
           /\ processes' = [processes EXCEPT ![s].pages[p] = PAGEWAIT]
           /\ pagesavail' = pagesavail - 1
  <2>1. /\ q \in Process /\ q.pages \in [Page -> Out .. PAGEWAIT] /\ q.pc <= q.program.size
        /\ DOMAIN q.bcontexts = DOMAIN Table(q.program)
    BY <1>1, SlotType DEF Process, TypeOK
  <2>2. processes' = [processes EXCEPT ![s] = r]
    BY <1>3
  <2>3. /\ r.pages = [q.pages EXCEPT ![p] = PAGEWAIT] /\ r.pc = q.pc
        /\ r.program = q.program /\ r.bcontexts = q.bcontexts
    BY <2>1 DEF Process
  <2>4. r \in Process
    <3>1. PAGEWAIT \in Out .. PAGEWAIT
      BY ConstantFacts
    <3> QED BY <2>1, <3>1 DEF Process
  <2>5. Held(r) = Held(q) \cup {p} /\ p \notin Held(q)
    BY <1>3, <2>1, <2>3, ConstantFacts DEF Held
  <2>6. /\ Frames' = (Frames \ ({s} \X Page)) \cup ({s} \X Held(r))
        /\ processes' \in [Slot -> Process \cup {IDLE}]
        /\ \A t \in Slot : active(t)' =>
             /\ processes'[t].pc <= processes'[t].program.size
             /\ DOMAIN processes'[t].bcontexts = DOMAIN Table(processes'[t].program)
    BY <1>1, <2>1, <2>2, <2>3, <2>4, SlotStep
  <2>7. Frames' = Frames \cup {<<s, p>>} /\ <<s, p>> \notin Frames
    BY <1>1, <2>5, <2>6 DEF Frames
  <2>8. Cardinality(Frames') = Cardinality(Frames) + 1 /\ Cardinality(Frames) \in Nat
    BY <2>7, FramesNow, FramesFinite, FS_AddElement
  <2>9. FramesConserved'
    BY <1>1, <1>3, <2>8, ConstantFacts DEF FramesConserved, TypeOK
  <2>10. pagesavail' \in 0 .. PHYSICALPAGES
    BY <1>1, <1>3, <2>9, PagesavailType DEF TypeOK
  <2>11. TypeOK'
    BY <1>1, <2>6, <2>10 DEF TypeOK
  <2> QED BY <1>1, <2>9, <2>11 DEF IInv, InitInv
<1> QED BY <1>1, <1>2, <1>3 DEF PageInOk, PageIn

LEMMA PageOutIInv ==
  ASSUME IInv, NEW s \in Slot, NEW p \in Page, CallPageOut(s, p)
  PROVE  IInv'
<1> DEFINE q == processes[s]
           out == IF q.pages[p] = 0 THEN -1 ELSE q.pages[p]
           r == [q EXCEPT !.pages[p] = out]
<1>1. /\ TypeOK /\ active(s) /\ phase = "pageit" /\ UNCHANGED <<queue, i, pagesavail>>
      /\ i \in Slot /\ phase' \in {"step", "age", "pageit", "done"}
      /\ processes' = [processes EXCEPT ![s].pages[p] = IF @ = 0 THEN -1 ELSE @]
  BY GoesOnType DEF IInv, TypeOK, CallPageOut, PageOutOk, PageOut
<1>2. /\ q \in Process /\ q.pages \in [Page -> Out .. PAGEWAIT] /\ q.pc <= q.program.size
      /\ DOMAIN q.bcontexts = DOMAIN Table(q.program)
  BY <1>1, SlotType DEF Process, TypeOK
<1>3. processes' = [processes EXCEPT ![s] = r]
  BY <1>1, <1>2 DEF Process
<1>4. /\ r.pages = [q.pages EXCEPT ![p] = out] /\ r.pc = q.pc
      /\ r.program = q.program /\ r.bcontexts = q.bcontexts
  BY <1>2 DEF Process
<1>5. out \in Out .. PAGEWAIT /\ (out = Out <=> q.pages[p] = Out)
  BY <1>2, ConstantFacts
<1>6. r \in Process
  BY <1>2, <1>5 DEF Process
<1>7. Held(r) = Held(q)
  BY <1>2, <1>4, <1>5 DEF Held
<1>8. /\ r.pc <= r.program.size /\ DOMAIN r.bcontexts = DOMAIN Table(r.program)
      /\ phase # "init" /\ i' \in Slot /\ UNCHANGED <<queue, pagesavail>>
  BY <1>1, <1>2, <1>4
<1> HIDE DEF r
<1> QED BY <1>1, <1>3, <1>6, <1>7, <1>8, QuietStep

LEMMA NextIInv == IInv /\ AnyNext => IInv'
<1> SUFFICES ASSUME IInv, AnyNext PROVE IInv'
  OBVIOUS
<1>1. CASE allinit
  <2>1. ~active(i)
    BY <1>1 DEF allinit, IInv, InitInv, TypeOK, active, Slot
  <2> QED BY <1>1, <2>1, ReloadIdle DEF allinit
<1>2. CASE StepIdle
  BY <1>2, ReloadIdle DEF StepIdle
<1>3. CASE StepBlocked
  BY <1>3, AdvanceType
     DEF StepBlocked, IInv, TypeOK, FramesConserved, Frames, InitInv, active
<1>4. CASE CallNothing \/ Terminated
  BY <1>4, GoesOnType DEF CallNothing, Terminated, simVars,
              IInv, TypeOK, FramesConserved, Frames, InitInv, active
<1> QED BY <1>1, <1>2, <1>3, <1>4, ExitIInv, BranchIInv, DefaultIInv, AgeIInv, PageInIInv, PageOutIInv
        DEF AnyNext, SimNext, allstep

LEMMA StutterIInv == IInv /\ UNCHANGED simVars => IInv'
BY DEF simVars, IInv, TypeOK, FramesConserved, Frames, InitInv, active
-----------------------------------------------------------------------------
(* The theorems                                                            *)

\* The inductive invariant holds in every reachable state.
THEOREM Invariance == AnySpec => []IInv
<1>1. IInv /\ [AnyNext]_simVars => IInv'
  BY NextIInv, StutterIInv
<1> QED BY InitIInv, <1>1, PTL DEF AnySpec

\* Free frames and frames in use add up to the memory: pagein, pageout, allage and
\* process_unload agree on who holds a frame, whatever pageit does.
THEOREM FramesCorrect == AnySpec => []FramesConserved
<1>1. IInv => FramesConserved
  BY DEF IInv
<1> QED BY <1>1, Invariance, PTL

\* Processes keep their shape, and no more frames are handed out than there are.
THEOREM TypeCorrect == AnySpec => []TypeOK
<1>1. IInv => TypeOK
  BY DEF IInv
<1> QED BY <1>1, Invariance, PTL
=============================================================================
