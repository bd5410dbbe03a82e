----------------------------- MODULE Simulator ------------------------------
(***************************************************************************)
(* The paging simulator of lab6 (simulator.c): processes that run one      *)
(* instruction a tick when the page of their pc is in memory, and page     *)
(* frames that pagein takes and pageout gives back after a wait.           *)
(*                                                                         *)
(* A tick is one pass of main's loop: allstep, allage, callyou.  The pager *)
(* that callyou calls is in a module of its own.  What the branches of a   *)
(* program decide comes from random numbers: here it is any of the         *)
(* outcomes.                                                               *)
(***************************************************************************)
EXTENDS Integers, FiniteSets, Sequences

CONSTANTS
  procs,           \* number of processes in memory at a time
  Queues,          \* the orders of programs that initqueue's shuffle may give
  MAXPROCPAGES, PAGESIZE, PAGEWAIT, PHYSICALPAGES,   \* simulator.h
  IDLE             \* a slot without a process

\* A branch of a program: where it is, where it leads, how and how often.
Branch == [wherefrom : Nat, whereto : Nat, btype : {"GOTO", "IF", "FOR", "NFOR"},
           min : Nat, max : Nat]

Program == [size : 1 .. MAXPROCPAGES * PAGESIZE, exits : SUBSET Nat, branches : Seq(Branch)]

ASSUME SimulatorAssumption ==
  /\ {procs, MAXPROCPAGES, PAGESIZE, PAGEWAIT, PHYSICALPAGES} \subseteq Nat \ {0}
  /\ Queues \subseteq Seq(Program) \ {<<>>}

Slot == 0 .. procs - 1
Page == 0 .. MAXPROCPAGES - 1
Out  == -PAGEWAIT - 1    \* 0: in memory, > 0: coming in, Out < s < 0: going out

Context == [bvalue : BOOLEAN, left : Int]

Process == [program : Program, pc : Nat, pages : [Page -> Out .. PAGEWAIT],
            bcontexts : Seq(Context)]

ASSUME IdleAssumption == IDLE \notin Process

VARIABLES
  queue,        \* the programs not loaded yet
  processes,    \* per slot: its program, pc, pages and branch contexts, or IDLE
  pagesavail,   \* free page frames
  phase, i      \* what main does, and the index of its loop over the slots

simVars == <<queue, processes, pagesavail, phase, i>>

active(s)  == processes[s] # IDLE
\* The page the pc of a process needs, and where it is.
Needed(s)  == processes[s].pc \div PAGESIZE
Runnable(s) == active(s) /\ processes[s].pages[Needed(s)] = 0

\* Pages that hold a frame: in memory, or on the way in or out.
Held(q) == {p \in Page : q.pages[p] # Out}
-----------------------------------------------------------------------------
(* Branches.  A context says what the branch decides next and for how many *)
(* times.                                                                  *)

\* With no branches, process_step compares the pc with the zeros of the first
\* entry, whose context process_clear set to decide yes and no in turn.
Table(p) ==
  IF p.branches = <<>>
  THEN <<[wherefrom |-> 0, whereto |-> 0, btype |-> "FOR", min |-> 1, max |-> 1]>>
  ELSE p.branches

\* Times a loop is taken before it is left once.
Trips(b) == IF b.max > b.min THEN b.min .. b.max - 1 ELSE {b.min}

bcontext_init(b) ==
  CASE b.btype = "GOTO" -> {[bvalue |-> TRUE, left |-> 1]}
    [] b.btype = "IF"   -> [bvalue : BOOLEAN, left : {1}]
    [] b.btype = "FOR"  -> [bvalue : {TRUE}, left : Trips(b)]
    [] b.btype = "NFOR" -> [bvalue : {FALSE}, left : Trips(b)]

\* The contexts that a decision by context c may leave.
bcontext_decide(b, c) ==
  CASE b.btype = "GOTO" -> {c}
    [] b.btype = "IF"   -> [bvalue : BOOLEAN, left : {1}]
    [] OTHER ->
         IF c.left > 1 THEN {[c EXCEPT !.left = @ - 1]}
         ELSE [bvalue : {~c.bvalue},
               left : IF c.bvalue = (b.btype = "FOR") THEN {1} ELSE Trips(b)]

\* Processes that process_load may make of a program.
process_load(p) ==
  LET Contexts == UNION {bcontext_init(b) : b \in {Table(p)[k] : k \in DOMAIN Table(p)}}
  IN  {[program |-> p, pc |-> 0, pages |-> [q \in Page |-> Out], bcontexts |-> c] :
         c \in {f \in [DOMAIN Table(p) -> Contexts] :
                  \A k \in DOMAIN f : f[k] \in bcontext_init(Table(p)[k])}}
-----------------------------------------------------------------------------
(* allinit and allstep                                                     *)

Init ==
  /\ queue \in Queues
  /\ processes = [s \in Slot |-> IDLE]
  /\ pagesavail = PHYSICALPAGES
  /\ phase = "init" /\ i = 0

\* The loop index moves on; after the last slot comes the next phase.
Advance(next) ==
  /\ i' = IF i + 1 < procs THEN i + 1 ELSE 0
  /\ phase' = IF i + 1 < procs THEN phase ELSE next

\* Slot i gets the process at the end of the queue, or none.
Reload ==
  \/ /\ queue = <<>>
     /\ processes' = [processes EXCEPT ![i] = IDLE]
     /\ UNCHANGED queue
  \/ /\ queue # <<>>
     /\ \E q \in process_load(Head(queue)) : processes' = [processes EXCEPT ![i] = q]
     /\ queue' = Tail(queue)

allinit == phase = "init" /\ Reload /\ Advance("step") /\ UNCHANGED pagesavail

StepIdle ==
  /\ phase = "step" /\ ~active(i)
  /\ Reload /\ Advance("age")
  /\ UNCHANGED pagesavail

\* The page is not in memory: the process does not run.
StepBlocked ==
  /\ phase = "step" /\ active(i) /\ ~Runnable(i)
  /\ Advance("age")
  /\ UNCHANGED <<queue, processes, pagesavail>>

\* Mutant: pages on their way out are forgotten when the process ends.
BugUnloadResident ==
  /\ phase = "step" /\ Runnable(i)
  /\ processes[i].pc \in processes[i].program.exits
  /\ pagesavail' = pagesavail + Cardinality({p \in Page : processes[i].pages[p] >= 0})
  /\ Reload /\ Advance("age")

\* The process is at an exit: process_unload frees its frames.
StepExit ==
  /\ phase = "step" /\ Runnable(i)
  /\ processes[i].pc \in processes[i].program.exits
  /\ pagesavail' = pagesavail + Cardinality(Held(processes[i]))
  /\ Reload /\ Advance("age")

\* process_dobranch; the search takes the branch with the process's pc.
StepBranch ==
  /\ phase = "step" /\ Runnable(i)
  /\ LET q == processes[i]
         T == Table(q.program)
     IN  /\ q.pc \notin q.program.exits
         /\ \E k \in DOMAIN T :
              /\ T[k].wherefrom = q.pc
              /\ LET pc == IF q.bcontexts[k].bvalue THEN T[k].whereto ELSE q.pc + 1
                 IN  \E c \in bcontext_decide(T[k], q.bcontexts[k]) :
                       processes' = [processes EXCEPT
                         ![i].pc = IF pc \in 0 .. q.program.size - 1 THEN pc ELSE 0,
                         ![i].bcontexts[k] = c]
  /\ Advance("age")
  /\ UNCHANGED <<queue, pagesavail>>

StepDefault ==
  /\ phase = "step" /\ Runnable(i)
  /\ LET q == processes[i]
         T == Table(q.program)
     IN  /\ q.pc \notin q.program.exits
         /\ \A k \in DOMAIN T : T[k].wherefrom # q.pc
         /\ processes' = [processes EXCEPT
              ![i].pc = IF q.pc + 1 > q.program.size THEN 0 ELSE q.pc + 1]
  /\ Advance("age")
  /\ UNCHANGED <<queue, pagesavail>>

allstep == StepIdle \/ StepBlocked \/ StepExit \/ StepBranch \/ StepDefault
-----------------------------------------------------------------------------
\* Mutant: a frame is free as soon as its page starts to go out.
BugFreedEarly(s) == s = -1

\* Does aging a page in state s end its way out?
Freed(s) == s = -PAGEWAIT

\* allage: a tick passes for the pages on their way.
allage ==
  /\ phase = "age"
  /\ processes' = [s \in Slot |->
       IF ~active(s) THEN IDLE
       ELSE [processes[s] EXCEPT !.pages =
               [p \in Page |-> IF @[p] \in {0, Out} THEN @[p] ELSE @[p] - 1]]]
  /\ pagesavail' = pagesavail
       + Cardinality({sp \in Slot \X Page : active(sp[1]) /\ Freed(processes[sp[1]].pages[sp[2]])})
  /\ phase' = "pageit"
  /\ UNCHANGED <<queue, i>>
-----------------------------------------------------------------------------
(* pagein and pageout, as a pager calls them.                              *)

\* What pagein returns ...
PageInOk(s, p) ==
  /\ active(s) /\ p \in Page
  /\ processes[s].pages[p] >= 0 \/ (pagesavail # 0 /\ processes[s].pages[p] = Out)

\* ... and, when it returns TRUE, does: nothing for a page that is in or coming.
PageIn(s, p) ==
  IF processes[s].pages[p] >= 0
  THEN UNCHANGED <<processes, pagesavail>>
  ELSE /\ processes' = [processes EXCEPT ![s].pages[p] = PAGEWAIT]
       /\ pagesavail' = pagesavail - 1

\* What pageout returns ...
PageOutOk(s, p) == active(s) /\ p \in Page /\ processes[s].pages[p] <= 0

\* ... and does: a page that is out or going out already is left alone.
PageOut(s, p) ==
  /\ processes' = [processes EXCEPT ![s].pages[p] = IF @ = 0 THEN -1 ELSE @]
  /\ UNCHANGED pagesavail

alldone == \A s \in Slot : ~active(s)

\* After pageit main goes on to the next tick, or ends.
NextTick == IF alldone THEN "done" ELSE "step"

Terminated == phase = "done" /\ UNCHANGED simVars

SimNext == allinit \/ allstep \/ allage
-----------------------------------------------------------------------------
(* What every pager relies on.                                             *)

\* The pc of a process stays in its program, or one past its end.
TypeOK ==
  /\ queue \in Seq(Program)
  /\ processes \in [Slot -> Process \cup {IDLE}]
  /\ \A s \in Slot : active(s) =>
       /\ processes[s].pc <= processes[s].program.size
       /\ DOMAIN processes[s].bcontexts = DOMAIN Table(processes[s].program)
  /\ pagesavail \in 0 .. PHYSICALPAGES
  /\ phase \in {"init", "step", "age", "pageit", "done"}
  /\ i \in Slot

\* The page frames in use: each is held by a page of a process.
Frames == {sp \in Slot \X Page : active(sp[1]) /\ sp[2] \in Held(processes[sp[1]])}

\* No frame is lost or given out twice: pagesavail and the pages that hold a frame
\* add up to the memory, when pages wait, processes end in the middle of a wait
\* and others are loaded in their place.
FramesConserved == pagesavail + Cardinality(Frames) = PHYSICALPAGES
=============================================================================
