------------------------------ MODULE SchedSim ------------------------------
(***************************************************************************)
(* sim.cc: the program that drives the scheduler.  It adds its processes   *)
(* with priorities that cycle through the levels, then lets nextProcess    *)
(* choose and runs the chosen process for its quantum, one unit a step.    *)
(* A process of the simulator is the address of its node, too.             *)
(***************************************************************************)
EXTENDS Scheduler

CONSTANTS
  Processes,   \* how many processes the simulator adds
  Units        \* the work each process starts with

ASSUME SimAssumption ==
  /\ Processes \in Nat \ {0} /\ Units \in Nat
  /\ 0 .. Processes - 1 \subseteq Addr \cap Pid

VARIABLES
  processes,   \* work left, per process
  i,           \* the process to add next
  quantum,     \* main's variable time, which nextProcess sets and main counts down
  pc

simVars == <<processes, i, quantum, pc>>

SimInit ==
  /\ init
  /\ processes = [p \in 0 .. Processes - 1 |-> Units]
  /\ i = 0 /\ quantum = 0 /\ pc = "add"

Add ==
  /\ pc = "add" /\ i < Processes
  /\ addProcess(i, (i % kLevels) + 1, i)
  /\ i' = i + 1
  /\ UNCHANGED <<processes, quantum, pc>>

AllAdded ==
  /\ pc = "add" /\ i = Processes
  /\ pc' = "choose"
  /\ UNCHANGED <<vars, processes, i, quantum>>

\* When nextProcess leaves the array the simulator crashes, or worse.
ChooseProcess ==
  /\ pc = "choose" /\ hasProcess
  /\ IF Serving = {}
     THEN nextProcessBeyond /\ pc' = "undefined" /\ UNCHANGED quantum
     ELSE nextProcess /\ pc' = "run" /\ quantum' = time'
  /\ UNCHANGED <<processes, i>>

RunUnit ==
  /\ pc = "run" /\ quantum > 0 /\ processes[pid] > 0
  /\ processes' = [processes EXCEPT ![pid] = @ - 1]
  /\ quantum' = quantum - 1
  /\ UNCHANGED <<vars, i, pc>>

\* Mutant: a finished process is not removed.
BugNotRemoved ==
  /\ pc = "run" /\ quantum > 0 /\ processes[pid] <= 0
  /\ processes' = [processes EXCEPT ![pid] = @ - 1]
  /\ quantum' = 0
  /\ UNCHANGED <<vars, i, pc>>

\* The work is over when the count drops below 0: the process is removed, and
\* main goes back to nextProcess unless removeProcess found nothing.
FinishProcess ==
  /\ pc = "run" /\ quantum > 0 /\ processes[pid] <= 0
  /\ processes' = [processes EXCEPT ![pid] = @ - 1]
  /\ IF Known(pid)
     THEN removeProcess(pid) /\ quantum' = 0
     ELSE removeProcessFails(pid) /\ quantum' = quantum - 1
  /\ UNCHANGED <<i, pc>>

QuantumOver ==
  /\ pc = "run" /\ quantum = 0
  /\ pc' = "choose"
  /\ UNCHANGED <<vars, processes, i, quantum>>

Exit ==
  /\ pc = "choose" /\ ~hasProcess
  /\ pc' = "done"
  /\ UNCHANGED <<vars, processes, i, quantum>>

Terminated == pc = "done" /\ UNCHANGED <<vars, simVars>>

SimNext ==
  \/ Add \/ AllAdded \/ ChooseProcess \/ RunUnit \/ FinishProcess \/ QuantumOver \/ Exit
  \/ Terminated

\* The simulator is one thread and waits for nothing.
SimSpec == SimInit /\ [][SimNext]_<<vars, simVars>> /\ WF_<<vars, simVars>>(SimNext)
-----------------------------------------------------------------------------
(* What makes the simulation correct.                                      *)

Scheduled(p) == \E l \in Level : \E a \in Nodes(l) : node[a].pid = p

\* The processes of a level share its time: as long as both are scheduled, none
\* is more than one quantum ahead of the other.
FairShare ==
  pc # "add" =>
    \A p, q \in DOMAIN processes :
      Scheduled(p) /\ Scheduled(q) /\ p % kLevels = q % kLevels =>
        processes[p] - processes[q] <= priority_translation[p % kLevels]

\* main keeps a process scheduled exactly as long as it has work: one that is
\* removed has run Units + 1 times, the count its test for a negative rest takes.
ScheduledHaveWork ==
  pc # "add" =>
    \A p \in DOMAIN processes : IF Scheduled(p) THEN processes[p] >= 0 ELSE processes[p] = -1

\* Every process finishes and the simulator exits.  nextProcess passes over empty
\* levels from current up but does not wrap: it fails when those are all empty and
\* a lower one is not.  Here the highest level must be the last to become empty.
Finishes == <>(pc = "done" /\ ~hasProcess)
=============================================================================
