------------------------------ MODULE PagerTest -----------------------------
(***************************************************************************)
(* The pager of api-test.c, which tests the interface: it moves page 0 of  *)
(* process 0 in and out of memory and ends the program after a number of   *)
(* such moves.                                                             *)
(***************************************************************************)
EXTENDS Simulator

CONSTANT MAXITERATIONS

ASSUME IterationsAssumption == MAXITERATIONS \in Nat

VARIABLES
  outTestRun, inTestRun,   \* is a move on its way?
  iterations               \* moves started

testVars == <<outTestRun, inTestRun, iterations>>

TestInit == outTestRun = FALSE /\ inTestRun = FALSE /\ iterations = 0

\* Is page 0 of process 0 shown in memory?
InMemory == active(0) /\ processes[0].pages[0] = 0

\* After the test the program exits, or pageit returns.
Returns ==
  /\ phase' = IF iterations' > MAXITERATIONS THEN "done" ELSE NextTick
  /\ UNCHANGED <<queue, i>>

\* A page in memory: pagein changes nothing and pageout starts its way out.
TestOut ==
  /\ phase = "pageit" /\ InMemory /\ ~inTestRun
  /\ PageOutOk(0, 0) /\ PageOut(0, 0)
  /\ inTestRun' = TRUE /\ outTestRun' = FALSE /\ iterations' = iterations + 1
  /\ Returns

\* A page out of memory: pageout changes nothing, pagein starts its way in.
TestIn ==
  /\ phase = "pageit" /\ ~InMemory /\ ~outTestRun
  /\ PageInOk(0, 0) /\ PageIn(0, 0)
  /\ outTestRun' = TRUE /\ inTestRun' = FALSE /\ iterations' = iterations + 1
  /\ Returns

\* The page is on its way, and the test waits for it.
TestWaits ==
  /\ phase = "pageit"
  /\ IF InMemory THEN inTestRun ELSE outTestRun \/ ~PageInOk(0, 0)
  /\ UNCHANGED <<processes, pagesavail, testVars>>
  /\ Returns

TestStep == TestOut \/ TestIn \/ TestWaits

TestNext == ((SimNext \/ Terminated) /\ UNCHANGED testVars) \/ TestStep

TestSpec ==
  /\ Init /\ TestInit
  /\ [][TestNext]_<<simVars, testVars>> /\ WF_<<simVars, testVars>>(TestNext)
=============================================================================
