------------------------------ MODULE MCPagers ------------------------------
(***************************************************************************)
(* The simulator with each of the pagers the repository links it with (its *)
(* makefile builds one program for each), small programs, and a history of *)
(* the pages each process ran on.                                          *)
(***************************************************************************)
EXTENDS PagerBasic, PagerLRU, PagerPredict, PagerTest

VARIABLES
  pager,   \* the pager the simulator is linked with
  used     \* per slot, the pages its process ran on, the last one at the end

allVars == <<simVars, loopVars, stage, testVars, pager, used>>

\* The shapes of programs.c on three pages of two instructions: a loop, a
\* straight line and one with an IF and a GOTO.
Loop == [size |-> 5, exits |-> {4},
         branches |-> <<[wherefrom |-> 3, whereto |-> 1, btype |-> "FOR", min |-> 1, max |-> 3]>>]
Line == [size |-> 5, exits |-> {4}, branches |-> <<>>]
Skip == [size |-> 6, exits |-> {5},
         branches |-> <<[wherefrom |-> 0, whereto |-> 3, btype |-> "IF", min |-> 0, max |-> 0],
                        [wherefrom |-> 2, whereto |-> 4, btype |-> "GOTO", min |-> 0, max |-> 0],
                        [wherefrom |-> 4, whereto |-> 0, btype |-> "NFOR", min |-> 1, max |-> 1]>>]

Programs == {Loop, Line, Skip}

\* Four jobs, for three slots: the programs in every order, and one of them again.
MCQueues == {<<a, b, c, a>> : a, b, c \in Programs} \cap
            {q \in [1 .. 4 -> Programs] : {q[k] : k \in 1 .. 4} = Programs}

MCInit ==
  /\ Init /\ LoopInit /\ stage = "need" /\ TestInit
  /\ pager \in {"basic", "lru", "predict", "test"}
  /\ used = [s \in Slot |-> <<>>]

MCStep ==
  /\ allstep
  /\ used' = [used EXCEPT ![i] =
       IF queue' # queue \/ ~active(i) \/ processes'[i] = IDLE THEN <<>>
       ELSE IF Runnable(i) THEN Append(RemoveFirst(@, Needed(i)), Needed(i)) ELSE @]
  /\ UNCHANGED <<loopVars, stage, testVars>>

MCOther ==
  /\ \/ (allinit \/ allage \/ Terminated) /\ UNCHANGED <<loopVars, stage, testVars>>
     \/ pager = "basic" /\ BasicStep /\ UNCHANGED <<loopVars, stage, testVars>>
     \/ pager = "lru" /\ LRUStep /\ UNCHANGED <<stage, testVars>>
     \/ pager = "predict" /\ PredictStep /\ UNCHANGED testVars
     \/ pager = "test" /\ TestStep /\ UNCHANGED <<loopVars, stage>>
  /\ UNCHANGED used

MCNext == (MCStep \/ MCOther) /\ UNCHANGED pager

MCSpec == MCInit /\ [][MCNext]_allVars /\ WF_allVars(MCNext)
-----------------------------------------------------------------------------
\* The run checks what PagerLRU says of timestamps when the pager is that of
\* pager-lru.c: a page in memory has one, or is not looked at yet in this tick.
TimestampsComplete == pager = "lru" => ResidentStamped

\* pager-lru.c: of the pages in memory, the one swapped out is the one its process
\* has not run on for longest, although timestamps of the slot's last process are
\* still there and pageout also says yes to pages that are out already.
EvictsLeastRecentlyUsed ==
  [][pager = "lru" =>
       \A s \in Slot, p \in Page :
         (active(s) /\ processes[s].pages[p] = 0 /\ phase = "pageit"
            /\ processes'[s].pages[p] < 0) =>
           \A r \in Page \ {p} : processes[s].pages[r] = 0 =>
             \A k, m \in DOMAIN used[s] : used[s][k] = p /\ used[s][m] = r => k < m]_allVars

\* Every process comes to its exit and main's loop ends, with every pager: none
\* leaves a process waiting for ever for a page, although processes take frames
\* and wait for frames with no one to arbitrate, and although the predictive pager
\* fills frames with pages that it cannot swap out again, whatever it predicts.
\* The test of the interface comes to its end before that.
PagersFinish == <>(phase = "done" /\ (pager # "test" => queue = <<>>))
=============================================================================
