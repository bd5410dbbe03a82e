------------------------------ MODULE PagerLRU ------------------------------
(***************************************************************************)
(* The pager of pager-lru.c on top of the simulator.                       *)
(***************************************************************************)
EXTENDS PagerLoop

LRUVars == <<simVars, loopVars>>

LRUInit == Init /\ LoopInit

\* The page with the oldest timestamp other than the one needed, 0 if there is none.
Lowest(s) == Oldest(s, {Needed(s)}, 0)

StampResident(s) ==
  /\ Turn(s) /\ Runnable(s) /\ NextSlot
  /\ Stamp(s, Needed(s))
  /\ UNCHANGED <<processes, pagesavail>>

SwapIn(s) ==
  /\ Turn(s) /\ active(s) /\ ~Runnable(s) /\ NextSlot
  /\ PageInOk(s, Needed(s)) /\ PageIn(s, Needed(s))
  /\ UNCHANGED stamped

\* Mutant: the timestamp of a page is kept when it is swapped out.
BugStampKept(s) ==
  /\ Turn(s) /\ active(s) /\ ~Runnable(s) /\ ~PageInOk(s, Needed(s)) /\ NextSlot
  /\ PageOutOk(s, Lowest(s)) /\ PageOut(s, Lowest(s))
  /\ UNCHANGED stamped

\* Mutant: the page with the latest timestamp is swapped out.
BugMostRecent(s) ==
  /\ Turn(s) /\ active(s) /\ ~Runnable(s) /\ ~PageInOk(s, Needed(s)) /\ NextSlot
  /\ LET others == Others(s, {Needed(s)})
         p      == IF others = {} THEN 0 ELSE stamped[s][Max(others)]
     IN  PageOutOk(s, p) /\ PageOut(s, p) /\ Unstamp(s, p)

\* Mutant: all timestamps are reset.
BugResetAll(s) ==
  /\ Turn(s) /\ active(s) /\ ~Runnable(s) /\ ~PageInOk(s, Needed(s)) /\ NextSlot
  /\ PageOutOk(s, Lowest(s)) /\ PageOut(s, Lowest(s))
  /\ stamped' = [stamped EXCEPT ![s] = <<>>]

\* No frame is free, or the page is still going out: swap out another.
SwapOut(s) ==
  /\ Turn(s) /\ active(s) /\ ~Runnable(s) /\ ~PageInOk(s, Needed(s)) /\ NextSlot
  /\ IF PageOutOk(s, Lowest(s))
     THEN PageOut(s, Lowest(s)) /\ Unstamp(s, Lowest(s))
     ELSE UNCHANGED <<processes, pagesavail, stamped>>

LRUStep == \E s \in Slot : SkipInactive(s) \/ StampResident(s) \/ SwapIn(s) \/ SwapOut(s)

LRUNext == ((SimNext \/ Terminated) /\ UNCHANGED loopVars) \/ LRUStep

\* The simulator is one thread and waits for nothing.
LRUSpec == LRUInit /\ [][LRUNext]_LRUVars /\ WF_LRUVars(LRUNext)
-----------------------------------------------------------------------------
\* Every page in memory has a timestamp, so that it can be swapped out, although
\* timestamps are reset for pages that did not leave and are those of another
\* process after a reload.  A page that has just come in gets its timestamp in
\* the same tick.
ResidentStamped ==
  \A s \in Slot : active(s) =>
    \A p \in Page : processes[s].pages[p] = 0 =>
      \/ \E k \in DOMAIN stamped[s] : stamped[s][k] = p
      \/ phase = "pageit" /\ x <= s /\ p = Needed(s)
=============================================================================
