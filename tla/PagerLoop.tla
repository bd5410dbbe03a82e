------------------------------ MODULE PagerLoop -----------------------------
(***************************************************************************)
(* What the pagers of pager-lru.c and pager-predict.c share: a loop over   *)
(* the slots, and the timestamps of pages.  Of the timestamps only the     *)
(* order within a slot matters: stamped[s] holds the pages of slot s with  *)
(* a timestamp other than 0, the oldest first.  Timestamps belong to the   *)
(* slot and outlive its process.                                           *)
(***************************************************************************)
EXTENDS Simulator, SequencesExt

VARIABLES
  x,         \* pageit's loop index over the slots
  stamped

loopVars == <<x, stamped>>

LoopInit == x = 0 /\ stamped = [s \in Slot |-> <<>>]

\* It is the turn of slot s in the loop of pageit.
Turn(s) == phase = "pageit" /\ x = s /\ UNCHANGED <<queue, i>>

\* The loop goes on; after the last slot pageit returns.
NextSlot ==
  /\ x' = IF x + 1 < procs THEN x + 1 ELSE 0
  /\ phase' = IF x + 1 < procs THEN "pageit" ELSE NextTick

SkipInactive(s) ==
  /\ Turn(s) /\ ~active(s) /\ NextSlot
  /\ UNCHANGED <<processes, pagesavail, stamped>>

\* timestamps[s][p] = tick, and timestamps[s][p] = 0
Stamp(s, p)   == stamped' = [stamped EXCEPT ![s] = Append(RemoveFirst(@, p), p)]
Unstamp(s, p) == stamped' = [stamped EXCEPT ![s] = RemoveFirst(@, p)]

\* Where the pages other than those in ps have their timestamps, and the one of
\* them that has the oldest, none if there are no such pages.
Others(s, ps)       == {k \in DOMAIN stamped[s] : stamped[s][k] \notin ps}
Oldest(s, ps, none) == IF Others(s, ps) = {} THEN none ELSE stamped[s][Min(Others(s, ps))]
=============================================================================
