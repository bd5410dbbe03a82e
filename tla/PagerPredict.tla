---------------------------- MODULE PagerPredict ----------------------------
(***************************************************************************)
(* The pager of pager-predict.c: for each process it first gets the page   *)
(* the process needs, as LRU does, then brings in a page that it predicts  *)
(* the process to need next.                                               *)
(***************************************************************************)
EXTENDS PagerLoop

VARIABLE stage   \* "need" or "predict": what the loop body does for slot x

PredictVars == <<simVars, loopVars, stage>>

PredictInit == Init /\ LoopInit /\ stage = "need"

\* What the Markov chain predicts: argmax over a column of a power of the
\* transition matrix, here any page.
predict_page == Page

\* lowest_index: the page to swap out, -1 if no page has a timestamp.
lowest_index(s, ps) == Oldest(s, ps, -1)

\* pageout of the page with the oldest timestamp, other than those in ps.
SwapOutLowest(s, ps) ==
  LET p == lowest_index(s, ps)
  IN  IF p # -1 /\ PageOutOk(s, p)
      THEN PageOut(s, p) /\ Unstamp(s, p)
      ELSE UNCHANGED <<processes, pagesavail, stamped>>

Need(s) == Turn(s) /\ active(s) /\ stage = "need" /\ stage' = "predict" /\ UNCHANGED <<x, phase>>

NeedResident(s) ==
  /\ Need(s) /\ Runnable(s)
  /\ Stamp(s, Needed(s))
  /\ UNCHANGED <<processes, pagesavail>>

\* The page gets its timestamp as soon as it is on its way.
NeedSwapIn(s) ==
  /\ Need(s) /\ ~Runnable(s)
  /\ PageInOk(s, Needed(s)) /\ PageIn(s, Needed(s))
  /\ Stamp(s, Needed(s))

NeedSwapOut(s) ==
  /\ Need(s) /\ ~Runnable(s) /\ ~PageInOk(s, Needed(s))
  /\ SwapOutLowest(s, {Needed(s)})

\* The copy q that callyou made for pageit shows page p in memory: it is, or it
\* has been swapped out since, in the first stage.
Shown(s, p) == processes[s].pages[p] \in {0, -1}

Predict(s, p) ==
  Turn(s) /\ active(s) /\ stage = "predict" /\ stage' = "need" /\ NextSlot /\ p \in predict_page

PredictNothing(s, p) ==
  /\ Predict(s, p) /\ (Shown(s, p) \/ p = Needed(s))
  /\ UNCHANGED <<processes, pagesavail, stamped>>

PredictSwapIn(s, p) ==
  /\ Predict(s, p) /\ ~Shown(s, p) /\ p # Needed(s)
  /\ PageInOk(s, p) /\ PageIn(s, p)
  /\ UNCHANGED stamped

PredictSwapOut(s, p) ==
  /\ Predict(s, p) /\ ~Shown(s, p) /\ p # Needed(s) /\ ~PageInOk(s, p)
  /\ SwapOutLowest(s, {Needed(s), p})

PredictStep ==
  \E s \in Slot :
    \/ SkipInactive(s) /\ UNCHANGED stage
    \/ NeedResident(s) \/ NeedSwapIn(s) \/ NeedSwapOut(s)
    \/ \E p \in Page : PredictNothing(s, p) \/ PredictSwapIn(s, p) \/ PredictSwapOut(s, p)

PredictNext == ((SimNext \/ Terminated) /\ UNCHANGED <<loopVars, stage>>) \/ PredictStep

PredictSpec == PredictInit /\ [][PredictNext]_PredictVars /\ WF_PredictVars(PredictNext)
=============================================================================
