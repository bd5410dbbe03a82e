----------------------------- MODULE PagerBasic -----------------------------
(***************************************************************************)
(* The pager of pager-basic.c: all its work is for the first active        *)
(* process, and the page it swaps out is the first one that pageout says   *)
(* yes to.                                                                 *)
(***************************************************************************)
EXTENDS Simulator

First(s) == active(s) /\ \A r \in 0 .. s - 1 : ~active(r)

BasicPageit == phase = "pageit" /\ phase' = NextTick /\ UNCHANGED <<queue, i>>

\* The search for a page to swap out ends at the first that pageout takes, be it
\* one that is out already.
Victims(s) == {p \in Page \ {Needed(s)} : PageOutOk(s, p)}

\* There is no process, the first one has the page it needs, or no call is taken.
BasicNothing ==
  /\ BasicPageit
  /\ \A s \in Slot : First(s) =>
       Runnable(s) \/ (~PageInOk(s, Needed(s)) /\ Victims(s) = {})
  /\ UNCHANGED <<processes, pagesavail>>

BasicSwapIn(s) ==
  /\ BasicPageit /\ First(s) /\ ~Runnable(s)
  /\ PageInOk(s, Needed(s)) /\ PageIn(s, Needed(s))

BasicSwapOut(s) ==
  /\ BasicPageit /\ First(s) /\ ~Runnable(s) /\ ~PageInOk(s, Needed(s))
  /\ \E p \in Victims(s) : (\A r \in Victims(s) : p <= r) /\ PageOut(s, p)

BasicStep == BasicNothing \/ \E s \in Slot : BasicSwapIn(s) \/ BasicSwapOut(s)

BasicNext == SimNext \/ BasicStep \/ Terminated

BasicSpec == Init /\ [][BasicNext]_simVars /\ WF_simVars(BasicNext)
=============================================================================
