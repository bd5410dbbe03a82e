------------------------------ MODULE PagerAny ------------------------------
(***************************************************************************)
(* A pager that calls pagein and pageout as it likes, any number of times  *)
(* for any process and page, and that may end the program: what holds here *)
(* holds for every pageit.                                                 *)
(***************************************************************************)
EXTENDS Simulator

\* After a call pageit goes on, returns to main, or calls exit.
GoesOn == phase' \in {"pageit", NextTick, "done"}

CallPageIn(s, p) ==
  /\ phase = "pageit"
  /\ PageInOk(s, p) /\ PageIn(s, p)
  /\ GoesOn
  /\ UNCHANGED <<queue, i>>

CallPageOut(s, p) ==
  /\ phase = "pageit"
  /\ PageOutOk(s, p) /\ PageOut(s, p)
  /\ GoesOn
  /\ UNCHANGED <<queue, i>>

\* pageit does nothing, or calls that return FALSE.
CallNothing ==
  /\ phase = "pageit"
  /\ GoesOn
  /\ UNCHANGED <<queue, processes, pagesavail, i>>

AnyNext ==
  \/ SimNext
  \/ \E s \in Slot, p \in Page : CallPageIn(s, p) \/ CallPageOut(s, p)
  \/ CallNothing
  \/ Terminated

AnySpec == Init /\ [][AnyNext]_simVars
=============================================================================
