------------------------------ MODULE PingPong ------------------------------
(***************************************************************************)
(* What the benchmark of lab3 promises, by pipes or by signals: numtests   *)
(* round trips, one after the other, each asked for by the parent,         *)
(* answered by the child and then counted by the parent.                   *)
(***************************************************************************)
EXTENDS Naturals

VARIABLES
  numtests,
  asked, answered, counted,   \* trips
  disturbed,                  \* ctrl-c was typed, and the benchmark minds
  left, ended                 \* the child and the parent have ended

vars == <<numtests, asked, answered, counted, disturbed, left, ended>>

Init ==
  /\ numtests \in Nat
  /\ asked = 0 /\ answered = 0 /\ counted = 0
  /\ disturbed = FALSE /\ left = FALSE /\ ended = FALSE

Ask ==
  /\ asked = counted /\ asked < numtests
  /\ asked' = asked + 1
  /\ UNCHANGED <<numtests, answered, counted, disturbed, left, ended>>

Answer ==
  /\ answered < asked /\ ~left
  /\ answered' = answered + 1
  /\ UNCHANGED <<numtests, asked, counted, disturbed, left, ended>>

\* After a ctrl-c the parent may count a trip that was not answered.
Count ==
  /\ counted < asked /\ (counted < answered \/ disturbed)
  /\ counted' = counted + 1
  /\ UNCHANGED <<numtests, asked, answered, disturbed, left, ended>>

Disturb ==
  /\ disturbed' = TRUE
  /\ UNCHANGED <<numtests, asked, answered, counted, left, ended>>

\* The child leaves when all trips are counted, or early after a ctrl-c.
Leave ==
  /\ ~left /\ (counted = numtests \/ disturbed)
  /\ left' = TRUE
  /\ UNCHANGED <<numtests, asked, answered, counted, disturbed, ended>>

End ==
  /\ left /\ counted = numtests /\ ~ended
  /\ ended' = TRUE
  /\ UNCHANGED <<numtests, asked, answered, counted, disturbed, left>>

Next == Ask \/ Answer \/ Count \/ Disturb \/ Leave \/ End

Spec == Init /\ [][Next]_vars
=============================================================================
