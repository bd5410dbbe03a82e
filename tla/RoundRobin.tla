----------------------------- MODULE RoundRobin -----------------------------
(***************************************************************************)
(* What the scheduler of lab5 promises.  Every level keeps its processes   *)
(* in the order they came, and a mark on the one whose turn is next.  The  *)
(* levels take turns, and so do the processes of a level.  A process that  *)
(* leaves passes the mark on and costs nobody a turn.                      *)
(***************************************************************************)
EXTENDS Integers, SequencesExt

CONSTANTS Pid, Level   \* Level: an interval of integers from 0

VARIABLES members,   \* for each level, its processes in order of arrival
          turn,      \* for each level, the index of the process to run next
          level,     \* the level to run next
          chosen     \* the process chosen last, -1 if there was none

vars == <<members, turn, level, chosen>>

Init ==
  /\ members = [l \in Level |-> <<>>] /\ turn = [l \in Level |-> 1]
  /\ level = 0
  /\ chosen = -1

\* The mark on an empty level rests on its first place.
Join(p, l) ==
  /\ members' = [members EXCEPT ![l] = Append(@, p)]
  /\ UNCHANGED <<turn, level, chosen>>

Leave(l, i) ==
  /\ i \in DOMAIN members[l]
  /\ members' = [members EXCEPT ![l] = RemoveAt(@, i)]
  /\ turn' = [turn EXCEPT ![l] = IF i < @ THEN @ - 1
                                 ELSE IF i = @ /\ i = Len(members[l]) THEN 1 ELSE @]
  /\ UNCHANGED <<level, chosen>>

\* The next level, from the one whose turn it is, that has a process.
Busy(l) == members[l] # <<>>
Dist(l) == (l - level) % Cardinality(Level)
Choose ==
  \E l \in Level :
    /\ Busy(l) /\ \A m \in Level : Busy(m) => Dist(l) <= Dist(m)
    /\ chosen' = members[l][turn[l]]
    /\ turn' = [turn EXCEPT ![l] = IF @ = Len(members[l]) THEN 1 ELSE @ + 1]
    /\ level' = (l + 1) % Cardinality(Level)
    /\ UNCHANGED members

ChooseNone ==
  /\ \A l \in Level : ~Busy(l)
  /\ chosen' = -1
  /\ UNCHANGED <<members, turn, level>>

Next ==
  \/ \E p \in Pid, l \in Level : Join(p, l)
  \/ \E l \in Level : \E i \in DOMAIN members[l] : Leave(l, i)
  \/ Choose \/ ChooseNone

Spec == Init /\ [][Next]_vars
=============================================================================
