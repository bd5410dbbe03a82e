---------------------------- MODULE MCScheduler -----------------------------
(* A history of turns, to state what round robin means between processes.  *)
EXTENDS Scheduler

VARIABLE ahead   \* <<a, b>>: node a ran since node b of its level last ran or came

MCInit == init /\ ahead = {}

MCCall ==
  /\ OtherCall
  /\ ahead' = {ab \in ahead : ab \in allocated' \X allocated'}

MCTurn ==
  /\ nextProcess
  /\ \E l \in Serving :
       LET a == levels[l].curr
       IN  ahead' = {ab \in ahead : ab[2] # a} \cup ({a} \X (Nodes(l) \ {a}))

MCNext == ~undefined /\ (MCCall \/ MCTurn)

MCSpec == MCInit /\ [][MCNext]_<<vars, ahead>>

\* schedule.cc serves a level round robin: the process whose turn comes has not
\* run since any other member of its level last ran or came, so that nobody runs
\* twice while another waits, whatever joins and leaves in between.
NoOvertaking == \A l \in Level, b \in Addr : <<levels[l].curr, b>> \notin ahead
=============================================================================
