------------------------------ MODULE MCShell ------------------------------
(* What comments of the code say of the shell and its runs refute.         *)
EXTENDS Shell

\* sigchld_handler: "The handler reaps all available zombie children".
AllZombiesReaped == \A p \in Pids : Zombie(p) ~> (proc[p] = "none" \/ Gone)

\* waitfg returns when its process is not in the foreground any more; it never
\* takes the shell down.
NoNullDereference == pc # "crashed"

\* sigint_handler: "Catch it and send it along to the foreground job": after
\* that the shell goes on with what it was doing.
HandlersEnd == []<>(MainRuns \/ Gone)

\* jobs.h: ST is "stopped".  With no signal left to handle, a job listed as
\* stopped is not running.
StoppedMeansStopped ==
  (pc = "read" /\ MainRuns) =>
    \A i \in Slots : jobs[i].state = ST /\ jobs[i].pid # 0 => proc[jobs[i].pid] # "running"
=============================================================================
