-------------------------------- MODULE Jobs --------------------------------
(***************************************************************************)
(* The job list of the tiny shell (lab2/jobs.cc, lab2/jobs.h): a table of  *)
(* MAXJOBS slots and the next job ID to allocate.  The C functions scan    *)
(* the slots in index order and use pid 0 for a free slot; here each of    *)
(* them is an operator over the table.  A pointer into the table is the    *)
(* index of the slot, NULL is NoSlot.  The command line kept in a slot is  *)
(* left out: nothing the shell decides depends on it.                      *)
(***************************************************************************)
EXTENDS Integers

CONSTANT MAXJOBS   \* max jobs at any point in time (globals.h)

ASSUME MaxJobsAssumption == MAXJOBS \in Nat \ {0}

Slots  == 0 .. MAXJOBS - 1
NoSlot == -1

UNDEF == "UNDEF"
FG    == "FG"
BG    == "BG"
ST    == "ST"
JobStates == {UNDEF, FG, BG, ST}

\* clearjob
EmptyJob == [pid |-> 0, jid |-> 0, state |-> UNDEF]

initjobs == [i \in Slots |-> EmptyJob]

\* What a loop over the slots that returns at the first hit returns.
FirstSlot(S) == IF S = {} THEN NoSlot ELSE CHOOSE i \in S : \A j \in S : i <= j

\* The largest allocated job ID, 0 when the list is empty.
maxjid(jobs) ==
  LET ids == {jobs[i].jid : i \in Slots} \cup {0}
  IN  CHOOSE m \in ids : \A j \in ids : j <= m

\* The slot addjob fills: the first free one.
FreeSlot(jobs) == FirstSlot({i \in Slots : jobs[i].pid = 0})

addjob(jobs, nextjid, pid, state) ==
  IF pid < 1 \/ FreeSlot(jobs) = NoSlot
  THEN jobs
  ELSE [jobs EXCEPT ![FreeSlot(jobs)] = [pid |-> pid, jid |-> nextjid, state |-> state]]

\* What addjob leaves in nextjid: the wrap to 1 happens when an ID is handed out.
NextJidAfterAdd(jobs, nextjid, pid) ==
  IF pid < 1 \/ FreeSlot(jobs) = NoSlot THEN nextjid
  ELSE IF nextjid + 1 > MAXJOBS THEN 1 ELSE nextjid + 1

getjobpid(jobs, pid) ==
  IF pid < 1 THEN NoSlot ELSE FirstSlot({i \in Slots : jobs[i].pid = pid})

getjobjid(jobs, jid) ==
  IF jid < 1 THEN NoSlot ELSE FirstSlot({i \in Slots : jobs[i].jid = jid})

deletejob(jobs, pid) ==
  IF getjobpid(jobs, pid) = NoSlot
  THEN jobs
  ELSE [jobs EXCEPT ![getjobpid(jobs, pid)] = EmptyJob]

\* deletejob recomputes nextjid from what is left in the list.
NextJidAfterDelete(jobs, nextjid, pid) ==
  IF getjobpid(jobs, pid) = NoSlot THEN nextjid ELSE maxjid(deletejob(jobs, pid)) + 1

\* Mutant: fgpid takes any job that is not stopped for the foreground job.
BugFirstActive(jobs) ==
  LET s == FirstSlot({i \in Slots : jobs[i].state \in {FG, BG}})
  IN  IF s = NoSlot THEN 0 ELSE jobs[s].pid

\* PID of the current foreground job, 0 if there is no such job.
fgpid(jobs) ==
  LET s == FirstSlot({i \in Slots : jobs[i].state = FG})
  IN  IF s = NoSlot THEN 0 ELSE jobs[s].pid

\* The slots that hold a foreground job.
Foreground(jobs) == {i \in Slots : jobs[i].state = FG}
=============================================================================
