------------------------------- MODULE Shell -------------------------------
(***************************************************************************)
(* The tiny shell of lab2 (tsh.cc): the read/eval loop, the SIGCHLD,       *)
(* SIGINT and SIGTSTP handlers that interrupt it and one another, and the  *)
(* child processes as the kernel shows them to waitpid and kill.           *)
(*                                                                         *)
(* The shell is one thread.  A handler is a frame pushed on top of what is *)
(* running; Signal() installs handlers with an empty mask, so a handler    *)
(* can be interrupted by any signal but its own.  A signal that is pending *)
(* and not masked is delivered before the interrupted code takes another   *)
(* step.  Pending signals are a set: SIGCHLDs that arrive close together   *)
(* are one SIGCHLD.                                                        *)
(*                                                                         *)
(* A child starts as a copy of the shell: until setpgid it is in the       *)
(* shell's process group, and until execve it runs the shell's handlers.   *)
(***************************************************************************)
EXTENDS Jobs, Sequences, FiniteSets

CONSTANTS
  Pids,      \* process IDs the kernel hands out; an ID is reused once reaped
  KeySigs,   \* signals the user can type: a subset of {"SIGINT", "SIGTSTP"}
  MaxKeys,   \* bound: how many times the user types one of them
  MaxJid     \* bound: no command is forked once nextjid is larger

ASSUME ShellAssumption ==
  /\ Pids \subseteq Nat \ {0}
  /\ KeySigs \subseteq {"SIGINT", "SIGTSTP"}
  /\ MaxKeys \in Nat
  /\ MaxJid \in Nat

VARIABLES
  jobs, nextjid,   \* the job list (jobs.cc)
  pc,              \* where the read/eval loop is
  pid,             \* eval's child, then waitfg's argument
  mode,            \* FG or BG: eval's bg flag, or which of fg and bg was typed
  jobp,            \* do_bgfg's pointer into the job list
  fg_pid, job,     \* waitfg's locals
  blocked,         \* is SIGCHLD blocked by sigprocmask?
  pending,         \* signals raised and not yet delivered
  frames,          \* running signal handlers, innermost first
  proc,            \* what the kernel knows of each process ID
  stopReport,      \* children whose stop waitpid has not reported yet
  caught,          \* signals a child got before execve, for the handlers it inherited
  keys             \* how often the user may still type a KeySigs signal

table   == <<jobs, nextjid>>
locals  == <<pid, mode, jobp, fg_pid, job>>
main    == <<pc, locals, blocked>>
kernel  == <<proc, stopReport>>
vars    == <<table, main, pending, frames, kernel, caught, keys>>

Signals   == {"SIGINT", "SIGTSTP", "SIGCHLD"}
\* "forked" is a child in the shell's group, "handling" one that runs a copy of
\* a handler there, "grouped" one that has its own group and has not reached
\* execve; "stopped_int" is a stopped process with a SIGINT pending.
ProcState == {"none", "forked", "handling", "grouped", "running", "stopped", "stopped_int",
              "exited", "killed"}
Zombie(p)  == proc[p] \in {"exited", "killed"}
Stopped(p) == proc[p] \in {"stopped", "stopped_int"}
Gone       == pc \in {"exited", "crashed"}

\* Mutant: a handler can be interrupted by its own signal.
BugNestedHandlers == {s \in pending : s = "SIGCHLD" => ~blocked}

\* Signals the kernel delivers before the shell takes its next step.
Deliverable ==
  {s \in pending : /\ s = "SIGCHLD" => ~blocked
                   /\ \A i \in DOMAIN frames : frames[i].sig # s}

MainRuns == frames = <<>> /\ Deliverable = {}

Init ==
  /\ jobs = initjobs /\ nextjid = 1
  /\ pc = "read"
  /\ pid = 0 /\ mode = FG /\ jobp = NoSlot /\ fg_pid = 0 /\ job = NoSlot
  /\ blocked = FALSE /\ pending = {} /\ frames = <<>>
  /\ proc = [p \in Pids |-> "none"] /\ stopReport = {} /\ caught = [p \in Pids |-> {}]
  /\ keys = MaxKeys

\* Back to the prompt: the locals are dead.
Return ==
  /\ pc' = "read"
  /\ pid' = 0 /\ mode' = FG /\ jobp' = NoSlot /\ fg_pid' = 0 /\ job' = NoSlot

Crash == pc' = "crashed" /\ UNCHANGED locals
-----------------------------------------------------------------------------
(* eval: block SIGCHLD, fork, addjob, unblock, then waitfg or the prompt.  *)

Fork(bg, child) ==
  /\ pc = "read" /\ MainRuns
  /\ nextjid <= MaxJid
  /\ pc' = "add" /\ pid' = child /\ mode' = bg
  /\ UNCHANGED <<table, jobp, fg_pid, job, pending, frames, stopReport, caught, keys>>

\* Mutant: eval does not block SIGCHLD around fork and addjob.
BugForkUnblocked(bg, p) ==
  /\ proc[p] = "none"
  /\ Fork(bg, p)
  /\ proc' = [proc EXCEPT ![p] = "forked"]
  /\ UNCHANGED blocked

EvalFork(bg, p) ==
  /\ proc[p] = "none"
  /\ Fork(bg, p)
  /\ blocked' = TRUE
  /\ proc' = [proc EXCEPT ![p] = "forked"]

\* fork returned -1: the code goes on as the parent.
EvalForkFails(bg) ==
  /\ Fork(bg, -1)
  /\ blocked' = TRUE
  /\ UNCHANGED proc

EvalAdd ==
  /\ pc = "add" /\ MainRuns
  /\ jobs' = addjob(jobs, nextjid, pid, mode)
  /\ nextjid' = NextJidAfterAdd(jobs, nextjid, pid)
  /\ pc' = "unblock"
  /\ UNCHANGED <<locals, blocked, pending, frames, kernel, caught, keys>>

\* Mutant: eval does not wait for a foreground job.
BugNoWait ==
  /\ pc = "unblock" /\ MainRuns
  /\ blocked' = FALSE
  /\ Return
  /\ UNCHANGED <<table, pending, frames, kernel, caught, keys>>

\* Mutant: SIGCHLD is unblocked only on the way to waitfg.
BugUnblockForegroundOnly ==
  /\ pc = "unblock" /\ MainRuns
  /\ IF mode = FG
     THEN blocked' = FALSE /\ pc' = "wait_fgpid" /\ UNCHANGED locals
     ELSE Return /\ UNCHANGED blocked
  /\ UNCHANGED <<table, pending, frames, kernel, caught, keys>>

EvalUnblock ==
  /\ pc = "unblock" /\ MainRuns
  /\ blocked' = FALSE
  /\ IF mode = FG THEN pc' = "wait_fgpid" /\ UNCHANGED locals ELSE Return
  /\ UNCHANGED <<table, pending, frames, kernel, caught, keys>>

\* builtin quit, or end of file
Quit ==
  /\ pc = "read" /\ MainRuns
  /\ pc' = "exited"
  /\ UNCHANGED <<table, locals, blocked, pending, frames, kernel, caught, keys>>
-----------------------------------------------------------------------------
(* do_bgfg: look the job up, set its state, send SIGCONT; fg then waits.   *)

\* The slots an argument, a PID or %jobid, can name.
Lookup == {getjobpid(jobs, p) : p \in Pids} \cup {getjobjid(jobs, j) : j \in 1 .. MaxJid}

\* Mutant: do_bgfg goes on with the NULL of a failed lookup.
BugLookupUnchecked(cmd, slot) ==
  /\ pc = "read" /\ MainRuns
  /\ jobp' = slot /\ mode' = cmd /\ pc' = "setstate"
  /\ UNCHANGED <<table, pid, fg_pid, job, blocked, pending, frames, kernel, caught, keys>>

BgfgLookup(cmd, slot) ==
  /\ pc = "read" /\ MainRuns
  /\ slot # NoSlot
  /\ jobp' = slot /\ mode' = cmd /\ pc' = "setstate"
  /\ UNCHANGED <<table, pid, fg_pid, job, blocked, pending, frames, kernel, caught, keys>>

BgfgSetState ==
  /\ pc = "setstate" /\ MainRuns
  /\ jobs' = [jobs EXCEPT ![jobp].state = mode]
  /\ pc' = "cont"
  /\ UNCHANGED <<nextjid, locals, blocked, pending, frames, kernel, caught, keys>>

\* kill(-jobp->pid, SIGCONT).  A process that changes state raises SIGCHLD.
\* With pid 0 the signal goes to the shell's own group, which ignores it.
BgfgCont ==
  /\ pc = "cont" /\ MainRuns
  /\ LET p == jobs[jobp].pid
     IN  IF p \in Pids /\ Stopped(p)
         THEN /\ proc' = [proc EXCEPT ![p] = IF @ = "stopped" THEN "running" ELSE "killed"]
              /\ stopReport' = stopReport \ {p}
              /\ pending' = pending \cup {"SIGCHLD"}
         ELSE UNCHANGED <<kernel, pending>>
  /\ IF mode = FG THEN pc' = "callwait" /\ UNCHANGED locals ELSE Return
  /\ UNCHANGED <<table, blocked, frames, caught, keys>>

BgfgCallWait ==
  /\ pc = "callwait" /\ MainRuns
  /\ pid' = jobs[jobp].pid
  /\ jobp' = NoSlot
  /\ pc' = "wait_fgpid"
  /\ UNCHANGED <<table, mode, fg_pid, job, blocked, pending, frames, kernel, caught, keys>>
-----------------------------------------------------------------------------
(* waitfg *)

WaitFgpid ==
  /\ pc = "wait_fgpid" /\ MainRuns
  /\ fg_pid' = fgpid(jobs)
  /\ pc' = "wait_job"
  /\ UNCHANGED <<table, pid, mode, jobp, job, blocked, pending, frames, kernel, caught, keys>>

WaitJob ==
  /\ pc = "wait_job" /\ MainRuns
  /\ job' = getjobpid(jobs, fg_pid)
  /\ pc' = "wait_test"
  /\ UNCHANGED <<table, pid, mode, jobp, fg_pid, blocked, pending, frames, kernel, caught, keys>>

\* The loop condition: job is dereferenced when fg_pid = pid, and may be NULL.
WaitTest ==
  /\ pc = "wait_test" /\ MainRuns
  /\ \/ fg_pid # pid /\ Return
     \/ fg_pid = pid /\ job = NoSlot /\ Crash
     \/ /\ fg_pid = pid /\ job # NoSlot
        /\ IF jobs[job].state # ST
           THEN pc' = "wait_sleep" /\ UNCHANGED locals
           ELSE Return
  /\ UNCHANGED <<table, blocked, pending, frames, kernel, caught, keys>>

\* Mutant: waitfg sleeps once instead of looping.
BugSleepOnce ==
  /\ pc = "wait_sleep" /\ MainRuns
  /\ Return
  /\ UNCHANGED <<table, blocked, pending, frames, kernel, caught, keys>>

\* Mutant: the loop of waitfg does not read fgpid again.
BugSleepStale ==
  /\ pc = "wait_sleep" /\ MainRuns
  /\ pc' = "wait_test"
  /\ UNCHANGED <<table, locals, blocked, pending, frames, kernel, caught, keys>>

\* sleep returns after 10 seconds, or when a handler has run.
WaitSleep ==
  /\ pc = "wait_sleep" /\ MainRuns
  /\ fg_pid' = fgpid(jobs)
  /\ pc' = "wait_test"
  /\ UNCHANGED <<table, pid, mode, jobp, job, blocked, pending, frames, kernel, caught, keys>>
-----------------------------------------------------------------------------
(* Signals and their handlers.                                             *)

\* The shell's process group is the shell and its children before setpgid.
ShellGroup == {p \in Pids : proc[p] \in {"forked", "handling"}}

SignalShellGroup(sig) ==
  /\ pending' = pending \cup {sig}
  /\ caught' = [p \in Pids |-> IF p \in ShellGroup THEN caught[p] \cup {sig} ELSE caught[p]]

\* The user types ctrl-c or ctrl-z: the terminal signals its foreground group.
KeySignal(s) ==
  /\ ~Gone /\ keys > 0
  /\ keys' = keys - 1
  /\ SignalShellGroup(s)
  /\ UNCHANGED <<table, main, frames, kernel>>

Deliver(s) ==
  /\ ~Gone
  /\ s \in Deliverable
  /\ pending' = pending \ {s}
  /\ frames' = <<[sig |-> s, at |-> "start", pid |-> 0, status |-> "none"]>> \o frames
  /\ UNCHANGED <<table, main, kernel, caught, keys>>

HandlerRuns(at, sigs) ==
  /\ ~Gone /\ frames # <<>> /\ Deliverable = {}
  /\ Head(frames).at = at /\ Head(frames).sig \in sigs

\* Mutant: waitpid is called without WUNTRACED.
BugZombiesOnly == {p \in Pids : Zombie(p)}

Ready == {p \in Pids : Zombie(p) \/ p \in stopReport}

\* sigchld_handler: one waitpid(-1, WNOHANG | WUNTRACED), which reports any
\* child that is ready; reporting a zombie frees its process ID.
ChldWait ==
  /\ HandlerRuns("start", {"SIGCHLD"})
  /\ \/ /\ Ready = {}
        /\ frames' = Tail(frames)
        /\ UNCHANGED kernel
     \/ \E p \in Ready :
          /\ frames' = [frames EXCEPT ![1] =
               [@ EXCEPT !.at = "update", !.pid = p,
                         !.status = IF Zombie(p) THEN proc[p] ELSE "stopped"]]
          /\ proc' = [proc EXCEPT ![p] = IF Zombie(p) THEN "none" ELSE @]
          /\ stopReport' = stopReport \ {p}
  /\ UNCHANGED <<table, main, pending, caught, keys>>

\* Mutant: the handler treats a stopped child as a terminated one.
BugDeleteStopped ==
  /\ HandlerRuns("update", {"SIGCHLD"})
  /\ jobs' = deletejob(jobs, Head(frames).pid)
  /\ nextjid' = NextJidAfterDelete(jobs, nextjid, Head(frames).pid)
  /\ frames' = Tail(frames)
  /\ UNCHANGED <<main, pending, kernel, caught, keys>>

\* Mutant: the handler moves a stopped foreground job to the background.
BugStopIsBackground ==
  /\ HandlerRuns("update", {"SIGCHLD"})
  /\ getjobpid(jobs, Head(frames).pid) # NoSlot
  /\ jobs' = IF Head(frames).status = "stopped"
             THEN [jobs EXCEPT ![getjobpid(jobs, Head(frames).pid)].state = BG]
             ELSE deletejob(jobs, Head(frames).pid)
  /\ frames' = Tail(frames)
  /\ UNCHANGED <<nextjid, main, pending, kernel, caught, keys>>

\* The rest of sigchld_handler: the job is dereferenced unless it exited.
ChldUpdate ==
  /\ HandlerRuns("update", {"SIGCHLD"})
  /\ LET p  == Head(frames).pid
         s  == getjobpid(jobs, p)
         st == Head(frames).status
     IN  IF s = NoSlot /\ st # "exited"
         THEN Crash /\ UNCHANGED <<table, frames>>
         ELSE /\ IF st = "stopped"
                 THEN jobs' = [jobs EXCEPT ![s].state = ST] /\ UNCHANGED nextjid
                 ELSE /\ jobs' = deletejob(jobs, p)
                      /\ nextjid' = NextJidAfterDelete(jobs, nextjid, p)
              /\ frames' = Tail(frames)
              /\ UNCHANGED <<pc, locals>>
  /\ UNCHANGED <<blocked, pending, kernel, caught, keys>>

\* sigint_handler and sigtstp_handler: read fgpid, then kill(-pid, sig).
FwdFgpid ==
  /\ HandlerRuns("start", {"SIGINT", "SIGTSTP"})
  /\ frames' = [frames EXCEPT ![1] = [@ EXCEPT !.at = "kill", !.pid = fgpid(jobs)]]
  /\ UNCHANGED <<table, main, pending, kernel, caught, keys>>

\* What a signal sent to its group does to a process that runs its program.
AfterSignal(ps, sig) ==
  CASE ps = "running" /\ sig = "SIGINT"  -> "killed"
    [] ps = "running" /\ sig = "SIGTSTP" -> "stopped"
    [] ps = "stopped" /\ sig = "SIGINT"  -> "stopped_int"
    [] OTHER -> ps

\* kill(-p, sig).  Before setpgid there is no group p and the signal is lost;
\* before execve the handlers that the child inherited catch it.
SignalJob(p, sig) ==
  /\ proc' = [proc EXCEPT ![p] = AfterSignal(@, sig)]
  /\ caught' = IF proc[p] = "grouped" THEN [caught EXCEPT ![p] = @ \cup {sig}] ELSE caught
  /\ pending' = IF proc[p] = "running" THEN pending \cup {"SIGCHLD"} ELSE pending
  /\ stopReport' = IF proc[p] = "running" /\ sig = "SIGTSTP"
                   THEN stopReport \cup {p} ELSE stopReport

\* kill(-0, sig) is kill(0, sig): it reaches the shell's own process group.
FwdKill ==
  /\ HandlerRuns("kill", {"SIGINT", "SIGTSTP"})
  /\ \/ Head(frames).pid = 0 /\ SignalShellGroup(Head(frames).sig) /\ UNCHANGED kernel
     \/ Head(frames).pid # 0 /\ SignalJob(Head(frames).pid, Head(frames).sig)
  /\ frames' = Tail(frames)
  /\ UNCHANGED <<table, main, keys>>
-----------------------------------------------------------------------------
(* The children.                                                           *)

\* The copy of a handler in a child that has not called setpgid.  The child's
\* copy of the job list has no foreground job (eval forks from the prompt), so
\* the handler calls kill(0, sig): to the shell, and to the child itself, which
\* handles it again and never gets back to eval.
ChildCatches(p, sig) ==
  /\ ~Gone /\ p \in ShellGroup /\ sig \in caught[p]
  /\ proc' = [proc EXCEPT ![p] = "handling"]
  /\ SignalShellGroup(sig)
  /\ UNCHANGED <<table, main, frames, stopReport, keys>>

\* setpgid(0, 0), which a signal that came meanwhile does not undo.
ChildSetpgid(p) ==
  /\ ~Gone /\ proc[p] = "forked"
  /\ proc' = [proc EXCEPT ![p] = "grouped"]
  /\ UNCHANGED <<table, main, pending, frames, stopReport, caught, keys>>

\* execve.  A child that caught a signal never gets here: alone in its group,
\* its handler's kill(0, sig) comes back to itself, for ever.
ChildExec(p) ==
  /\ ~Gone /\ proc[p] = "grouped" /\ caught[p] = {}
  /\ proc' = [proc EXCEPT ![p] = "running"]
  /\ UNCHANGED <<table, main, pending, frames, stopReport, caught, keys>>

\* A state change of a child, which raises SIGCHLD in the shell.
ChildChange(p, from, to) ==
  /\ ~Gone /\ proc[p] \in from
  /\ proc' = [proc EXCEPT ![p] = to]
  /\ stopReport' = IF to = "stopped" THEN stopReport \cup {p} ELSE stopReport \ {p}
  /\ caught' = [caught EXCEPT ![p] = {}]
  /\ pending' = pending \cup {"SIGCHLD"}
  /\ UNCHANGED <<table, main, frames, keys>>

\* The program ends, or execve fails and the child exits.
ChildExit(p) == caught[p] = {} /\ ChildChange(p, {"grouped", "running"}, "exited")

\* A signal from elsewhere (itself, a kill command) kills or stops the child.
ChildKilled(p) ==
  ChildChange(p, {"forked", "handling", "grouped", "running", "stopped", "stopped_int"}, "killed")
ChildStops(p)  == ChildChange(p, {"running"}, "stopped")
-----------------------------------------------------------------------------
Command ==
  \/ Quit
  \/ \E bg \in {FG, BG} : EvalForkFails(bg) \/ \E p \in Pids : EvalFork(bg, p)
  \/ \E cmd \in {FG, BG} : \E slot \in Lookup : BgfgLookup(cmd, slot)

MainStep ==
  \/ EvalAdd \/ EvalUnblock
  \/ BgfgSetState \/ BgfgCont \/ BgfgCallWait
  \/ WaitFgpid \/ WaitJob \/ WaitTest \/ WaitSleep

HandlerStep == ChldWait \/ ChldUpdate \/ FwdFgpid \/ FwdKill

Child(p) ==
  \/ \E sig \in KeySigs : ChildCatches(p, sig)
  \/ ChildSetpgid(p) \/ ChildExec(p)
  \/ ChildExit(p) \/ ChildKilled(p) \/ ChildStops(p)

Next ==
  \/ Command \/ MainStep \/ HandlerStep
  \/ \E s \in Signals : Deliver(s)
  \/ \E s \in KeySigs : KeySignal(s)
  \/ \E p \in Pids : Child(p)

Spec == Init /\ [][Next]_vars

\* The kernel schedules the shell and delivers its signals; what the user
\* types and how long a child runs is up to them.
Fairness ==
  /\ WF_vars(MainStep)
  /\ WF_vars(HandlerStep)
  /\ WF_vars(\E s \in Signals : Deliver(s))

FairSpec == Spec /\ Fairness
-----------------------------------------------------------------------------
(* What makes the shell correct.                                           *)

Frame == [sig : Signals, at : {"start", "update", "kill"}, pid : Pids \cup {0},
          status : {"none", "stopped", "exited", "killed"}]

JobSlot == [pid : Pids \cup {0}, jid : Nat, state : JobStates]

\* Every variable keeps its type; a pointer is NULL or a slot of the table.
TypeOK ==
  /\ jobs \in [Slots -> JobSlot]
  /\ nextjid \in Nat \ {0}
  /\ pc \in {"read", "add", "unblock", "setstate", "cont", "callwait", "wait_fgpid",
             "wait_job", "wait_test", "wait_sleep", "exited", "crashed"}
  /\ pid \in Pids \cup {-1, 0}
  /\ mode \in {FG, BG}
  /\ jobp \in Slots \cup {NoSlot}
  /\ pc \in {"setstate", "cont", "callwait"} => jobp \in Slots
  /\ fg_pid \in Pids \cup {0}
  /\ job \in Slots \cup {NoSlot}
  /\ blocked \in BOOLEAN
  /\ pending \subseteq Signals
  /\ frames \in Seq(Frame)
  /\ proc \in [Pids -> ProcState]
  /\ stopReport \subseteq Pids
  /\ caught \in [Pids -> SUBSET {"SIGINT", "SIGTSTP"}]
  /\ keys \in Nat

\* jobs.h: "At most 1 job can be in the FG state", whatever the handlers do
\* between the steps of eval, bg and fg.
AtMostOneFG == \A i, j \in Foreground(jobs) : i = j

\* The prompt comes back only when no job is in the foreground: waitfg, the
\* early returns and the handlers never leave one behind.
PromptMeansNoForeground == pc = "read" => Foreground(jobs) = {}

\* The list holds each process at most once (deletejob and getjobpid stop at
\* the first slot), and only processes that are still the shell's children:
\* not reaped, or reaped by a sigchld_handler that is about to delete the job.
\* eval blocks SIGCHLD from fork to addjob for this.
JobsAreChildren ==
  /\ \A i, j \in Slots : jobs[i].pid = jobs[j].pid /\ jobs[i].pid # 0 => i = j
  /\ \A i \in Slots : jobs[i].pid # 0 =>
       \/ proc[jobs[i].pid] # "none"
       \/ \E k \in DOMAIN frames : frames[k].at = "update" /\ frames[k].pid = jobs[i].pid

\* No child is forgotten: while the list cannot overflow, every child that is
\* not reaped is in the list, or eval is about to add it.
ChildrenAreJobs ==
  IsFiniteSet(Pids) /\ Cardinality(Pids) <= MAXJOBS =>
    \A p \in Pids : proc[p] # "none" =>
      \/ \E i \in Slots : jobs[i].pid = p
      \/ pc = "add" /\ pid = p

\* eval gives every child a process group of its own "so that our background
\* children don't receive SIGINT (SIGTSTP) from the kernel when we type ctrl-c
\* (ctrl-z)".  A key, typed at the terminal or sent on by a handler, reaches a
\* background job only before the child's setpgid, while it is still in the
\* shell's group (there the code breaks its word); from setpgid on never, even
\* when other handlers and addjob run between fgpid and kill.
Background(p) ==
  \/ \E i \in Slots : jobs[i].pid = p /\ jobs[i].state = BG
  \/ pc = "add" /\ pid = p /\ mode = BG
Reached(p) == ~(caught'[p] \subseteq caught[p]) \/ (FwdKill /\ proc'[p] # proc[p])
KeysSpareBackground == [][\A p \in Pids : Background(p) /\ Reached(p) => p \in ShellGroup]_vars

\* A job changes state as jobs.h lists it, and for the reason given there: FG or
\* BG becomes ST when sigchld_handler reports that this very process stopped
\* (jobs.h lists ctrl-z on a foreground job only, the handler does the same to
\* a background job), ST and BG become FG by fg, ST becomes BG by bg.  FG never
\* becomes BG, and nothing but a command of the user ends ST.
StopReported(i) ==
  /\ jobs[i].state \in {FG, BG} /\ jobs'[i].state = ST
  /\ frames # <<>> /\ Head(frames).at = "update" /\ Head(frames).status = "stopped"
  /\ Head(frames).pid = jobs[i].pid
Resumed(i) ==
  /\ pc = "setstate" /\ i = jobp /\ jobs'[i].state = mode
  /\ \/ jobs[i].state \in {ST, BG} /\ mode = FG
     \/ jobs[i].state = ST /\ mode = BG
JobTransitions ==
  [][\A i \in Slots :
       (jobs[i].pid # 0 /\ jobs'[i].pid = jobs[i].pid /\ jobs'[i].state # jobs[i].state) =>
         StopReported(i) \/ Resumed(i)]_vars

\* The shell reads commands or is on its way to: no storm of its own signals.
Storm == <>[](~MainRuns)

\* A child that ended is reaped by the handler (when there is one child, so
\* that no SIGCHLD stands for two), unless the shell is gone or in a storm.
DeadChildIsReaped ==
  Storm \/ \A p \in Pids : Zombie(p) ~> (proc[p] = "none" \/ Gone)

\* waitfg: "Block until process pid is no longer the foreground process".  It
\* does not block longer: once the child it waits for is dead or stopped, the
\* prompt comes back.
Waiting(p) == pc \in {"wait_fgpid", "wait_job", "wait_test", "wait_sleep"} /\ pid = p
WaitfgReturns ==
  Storm \/ \A p \in Pids :
    (Waiting(p) /\ (Zombie(p) \/ Stopped(p))) ~> (pc = "read" \/ Gone \/ proc[p] = "running")

\* A stop of a child reaches the job list, unless the child leaves the stop.
StopIsRecorded ==
  Storm \/ \A p \in Pids :
    Stopped(p) ~> (~Stopped(p) \/ Gone \/ \E i \in Slots : jobs[i].pid = p /\ jobs[i].state = ST)
-----------------------------------------------------------------------------
(* Why the safety properties hold: the inductive invariant.                *)

\* A handler is not interrupted by itself, so that the status waitpid gave to
\* sigchld_handler still tells the truth when the handler uses it.
FramesInv ==
  /\ \A i, j \in DOMAIN frames : frames[i].sig = frames[j].sig => i = j
  /\ \A k \in DOMAIN frames :
       /\ frames[k].at = "update" =>
            /\ frames[k].sig = "SIGCHLD" /\ frames[k].pid \in Pids
            /\ frames[k].status = "stopped" => proc[frames[k].pid] # "none"
       /\ frames[k].at = "kill" => frames[k].sig # "SIGCHLD"

\* A process ID that waitpid freed is not handed out again before the handler
\* has used it: eval does not fork while a handler runs.
ReapedInv ==
  \A k \in DOMAIN frames :
    frames[k].at = "update" /\ frames[k].status # "stopped" => proc[frames[k].pid] = "none"

\* Only a stopped child has a stop to report.
StopInv == \A p \in stopReport : Stopped(p)

\* Only a child that has not reached execve has handlers to catch a signal.
CaughtInv == \A p \in Pids : caught[p] # {} => proc[p] \in {"forked", "handling", "grouped"}

\* From fork to addjob no SIGCHLD handler runs, the child is not listed, and no
\* handler holds a process to send a key to.
ForkInv ==
  pc = "add" =>
    /\ blocked
    /\ \A k \in DOMAIN frames :
         frames[k].sig # "SIGCHLD" /\ (frames[k].at = "kill" => frames[k].pid = 0)
    /\ pid \in Pids => proc[pid] # "none" /\ \A i \in Slots : jobs[i].pid # pid

SlotsInv == \A i \in Slots : jobs[i].pid # 0 => jobs[i].state # UNDEF

\* Which job can be in the foreground at each step of eval, do_bgfg and waitfg.
ForegroundInv ==
  /\ pc \in {"read", "add", "setstate"} => Foreground(jobs) = {}
  /\ \A s \in Foreground(jobs) :
       /\ pc = "unblock" => mode = FG /\ jobs[s].pid = pid
       /\ pc \in {"cont", "callwait"} => mode = FG /\ s = jobp
       /\ pc \in {"wait_fgpid", "wait_job", "wait_test", "wait_sleep"} => jobs[s].pid = pid
       /\ pc \in {"wait_job", "wait_test"} => fg_pid = pid
       /\ pc \in {"wait_test", "wait_sleep"} /\ job # NoSlot => s = job

\* The process that sigint_handler and sigtstp_handler hold when they call kill
\* is not a background job, although other handlers run between fgpid and kill.
HeldInv ==
  \A k \in DOMAIN frames : frames[k].at = "kill" =>
    \A i \in Slots : jobs[i].pid = frames[k].pid /\ jobs[i].pid # 0 => jobs[i].state # BG

\* The invariant: every safety property above follows from it.
IInv ==
  /\ TypeOK
  /\ FramesInv
  /\ ReapedInv
  /\ StopInv
  /\ ForkInv
  /\ SlotsInv
  /\ ForegroundInv
  /\ AtMostOneFG
  /\ JobsAreChildren
  /\ ChildrenAreJobs
  /\ CaughtInv
  /\ HeldInv
=============================================================================
