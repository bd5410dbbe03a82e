----------------------------- MODULE ShellProof -----------------------------
(***************************************************************************)
(* The safety of the shell for any number of processes, slots and keys.    *)
(* IInv (module Shell) holds initially, is kept by every step, and implies *)
(* the properties.                                                         *)
(***************************************************************************)
EXTENDS Shell, JobsProof, SequenceTheorems

\* Process IDs are positive numbers.
LEMMA PidFacts ==
  /\ Pids \subseteq Nat /\ 0 \notin Pids /\ -1 \notin Pids
  /\ \A p \in Pids : p \in Int /\ p >= 1 /\ p \in Nat \ {0}
  /\ NoSlot \notin Slots
BY ShellAssumption, MaxJobsAssumption DEF Slots, NoSlot

LEMMA TableType == [Slots -> JobSlot] = Table(Pids)
BY DEF Table, JobSlot

\* fgpid returns a process ID or 0.
LEMMA FgpidType ==
  ASSUME NEW t \in [Slots -> JobSlot]
  PROVE  fgpid(t) \in Pids \cup {0}
BY Fgpid_Spec DEF Foreground, JobSlot

\* Pushing a handler's frame moves the others one down.
LEMMA PushFrame ==
  ASSUME NEW f \in Frame, NEW fs \in Seq(Frame)
  PROVE  /\ <<f>> \o fs \in Seq(Frame)
         /\ DOMAIN (<<f>> \o fs) = 1 .. Len(fs) + 1
         /\ (<<f>> \o fs)[1] = f
         /\ \A k \in DOMAIN (<<f>> \o fs) : k # 1 => /\ k - 1 \in DOMAIN fs
                                                     /\ (<<f>> \o fs)[k] = fs[k - 1]
<1>1. <<f>> \in Seq(Frame) /\ Len(<<f>>) = 1 /\ <<f>>[1] = f
  OBVIOUS
<1>2. Len(fs) \in Nat /\ DOMAIN fs = 1 .. Len(fs)
  BY LenProperties
<1>3. /\ <<f>> \o fs \in Seq(Frame)
      /\ Len(<<f>> \o fs) = Len(fs) + 1
      /\ \A k \in 1 .. Len(fs) + 1 : (<<f>> \o fs)[k] = IF k <= 1 THEN <<f>>[k] ELSE fs[k - 1]
  BY <1>1, <1>2, ConcatProperties
<1>4. DOMAIN (<<f>> \o fs) = 1 .. Len(fs) + 1
  BY <1>3, LenProperties
<1> QED BY <1>1, <1>2, <1>3, <1>4

\* A handler's return moves the other frames one up.
LEMMA PopFrame ==
  ASSUME NEW fs \in Seq(Frame), fs # <<>>
  PROVE  /\ Tail(fs) \in Seq(Frame)
         /\ 1 \in DOMAIN fs /\ Head(fs) = fs[1] /\ fs[1] \in Frame
         /\ \A k \in DOMAIN Tail(fs) : k \in Nat /\ k # 0 /\ k + 1 \in DOMAIN fs
                                                /\ Tail(fs)[k] = fs[k + 1]
         /\ \A k \in DOMAIN fs : k # 1 => k - 1 \in DOMAIN Tail(fs) /\ Tail(fs)[k - 1] = fs[k]
<1>1. Len(fs) \in Nat /\ DOMAIN fs = 1 .. Len(fs) /\ fs \in [1 .. Len(fs) -> Frame]
  BY LenProperties
<1>2. Len(fs) >= 1
  BY <1>1
<1>3. /\ Tail(fs) \in Seq(Frame) /\ Len(Tail(fs)) = Len(fs) - 1
      /\ \A k \in 1 .. Len(Tail(fs)) : Tail(fs)[k] = fs[k + 1]
  BY HeadTailProperties
<1>4. DOMAIN Tail(fs) = 1 .. Len(fs) - 1
  BY <1>3, LenProperties
<1> QED BY <1>1, <1>2, <1>3, <1>4

\* A handler that goes on changes its own frame only.
LEMMA SetFrame ==
  ASSUME NEW fs \in Seq(Frame), fs # <<>>, NEW f \in Frame
  PROVE  /\ [fs EXCEPT ![1] = f] \in Seq(Frame)
         /\ DOMAIN [fs EXCEPT ![1] = f] = DOMAIN fs
         /\ \A k \in DOMAIN fs : [fs EXCEPT ![1] = f][k] = IF k = 1 THEN f ELSE fs[k]
<1>1. Len(fs) \in Nat /\ DOMAIN fs = 1 .. Len(fs) /\ 1 \in 1 .. Len(fs)
  BY LenProperties, PopFrame
<1> QED BY <1>1, ExceptSeq, LenProperties
-----------------------------------------------------------------------------
(* Type correctness                                                        *)

USE DEF Signals

LEMMA TypeInit == Init => TypeOK
<1> SUFFICES ASSUME Init PROVE TypeOK
  OBVIOUS
<1>1. jobs \in [Slots -> JobSlot]
  BY DEF Init, initjobs, EmptyJob, JobSlot, JobStates
<1>2. frames \in Seq(Frame)
  BY DEF Init
<1>3. proc \in [Pids -> ProcState]
  BY DEF Init, ProcState
<1>4. /\ nextjid \in Nat \ {0} /\ pid \in Pids \cup {-1, 0} /\ fg_pid \in Pids \cup {0}
      /\ keys \in Nat
  BY ShellAssumption DEF Init
<1>5. /\ mode \in {FG, BG} /\ jobp \in Slots \cup {NoSlot} /\ job \in Slots \cup {NoSlot}
      /\ blocked \in BOOLEAN /\ pending \subseteq Signals /\ stopReport \subseteq Pids
      /\ pc = "read"
  BY DEF Init
<1>6. caught \in [Pids -> SUBSET {"SIGINT", "SIGTSTP"}]
  BY DEF Init
<1> QED BY <1>1, <1>2, <1>3, <1>4, <1>5, <1>6 DEF TypeOK

\* The loop's own steps keep the types.
LEMMA TypeMain ==
  ASSUME TypeOK, Command \/ MainStep
  PROVE  TypeOK'
<1> USE DEF TypeOK, vars, main, table, kernel, locals
<1>1. ASSUME NEW bg \in {FG, BG}, NEW p \in Pids, EvalFork(bg, p)
      PROVE  TypeOK'
  BY <1>1 DEF EvalFork, Fork, ProcState
<1>2. ASSUME NEW bg \in {FG, BG}, EvalForkFails(bg)
      PROVE  TypeOK'
  BY <1>2 DEF EvalForkFails, Fork
<1>3. CASE EvalAdd
  <2>1. pid \in Int
    BY PidFacts
  <2>2. \A f \in Slots : pid >= 1 =>
          [jobs EXCEPT ![f] = [pid |-> pid, jid |-> nextjid, state |-> mode]] \in [Slots -> JobSlot]
    <3>1. pid >= 1 => [pid |-> pid, jid |-> nextjid, state |-> mode] \in JobSlot
      BY DEF JobSlot, JobStates
    <3> QED BY <3>1
  <2>3. jobs' \in [Slots -> JobSlot]
    BY <1>3, <2>1, <2>2, AddJob_Spec DEF EvalAdd
  <2>4. nextjid' \in Nat \ {0}
    <3>1. nextjid' \in {nextjid, 1, nextjid + 1}
      BY <1>3, <2>1, AddJob_Spec DEF EvalAdd
    <3> QED BY <3>1
  <2> QED BY <1>3, <2>3, <2>4 DEF EvalAdd
<1>4. CASE EvalUnblock
  BY <1>4 DEF EvalUnblock, Return
<1>5. CASE Quit
  BY <1>5 DEF Quit
<1>6. ASSUME NEW cmd \in {FG, BG}, NEW slot \in Lookup, BgfgLookup(cmd, slot)
      PROVE  TypeOK'
  <2>1. slot \in Slots
    BY <1>6, GetJobPid_Spec, GetJobJid_Type, PidFacts DEF Lookup, BgfgLookup
  <2> QED BY <1>6, <2>1 DEF BgfgLookup
<1>7. CASE BgfgSetState
  <2>1. jobs' \in [Slots -> JobSlot]
    BY <1>7 DEF BgfgSetState, JobSlot, JobStates
  <2> QED BY <1>7, <2>1 DEF BgfgSetState
<1>8. CASE BgfgCont
  <2>1. proc' \in [Pids -> ProcState] /\ stopReport' \subseteq Pids /\ pending' \subseteq Signals
    BY <1>8 DEF BgfgCont, ProcState
  <2> QED BY <1>8, <2>1 DEF BgfgCont, Return
<1>9. CASE BgfgCallWait
  <2>1. pid' \in Pids \cup {0}
    BY <1>9 DEF BgfgCallWait, JobSlot
  <2> QED BY <1>9, <2>1 DEF BgfgCallWait
<1>10. CASE WaitFgpid
  BY <1>10, FgpidType DEF WaitFgpid
<1>11. CASE WaitJob
  <2>1. job' \in Slots \cup {NoSlot}
    BY <1>11, GetJobPid_Spec, PidFacts DEF WaitJob
  <2> QED BY <1>11, <2>1 DEF WaitJob
<1>12. CASE WaitTest
  BY <1>12 DEF WaitTest, Return, Crash
<1>13. CASE WaitSleep
  BY <1>13, FgpidType DEF WaitSleep
<1> QED BY <1>1, <1>2, <1>3, <1>4, <1>5, <1>6, <1>7, <1>8, <1>9, <1>10, <1>11, <1>12, <1>13
        DEF Command, MainStep

\* What sigchld_handler leaves in the job list: one slot set to ST, one slot
\* cleared, or no change because the process is not listed.
LEMMA ChldUpdateTable ==
  ASSUME TypeOK, FramesInv, ChldUpdate
  PROVE  /\ frames # <<>> /\ frames[1].at = "update" /\ frames[1].pid \in Pids
         /\ \/ Crash /\ UNCHANGED <<table, frames>>
            \/ /\ frames' = Tail(frames) /\ pc' = pc /\ UNCHANGED locals
               /\ nextjid' \in Nat \ {0}
               /\ \/ /\ frames[1].status = "stopped"
                     /\ \E s \in Slots : /\ jobs[s].pid = frames[1].pid
                                         /\ jobs' = [jobs EXCEPT ![s].state = ST]
                  \/ /\ jobs' = jobs
                     /\ \A i \in Slots : jobs[i].pid # frames[1].pid
                  \/ /\ frames[1].status # "stopped"
                     /\ \E s \in Slots : /\ jobs[s].pid = frames[1].pid
                                         /\ jobs' = [jobs EXCEPT ![s] = EmptyJob]
<1>1. frames # <<>> /\ Head(frames).at = "update"
  BY DEF ChldUpdate, HandlerRuns
<1>2. Head(frames) = frames[1] /\ 1 \in DOMAIN frames
  BY <1>1, PopFrame DEF TypeOK
<1> DEFINE p == frames[1].pid
           s == getjobpid(jobs, p)
<1>3. p \in Pids
  BY <1>1, <1>2 DEF FramesInv
<1>4. s \in Slots \cup {NoSlot} /\ (s # NoSlot => jobs[s].pid = p)
  BY <1>3, PidFacts, GetJobPid_Spec
<1>5. CASE s = NoSlot /\ frames[1].status # "exited"
  BY <1>1, <1>2, <1>3, <1>5 DEF ChldUpdate
<1>6. CASE ~(s = NoSlot /\ frames[1].status # "exited")
  <2>1. frames' = Tail(frames) /\ pc' = pc /\ UNCHANGED locals
    BY <1>2, <1>6 DEF ChldUpdate
  <2>2. CASE frames[1].status = "stopped"
    <3>1. s \in Slots /\ jobs' = [jobs EXCEPT ![s].state = ST] /\ nextjid' = nextjid
      BY <1>2, <1>4, <1>6, <2>2 DEF ChldUpdate
    <3>2. \E t \in Slots : jobs[t].pid = p /\ jobs' = [jobs EXCEPT ![t].state = ST]
      BY <1>4, <3>1, PidFacts
    <3>3. nextjid' \in Nat \ {0}
      BY <3>1 DEF TypeOK
    <3> HIDE DEF s
    <3> QED BY <1>1, <1>2, <1>3, <2>1, <2>2, <3>2, <3>3
  <2>3. CASE frames[1].status # "stopped"
    <3>1. jobs' = deletejob(jobs, p) /\ nextjid' = NextJidAfterDelete(jobs, nextjid, p)
      BY <1>2, <1>6, <2>3 DEF ChldUpdate
    <3>2. /\ jobs \in Table(Pids) /\ nextjid \in Nat \ {0} /\ p \in Nat \ {0}
          /\ Pids \subseteq Nat
      BY <1>3, PidFacts, TableType DEF TypeOK
    <3> HIDE DEF p, s
    <3>3. /\ nextjid' \in Nat \ {0}
          /\ \/ jobs' = jobs /\ \A i \in Slots : jobs[i].pid # p
             \/ \E t \in Slots : jobs[t].pid = p /\ jobs' = [jobs EXCEPT ![t] = EmptyJob]
      BY <3>1, <3>2, DeleteJob_Spec
    <3> QED BY <1>1, <1>2, <1>3, <2>1, <2>3, <3>3 DEF p
  <2> QED BY <2>2, <2>3
<1> QED BY <1>5, <1>6

\* A signal to the shell's group or to a job keeps the types.
LEMMA ShellGroupType ==
  ASSUME TypeOK, NEW sig \in {"SIGINT", "SIGTSTP"}, SignalShellGroup(sig)
  PROVE  pending' \subseteq Signals /\ caught' \in [Pids -> SUBSET {"SIGINT", "SIGTSTP"}]
BY DEF TypeOK, SignalShellGroup

LEMMA SignalJobType ==
  ASSUME TypeOK, NEW p \in Pids, NEW sig \in {"SIGINT", "SIGTSTP"}, SignalJob(p, sig)
  PROVE  /\ proc' \in [Pids -> ProcState] /\ pending' \subseteq Signals
         /\ stopReport' \subseteq Pids /\ caught' \in [Pids -> SUBSET {"SIGINT", "SIGTSTP"}]
<1> USE DEF TypeOK, SignalJob
<1>1. \A ps \in ProcState : AfterSignal(ps, sig) \in ProcState
  BY DEF AfterSignal, ProcState
<1>2. proc' \in [Pids -> ProcState]
  BY <1>1
<1>3. caught[p] \cup {sig} \in SUBSET {"SIGINT", "SIGTSTP"}
  OBVIOUS
<1>4. caught' \in [Pids -> SUBSET {"SIGINT", "SIGTSTP"}]
  BY <1>3
<1> QED BY <1>2, <1>4

\* Which signal sigint_handler and sigtstp_handler send, and to whom.
LEMMA FwdKillCases ==
  ASSUME TypeOK, FwdKill
  PROVE  /\ frames # <<>> /\ Head(frames) = frames[1] /\ frames[1].at = "kill"
         /\ 1 \in DOMAIN frames /\ frames' = Tail(frames) /\ UNCHANGED <<table, main, keys>>
         /\ \E sig \in {"SIGINT", "SIGTSTP"} :
              \/ frames[1].pid = 0 /\ SignalShellGroup(sig) /\ UNCHANGED kernel
              \/ frames[1].pid \in Pids /\ SignalJob(frames[1].pid, sig)
<1>1. frames # <<>> /\ Head(frames).at = "kill" /\ Head(frames).sig \in {"SIGINT", "SIGTSTP"}
  BY DEF FwdKill, HandlerRuns
<1>2. Head(frames) = frames[1] /\ 1 \in DOMAIN frames /\ frames[1] \in Frame
  BY <1>1, PopFrame DEF TypeOK
<1>3. frames[1].pid \in Pids \cup {0}
  BY <1>2 DEF Frame
<1> QED BY <1>1, <1>2, <1>3 DEF FwdKill

LEMMA ChildTypes ==
  ASSUME TypeOK, NEW p \in Pids, Child(p)
  PROVE  TypeOK'
<1> USE DEF TypeOK, vars, main, table, kernel, locals
<1>1. CASE \E sig \in KeySigs : ChildCatches(p, sig)
  <2>1. PICK sig \in {"SIGINT", "SIGTSTP"} : ChildCatches(p, sig)
    BY <1>1, ShellAssumption
  <2>2. pending' \subseteq Signals /\ caught' \in [Pids -> SUBSET {"SIGINT", "SIGTSTP"}]
    BY <2>1, ShellGroupType DEF ChildCatches
  <2> QED BY <2>1, <2>2 DEF ChildCatches, ProcState
<1>2. CASE ChildSetpgid(p) \/ ChildExec(p)
  BY <1>2 DEF ChildSetpgid, ChildExec, ProcState
<1>3. CASE ChildExit(p) \/ ChildKilled(p) \/ ChildStops(p)
  BY <1>3 DEF ChildExit, ChildKilled, ChildStops, ChildChange, ProcState
<1> QED BY <1>1, <1>2, <1>3 DEF Child

\* Signals and handlers keep the types.
LEMMA TypeHandlers ==
  ASSUME TypeOK, FramesInv,
         \/ HandlerStep
         \/ \E s \in Signals : Deliver(s)
         \/ \E s \in KeySigs : KeySignal(s)
         \/ \E p \in Pids : Child(p)
  PROVE  TypeOK'
<1> USE DEF TypeOK, vars, main, table, kernel, locals
<1>1. CASE ChldWait
  <2>1. frames # <<>>
    BY <1>1 DEF ChldWait, HandlerRuns
  <2>2. frames' = Tail(frames) => frames' \in Seq(Frame)
    BY <2>1, PopFrame
  <2>3. ASSUME NEW p \in Ready
        PROVE  LET f == [frames[1] EXCEPT !.at = "update", !.pid = p,
                           !.status = IF Zombie(p) THEN proc[p] ELSE "stopped"]
               IN  [frames EXCEPT ![1] = f] \in Seq(Frame)
    <3>1. frames[1] \in Frame
      BY <2>1, PopFrame
    <3>2. p \in Pids
      BY DEF Ready
    <3>3. [frames[1] EXCEPT !.at = "update", !.pid = p,
             !.status = IF Zombie(p) THEN proc[p] ELSE "stopped"] \in Frame
      BY <3>1, <3>2 DEF Frame, Zombie
    <3> QED BY <2>1, <3>3, SetFrame
  <2>4. frames' \in Seq(Frame)
    <3>1. \/ frames' = Tail(frames)
          \/ \E p \in Ready :
               frames' = [frames EXCEPT ![1] = [frames[1] EXCEPT !.at = "update", !.pid = p,
                            !.status = IF Zombie(p) THEN proc[p] ELSE "stopped"]]
      BY <1>1 DEF ChldWait
    <3> QED BY <2>2, <2>3, <3>1
  <2>5. proc' \in [Pids -> ProcState] /\ stopReport' \subseteq Pids
    BY <1>1 DEF ChldWait, ProcState, Ready
  <2> QED BY <1>1, <2>4, <2>5 DEF ChldWait
<1>2. CASE ChldUpdate
  <2>1. frames' \in Seq(Frame)
    BY <1>2, ChldUpdateTable, PopFrame
  <2>2. jobs' \in [Slots -> JobSlot]
    <3>1. EmptyJob \in JobSlot
      BY DEF EmptyJob, JobSlot, JobStates
    <3>2. \A s \in Slots : [jobs[s] EXCEPT !.state = ST] \in JobSlot
      BY DEF JobSlot, JobStates
    <3>3. \A s \in Slots : [jobs EXCEPT ![s].state = ST] \in [Slots -> JobSlot]
      BY <3>2
    <3> QED BY <1>2, <3>1, <3>3, ChldUpdateTable
  <2>3. nextjid' \in Nat \ {0}
    BY <1>2, ChldUpdateTable
  <2>4. pc' \in {pc, "crashed"} /\ UNCHANGED locals
    BY <1>2, ChldUpdateTable DEF Crash
  <2>5. UNCHANGED <<blocked, pending, kernel, caught, keys>>
    BY <1>2 DEF ChldUpdate
  <2> QED BY <2>1, <2>2, <2>3, <2>4, <2>5
<1>3. CASE FwdFgpid
  <2>1. frames # <<>>
    BY <1>3 DEF FwdFgpid, HandlerRuns
  <2>2. [frames[1] EXCEPT !.at = "kill", !.pid = fgpid(jobs)] \in Frame
    <3>1. frames[1] \in Frame
      BY <2>1, PopFrame
    <3> QED BY <3>1, FgpidType DEF Frame
  <2>3. frames' \in Seq(Frame)
    BY <1>3, <2>1, <2>2, SetFrame DEF FwdFgpid
  <2> QED BY <1>3, <2>3 DEF FwdFgpid
<1>4. CASE FwdKill
  <2>1. frames' \in Seq(Frame)
    BY <1>4, FwdKillCases, PopFrame
  <2>2. /\ proc' \in [Pids -> ProcState] /\ pending' \subseteq Signals
        /\ stopReport' \subseteq Pids /\ caught' \in [Pids -> SUBSET {"SIGINT", "SIGTSTP"}]
    BY <1>4, FwdKillCases, ShellGroupType, SignalJobType
  <2>3. UNCHANGED <<table, main, keys>>
    BY <1>4, FwdKillCases
  <2> QED BY <2>1, <2>2, <2>3
<1>5. ASSUME NEW s \in Signals, Deliver(s)
      PROVE  TypeOK'
  <2>1. [sig |-> s, at |-> "start", pid |-> 0, status |-> "none"] \in Frame
    BY DEF Frame
  <2>2. frames' \in Seq(Frame)
    BY <1>5, <2>1, PushFrame DEF Deliver
  <2> QED BY <1>5, <2>2 DEF Deliver
<1>6. ASSUME NEW s \in KeySigs, KeySignal(s)
      PROVE  TypeOK'
  <2>1. s \in {"SIGINT", "SIGTSTP"} /\ SignalShellGroup(s)
    BY <1>6, ShellAssumption DEF KeySignal
  <2>2. pending' \subseteq Signals /\ caught' \in [Pids -> SUBSET {"SIGINT", "SIGTSTP"}]
    BY <2>1, ShellGroupType
  <2> QED BY <1>6, <2>2 DEF KeySignal
<1>7. ASSUME NEW p \in Pids, Child(p)
      PROVE  TypeOK'
  BY <1>7, ChildTypes
<1> QED BY <1>1, <1>2, <1>3, <1>4, <1>5, <1>6, <1>7 DEF HandlerStep
-----------------------------------------------------------------------------
(* The handler stack and the kernel's view                                 *)

Environment ==
  \/ ChldWait \/ FwdFgpid \/ FwdKill
  \/ \E s \in Signals : Deliver(s)
  \/ \E s \in KeySigs : KeySignal(s)
  \/ \E p \in Pids : Child(p)

\* The loop only runs when no handler does.
LEMMA MainAlone ==
  ASSUME Command \/ MainStep
  PROVE  frames = <<>> /\ frames' = <<>>
BY DEF Command, MainStep, Fork, EvalFork, EvalForkFails, EvalAdd, EvalUnblock, Quit, BgfgLookup,
       BgfgSetState, BgfgCont, BgfgCallWait, WaitFgpid, WaitJob, WaitTest, WaitSleep, MainRuns

\* What a step of a child does: the child does not disappear, and reports a
\* stop only when it stops.
LEMMA ChildFacts ==
  ASSUME TypeOK, NEW p \in Pids, Child(p)
  PROVE  /\ UNCHANGED <<table, main, frames>>
         /\ \E c \in ProcState \ {"none"} : proc' = [proc EXCEPT ![p] = c]
         /\ proc[p] # "none" /\ proc'[p] # "none"
         /\ \A q \in Pids \ {p} : proc'[q] = proc[q] /\ (q \in stopReport' => q \in stopReport)
         /\ p \in stopReport' => proc'[p] = "stopped" \/ (p \in stopReport /\ ~Stopped(p))
<1> USE DEF TypeOK
<1>1. CASE \E sig \in KeySigs : ChildCatches(p, sig)
  BY <1>1 DEF ChildCatches, ShellGroup, ProcState, Stopped
<1>2. CASE ChildSetpgid(p) \/ ChildExec(p)
  BY <1>2 DEF ChildSetpgid, ChildExec, ProcState, Stopped
<1>3. ASSUME NEW from, "none" \notin from, NEW to \in {"exited", "killed", "stopped"},
             ChildChange(p, from, to)
      PROVE  /\ UNCHANGED <<table, main, frames>> /\ proc[p] # "none" /\ proc'[p] = to
             /\ to \in ProcState \ {"none"} /\ proc' = [proc EXCEPT ![p] = to]
             /\ \A q \in Pids \ {p} : q \in stopReport' => q \in stopReport
             /\ p \in stopReport' => to = "stopped"
  <2>1. UNCHANGED <<table, main, frames>>
    BY <1>3 DEF ChildChange
  <2>2. proc[p] # "none" /\ proc' = [proc EXCEPT ![p] = to] /\ to \in ProcState \ {"none"}
    BY <1>3 DEF ChildChange, ProcState
  <2>3. stopReport' = IF to = "stopped" THEN stopReport \cup {p} ELSE stopReport \ {p}
    BY <1>3 DEF ChildChange
  <2> QED BY <2>1, <2>2, <2>3
<1>4. CASE ChildExit(p) \/ ChildKilled(p) \/ ChildStops(p)
  <2>1. PICK from \in SUBSET ProcState, to \in {"exited", "killed", "stopped"} :
          "none" \notin from /\ ChildChange(p, from, to)
    <3>1. ChildExit(p) => ChildChange(p, {"grouped", "running"}, "exited")
      BY DEF ChildExit
    <3>2. ChildKilled(p) => ChildChange(p, {"forked", "handling", "grouped", "running", "stopped",
                                             "stopped_int"}, "killed")
      BY DEF ChildKilled
    <3>3. ChildStops(p) => ChildChange(p, {"running"}, "stopped")
      BY DEF ChildStops
    <3> QED BY <1>4, <3>1, <3>2, <3>3 DEF ProcState
  <2>2. /\ UNCHANGED <<table, main, frames>> /\ proc[p] # "none" /\ proc'[p] = to
        /\ to \in ProcState \ {"none"} /\ proc' = [proc EXCEPT ![p] = to]
        /\ \A q \in Pids \ {p} : q \in stopReport' => q \in stopReport
        /\ p \in stopReport' => to = "stopped"
    BY <1>3, <2>1
  <2>3. \A q \in Pids \ {p} : proc'[q] = proc[q] /\ (q \in stopReport' => q \in stopReport)
    BY <2>2
  <2>4. \E c \in ProcState \ {"none"} : proc' = [proc EXCEPT ![p] = c]
    BY <2>2
  <2>5. p \in stopReport' => proc'[p] = "stopped"
    BY <2>2
  <2>6. proc'[p] # "none"
    BY <2>2
  <2> QED BY <2>2, <2>3, <2>4, <2>5, <2>6
<1> QED BY <1>1, <1>2, <1>4 DEF Child

\* Nothing but the loop and sigchld_handler's last step writes the job list.
LEMMA EnvironmentTable ==
  ASSUME TypeOK, Environment
  PROVE  UNCHANGED <<jobs, nextjid, pc, pid, mode, jobp, fg_pid, job, blocked>>
BY ChildFacts DEF Environment, ChldWait, FwdFgpid, FwdKill, Deliver, KeySignal, table, main, locals

\* What an environment step does to the handler stack.
LEMMA EnvironmentFrames ==
  ASSUME TypeOK, Environment
  PROVE  \/ /\ frames' = frames /\ \E p \in Pids : Child(p)
         \/ /\ frames' = frames /\ UNCHANGED kernel
         \/ \E s \in Deliverable :
              /\ frames' = <<[sig |-> s, at |-> "start", pid |-> 0, status |-> "none"]>> \o frames
              /\ UNCHANGED kernel
         \/ /\ frames # <<>> /\ frames' = Tail(frames)
            /\ ChldWait \/ FwdKill
         \/ ChldWait /\ frames # <<>> /\ \E p \in Ready :
              frames' = [frames EXCEPT ![1] = [frames[1] EXCEPT !.at = "update", !.pid = p,
                           !.status = IF Zombie(p) THEN proc[p] ELSE "stopped"]]
         \/ /\ FwdFgpid /\ frames # <<>> /\ UNCHANGED kernel
            /\ frames' = [frames EXCEPT ![1] = [frames[1] EXCEPT !.at = "kill", !.pid = fgpid(jobs)]]
<1>1. CASE ChldWait
  BY <1>1 DEF ChldWait, HandlerRuns
<1>2. CASE FwdFgpid
  BY <1>2 DEF FwdFgpid, HandlerRuns
<1>3. CASE FwdKill
  BY <1>3 DEF FwdKill, HandlerRuns
<1>4. ASSUME NEW s \in Signals, Deliver(s)
      PROVE  /\ s \in Deliverable
             /\ frames' = <<[sig |-> s, at |-> "start", pid |-> 0, status |-> "none"]>> \o frames
             /\ UNCHANGED kernel
  BY <1>4 DEF Deliver
<1>5. ASSUME NEW s \in KeySigs, KeySignal(s)
      PROVE  frames' = frames /\ UNCHANGED kernel
  BY <1>5 DEF KeySignal
<1>6. ASSUME NEW p \in Pids, Child(p)
      PROVE  frames' = frames
  BY <1>6, ChildFacts
<1> QED BY <1>1, <1>2, <1>3, <1>4, <1>5, <1>6 DEF Environment

\* No child disappears but by waitpid, which leaves its ID with the handler.
LEMMA EnvironmentProc ==
  ASSUME TypeOK, Environment, NEW q \in Pids, proc[q] # "none", proc'[q] = "none"
  PROVE  /\ ChldWait /\ frames # <<>> /\ Zombie(q)
         /\ frames' = [frames EXCEPT ![1] = [frames[1] EXCEPT !.at = "update", !.pid = q,
                           !.status = IF Zombie(q) THEN proc[q] ELSE "stopped"]]
<1> USE DEF TypeOK, kernel
<1>1. CASE ChldWait
  <2>1. frames # <<>>
    BY <1>1 DEF ChldWait, HandlerRuns
  <2>2. PICK p \in Ready :
          /\ frames' = [frames EXCEPT ![1] = [frames[1] EXCEPT !.at = "update", !.pid = p,
                           !.status = IF Zombie(p) THEN proc[p] ELSE "stopped"]]
          /\ proc' = [proc EXCEPT ![p] = IF Zombie(p) THEN "none" ELSE proc[p]]
    BY <1>1 DEF ChldWait
  <2>3. p = q /\ Zombie(q)
    BY <2>2
  <2> QED BY <1>1, <2>1, <2>2, <2>3
<1>2. CASE FwdKill
  <2>1. \A ps \in ProcState : \A sig : AfterSignal(ps, sig) = "none" => ps = "none"
    BY DEF AfterSignal, ProcState
  <2>2. proc' = proc \/ \E p, sig : proc' = [proc EXCEPT ![p] = AfterSignal(proc[p], sig)]
    BY <1>2 DEF FwdKill, SignalJob
  <2> QED BY <2>1, <2>2
<1>3. CASE FwdFgpid
  BY <1>3 DEF FwdFgpid
<1>4. ASSUME NEW s \in Signals, Deliver(s)
      PROVE  FALSE
  BY <1>4 DEF Deliver
<1>5. ASSUME NEW s \in KeySigs, KeySignal(s)
      PROVE  FALSE
  BY <1>5 DEF KeySignal
<1>6. ASSUME NEW p \in Pids, Child(p)
      PROVE  FALSE
  BY <1>6, ChildFacts
<1> QED BY <1>1, <1>2, <1>3, <1>4, <1>5, <1>6 DEF Environment

\* A stop waits to be reported only while the child is stopped.
LEMMA StopStep ==
  ASSUME TypeOK, StopInv, Command \/ MainStep \/ HandlerStep \/ Environment
  PROVE  StopInv'
<1> USE DEF TypeOK, StopInv, Stopped, kernel
<1>1. ASSUME NEW bg, NEW p \in Pids, EvalFork(bg, p)
      PROVE  StopInv'
  BY <1>1 DEF EvalFork, Fork
<1>2. CASE BgfgCont
  <2>1. \/ UNCHANGED kernel
        \/ \E p \in Pids : /\ stopReport' = stopReport \ {p}
                           /\ \A q \in Pids : q # p => proc'[q] = proc[q]
    BY <1>2 DEF BgfgCont
  <2> QED BY <2>1
<1>3. CASE ChldWait
  BY <1>3 DEF ChldWait, Zombie, Ready
<1>4. CASE FwdKill
  <2>1. PICK p \in Pids \cup {0}, sig \in Signals :
                      \/ UNCHANGED kernel
                      \/ /\ p \in Pids
                         /\ proc' = [proc EXCEPT ![p] = AfterSignal(@, sig)]
                         /\ stopReport' = IF proc[p] = "running" /\ sig = "SIGTSTP"
                                          THEN stopReport \cup {p} ELSE stopReport
    <3>1. PICK sig \in {"SIGINT", "SIGTSTP"} :
            \/ frames[1].pid = 0 /\ UNCHANGED kernel
            \/ frames[1].pid \in Pids /\ SignalJob(frames[1].pid, sig)
      BY <1>4, FwdKillCases
    <3> QED BY <3>1 DEF SignalJob
  <2>2. \A ps \in {"stopped", "stopped_int"} : AfterSignal(ps, sig) \in {"stopped", "stopped_int"}
    BY DEF AfterSignal
  <2>3. AfterSignal("running", "SIGTSTP") = "stopped"
    BY DEF AfterSignal
  <2>4. ASSUME NEW q \in stopReport'
        PROVE  proc'[q] \in {"stopped", "stopped_int"}
    BY <2>1, <2>2, <2>3, <2>4
  <2> QED BY <2>4
<1>5. ASSUME NEW p \in Pids, Child(p)
      PROVE  StopInv'
  <2>1. ASSUME NEW q \in Pids, q \in stopReport'
        PROVE  proc'[q] \in {"stopped", "stopped_int"}
    BY <1>5, <2>1, ChildFacts
  <2>2. stopReport' \subseteq Pids
    BY <1>5, ChildTypes
  <2> QED BY <2>1, <2>2
<1>6. CASE UNCHANGED kernel
  BY <1>6
<1>7. CASE MainStep /\ ~BgfgCont
  BY <1>6, <1>7 DEF MainStep, EvalAdd, EvalUnblock, BgfgSetState, BgfgCallWait,
                    WaitFgpid, WaitJob, WaitTest, WaitSleep
<1>8. CASE Command /\ ~(\E bg \in {FG, BG}, p \in Pids : EvalFork(bg, p))
  BY <1>6, <1>8 DEF Command, Fork, EvalForkFails, Quit, BgfgLookup
<1>9. CASE ChldUpdate \/ FwdFgpid \/ (\E s \in Signals : Deliver(s))
             \/ (\E s \in KeySigs : KeySignal(s))
  BY <1>6, <1>9 DEF ChldUpdate, FwdFgpid, Deliver, KeySignal
<1> QED BY <1>1, <1>2, <1>3, <1>4, <1>5, <1>7, <1>8, <1>9 DEF HandlerStep, Environment

\* Handlers never nest in themselves, and what they hold stays true.
LEMMA FramesStep ==
  ASSUME TypeOK, FramesInv, StopInv, Command \/ MainStep \/ ChldUpdate \/ Environment
  PROVE  FramesInv'
<1> USE DEF TypeOK
<1>1. CASE Command \/ MainStep
  BY <1>1, MainAlone DEF FramesInv
<1>2. CASE ChldUpdate
  <2>1. frames' = frames \/ (frames # <<>> /\ frames' = Tail(frames))
    BY <1>2, ChldUpdateTable DEF table
  <2>2. proc' = proc
    BY <1>2 DEF ChldUpdate, kernel
  <2>3. CASE frames' = frames
    BY <2>2, <2>3 DEF FramesInv
  <2>4. CASE frames # <<>> /\ frames' = Tail(frames)
    BY <2>2, <2>4, PopFrame DEF FramesInv
  <2> QED BY <2>1, <2>3, <2>4
<1>3. CASE Environment
  <2>1. \A q \in Pids : proc[q] # "none" /\ proc'[q] = "none" =>
          ChldWait /\ frames # <<>> /\ Zombie(q) /\ frames' # frames
            /\ frames' = [frames EXCEPT ![1] = [frames[1] EXCEPT !.at = "update", !.pid = q,
                            !.status = IF Zombie(q) THEN proc[q] ELSE "stopped"]]
    <3>1. SUFFICES ASSUME NEW q \in Pids, proc[q] # "none", proc'[q] = "none"
                   PROVE  ChldWait /\ frames # <<>> /\ Zombie(q) /\ frames' # frames
            /\ frames' = [frames EXCEPT ![1] = [frames[1] EXCEPT !.at = "update", !.pid = q,
                            !.status = IF Zombie(q) THEN proc[q] ELSE "stopped"]]
      OBVIOUS
    <3> DEFINE f == [frames[1] EXCEPT !.at = "update", !.pid = q,
                       !.status = IF Zombie(q) THEN proc[q] ELSE "stopped"]
    <3>2. ChldWait /\ frames # <<>> /\ Zombie(q) /\ frames' = [frames EXCEPT ![1] = f]
      BY <1>3, <3>1, EnvironmentProc
    <3>3. frames[1] \in Frame /\ frames[1].at = "start" /\ 1 \in DOMAIN frames
      BY <3>2, PopFrame DEF ChldWait, HandlerRuns
    <3>4. f \in Frame /\ f.at = "update"
      BY <3>1, <3>2, <3>3 DEF Frame, Zombie
    <3>5. frames'[1] = f
      <4> HIDE DEF f
      <4> QED BY <3>2, <3>3, <3>4, SetFrame
    <3> QED BY <3>2, <3>3, <3>4, <3>5
  <2>2. CASE frames' = frames
    BY <2>1, <2>2 DEF FramesInv
  <2>3. ASSUME NEW s \in Deliverable, UNCHANGED kernel,
               frames' = <<[sig |-> s, at |-> "start", pid |-> 0, status |-> "none"]>> \o frames
        PROVE  FramesInv'
    <3> DEFINE f == [sig |-> s, at |-> "start", pid |-> 0, status |-> "none"]
    <3>1. s \in Signals /\ \A k \in DOMAIN frames : frames[k].sig # s
      BY <2>3 DEF Deliverable
    <3>2. f \in Frame
      BY <3>1 DEF Frame
    <3>3. f.sig = s /\ f.at = "start"
      OBVIOUS
    <3> HIDE DEF f
    <3>4. frames' = <<f>> \o frames /\ proc' = proc
      BY <2>3 DEF f, kernel
    <3>5. /\ frames'[1] = f
          /\ \A k \in DOMAIN frames' : k # 1 => k - 1 \in DOMAIN frames /\ frames'[k] = frames[k - 1]
          /\ \A k \in DOMAIN frames' : k \in Int
      BY <3>2, <3>4, PushFrame
    <3>6. \A i, j \in DOMAIN frames' : frames'[i].sig = frames'[j].sig => i = j
      BY <3>1, <3>3, <3>5 DEF FramesInv
    <3>7. \A k \in DOMAIN frames' : frames'[k].at # "start" =>
            k - 1 \in DOMAIN frames /\ frames'[k] = frames[k - 1]
      BY <3>3, <3>5
    <3> QED BY <3>4, <3>6, <3>7 DEF FramesInv
  <2>4. CASE frames # <<>> /\ frames' = Tail(frames) /\ (ChldWait \/ FwdKill)
    <3>1. \A q \in Pids : proc[q] # "none" => proc'[q] # "none"
      <4>1. ASSUME NEW q \in Pids, proc[q] # "none", proc'[q] = "none"
            PROVE  FALSE
        <5>1. frames # <<>> /\ frames' = [frames EXCEPT ![1] = [frames[1] EXCEPT !.at = "update",
                 !.pid = q, !.status = IF Zombie(q) THEN proc[q] ELSE "stopped"]]
          BY <2>1, <4>1
        <5>2. Len(Tail(frames)) = Len(frames) - 1 /\ Len(frames) \in Nat
          BY <2>4, HeadTailProperties, LenProperties
        <5>3. Len(frames') = Len(frames)
          BY <5>1
        <5> QED BY <2>4, <5>2, <5>3
      <4> QED BY <4>1
    <3> QED BY <2>4, <3>1, PopFrame DEF FramesInv
  <2>5. ASSUME ChldWait, frames # <<>>, NEW p \in Ready,
               frames' = [frames EXCEPT ![1] = [frames[1] EXCEPT !.at = "update", !.pid = p,
                            !.status = IF Zombie(p) THEN proc[p] ELSE "stopped"]]
        PROVE  FramesInv'
    <3> DEFINE f == [frames[1] EXCEPT !.at = "update", !.pid = p,
                       !.status = IF Zombie(p) THEN proc[p] ELSE "stopped"]
    <3>1. p \in Pids /\ (Zombie(p) \/ p \in stopReport)
      BY DEF Ready
    <3>2. frames[1] \in Frame /\ frames[1].sig = "SIGCHLD" /\ 1 \in DOMAIN frames
      BY <2>5, PopFrame DEF ChldWait, HandlerRuns
    <3>3. f \in Frame /\ f.sig = "SIGCHLD" /\ f.at = "update" /\ f.pid = p
      BY <3>1, <3>2 DEF Frame, Zombie
    <3>4. f.status = "stopped" => ~Zombie(p) /\ proc[p] # "none"
      BY <3>1, <3>2 DEF Frame, Zombie, StopInv, Stopped
    <3>5. f.status = "stopped" => proc'[p] # "none"
      BY <2>1, <3>1, <3>4
    <3> HIDE DEF f
    <3>6. frames' = [frames EXCEPT ![1] = f]
      BY <2>5 DEF f
    <3>7. DOMAIN frames' = DOMAIN frames
          /\ \A k \in DOMAIN frames : frames'[k] = IF k = 1 THEN f ELSE frames[k]
      BY <2>5, <3>3, <3>6, SetFrame
    <3>8. \A k \in DOMAIN frames : k # 1 => frames[k].at # "update"
      BY <3>2 DEF FramesInv
    <3> QED BY <3>2, <3>3, <3>5, <3>7, <3>8, <3>1 DEF FramesInv
  <2>6. CASE /\ FwdFgpid /\ frames # <<>> /\ UNCHANGED kernel
             /\ frames' = [frames EXCEPT ![1] = [frames[1] EXCEPT !.at = "kill", !.pid = fgpid(jobs)]]
    <3> DEFINE f == [frames[1] EXCEPT !.at = "kill", !.pid = fgpid(jobs)]
    <3>1. frames[1] \in Frame /\ frames[1].sig # "SIGCHLD" /\ 1 \in DOMAIN frames
      BY <2>6, PopFrame DEF FwdFgpid, HandlerRuns
    <3>2. f \in Frame /\ f.sig = frames[1].sig /\ f.at = "kill"
      BY <3>1, FgpidType DEF Frame
    <3> HIDE DEF f
    <3>3. DOMAIN frames' = DOMAIN frames
          /\ \A k \in DOMAIN frames : frames'[k] = IF k = 1 THEN f ELSE frames[k]
      <4>1. frames' = [frames EXCEPT ![1] = f]
        BY <2>6 DEF f
      <4> QED BY <2>6, <3>2, <4>1, SetFrame
    <3>4. proc' = proc
      BY <2>6 DEF kernel
    <3> QED BY <3>1, <3>2, <3>3, <3>4 DEF FramesInv
  <2> QED BY <1>3, <2>2, <2>3, <2>4, <2>5, <2>6, EnvironmentFrames
<1> QED BY <1>1, <1>2, <1>3

\* What the frame of a handler may be between fork and addjob.
Harmless(f) == f.sig # "SIGCHLD" /\ (f.at = "kill" => f.pid = 0)

\* No SIGCHLD handler starts while SIGCHLD is blocked for addjob.
LEMMA ForkStep ==
  ASSUME TypeOK, FramesInv, ForkInv, ForegroundInv, JobsAreChildren,
         Command \/ MainStep \/ ChldUpdate \/ Environment
  PROVE  ForkInv'
<1> USE DEF TypeOK
<1>1. ASSUME NEW bg \in {FG, BG}, NEW p \in Pids, EvalFork(bg, p)
      PROVE  ForkInv'
  <2>1. frames = <<>> /\ frames' = <<>>
    BY <1>1, MainAlone DEF Command
  <2>2. \A i \in Slots : jobs[i].pid # p
    BY <1>1, <2>1, PidFacts DEF EvalFork, JobsAreChildren
  <2> QED BY <1>1, <2>1, <2>2 DEF EvalFork, Fork, ForkInv, table
<1>2. ASSUME NEW bg \in {FG, BG}, EvalForkFails(bg)
      PROVE  ForkInv'
  <2>1. frames' = <<>>
    BY <1>2, MainAlone DEF Command
  <2> QED BY <1>2, <2>1, PidFacts DEF EvalForkFails, Fork, ForkInv
<1>3. CASE MainStep \/ Quit \/ \E cmd \in {FG, BG}, slot \in Lookup : BgfgLookup(cmd, slot)
  <2>1. pc' # "add"
    BY <1>3 DEF MainStep, Quit, BgfgLookup, EvalAdd, EvalUnblock, BgfgSetState, BgfgCont,
                BgfgCallWait, WaitFgpid, WaitJob, WaitTest, WaitSleep, Return, Crash
  <2> QED BY <2>1 DEF ForkInv
<1>4. ASSUME ChldUpdate, pc' = "add"
      PROVE  FALSE
  <2>1. pc = "add" /\ frames # <<>> /\ frames[1].at = "update"
    BY <1>4, ChldUpdateTable DEF Crash
  <2>2. 1 \in DOMAIN frames /\ frames[1].sig = "SIGCHLD"
    BY <2>1, PopFrame DEF FramesInv
  <2> QED BY <2>1, <2>2 DEF ForkInv
<1>5. ASSUME Environment, pc' = "add"
      PROVE  ForkInv'
  <2>1. pc = "add" /\ blocked' = blocked /\ jobs' = jobs /\ pid' = pid
    BY <1>5, EnvironmentTable
  <2>2. /\ blocked /\ Foreground(jobs) = {}
        /\ \A k \in DOMAIN frames : Harmless(frames[k])
    BY <2>1 DEF ForkInv, ForegroundInv, Harmless
  <2>3. ~ChldWait
    BY <2>2, PopFrame DEF ChldWait, HandlerRuns, Harmless
  <2>4. \A q \in Pids : proc[q] # "none" => proc'[q] # "none"
    BY <1>5, <2>3, EnvironmentProc
  <2>5. \A k \in DOMAIN frames' : Harmless(frames'[k])
    <3>1. CASE frames' = frames
      BY <2>2, <3>1
    <3>2. ASSUME NEW s \in Deliverable,
                 frames' = <<[sig |-> s, at |-> "start", pid |-> 0, status |-> "none"]>> \o frames
          PROVE  \A k \in DOMAIN frames' : Harmless(frames'[k])
      <4>1. s # "SIGCHLD" /\ s \in Signals
        BY <2>2 DEF Deliverable
      <4> DEFINE f == [sig |-> s, at |-> "start", pid |-> 0, status |-> "none"]
      <4>2. f \in Frame /\ Harmless(f)
        BY <4>1 DEF Frame, Harmless
      <4> HIDE DEF f
      <4>3. frames' = <<f>> \o frames
        BY <3>2 DEF f
      <4> QED BY <2>2, <4>2, <4>3, PushFrame
    <3>3. CASE frames # <<>> /\ frames' = Tail(frames)
      BY <2>2, <3>3, PopFrame
    <3>4. CASE frames # <<>> /\ frames' = [frames EXCEPT ![1] =
                                  [frames[1] EXCEPT !.at = "kill", !.pid = fgpid(jobs)]]
      <4>1. frames[1] \in Frame /\ 1 \in DOMAIN frames
        BY <3>4, PopFrame
      <4> DEFINE f == [frames[1] EXCEPT !.at = "kill", !.pid = fgpid(jobs)]
      <4>2. fgpid(jobs) = 0
        BY <2>2, Fgpid_Spec
      <4>3. f \in Frame
        BY <4>1, FgpidType DEF Frame
      <4>4. Harmless(f)
        BY <2>2, <4>1, <4>2 DEF Frame, Harmless
      <4> HIDE DEF f
      <4>5. frames' = [frames EXCEPT ![1] = f]
        BY <3>4 DEF f
      <4> QED BY <2>2, <3>4, <4>3, <4>4, <4>5, SetFrame
    <3> QED BY <1>5, <2>3, <3>1, <3>2, <3>3, <3>4, EnvironmentFrames
  <2> QED BY <2>1, <2>2, <2>4, <2>5 DEF ForkInv, Harmless
<1>6. pc' # "add" => ForkInv'
  BY DEF ForkInv
<1> QED BY <1>1, <1>2, <1>3, <1>4, <1>5, <1>6 DEF Command
-----------------------------------------------------------------------------
(* The job list                                                            *)

\* sigchld_handler never makes a job a foreground or a background job, and
\* never gives a slot to another process.
LEMMA ChldUpdateSlots ==
  ASSUME TypeOK, FramesInv, ChldUpdate
  PROVE  \A i \in Slots :
           /\ jobs'[i].state \in {FG, BG} => jobs'[i] = jobs[i]
           /\ jobs'[i].pid # 0 => jobs'[i].pid = jobs[i].pid
           /\ jobs'[i].pid # 0 => jobs'[i].state \in {jobs[i].state, ST}
<1>1. \/ jobs' = jobs
      \/ \E s \in Slots : jobs' = [jobs EXCEPT ![s].state = ST]
      \/ \E s \in Slots : jobs' = [jobs EXCEPT ![s] = EmptyJob]
  BY ChldUpdateTable DEF table
<1>2. jobs \in [Slots -> JobSlot]
  BY DEF TypeOK
<1>3. CASE jobs' = jobs
  BY <1>3
<1>4. ASSUME NEW s \in Slots, jobs' = [jobs EXCEPT ![s].state = ST], NEW i \in Slots
      PROVE  /\ i # s => jobs'[i] = jobs[i]
             /\ i = s => jobs'[i].state = ST /\ jobs'[i].pid = jobs[i].pid
  BY <1>2, <1>4 DEF JobSlot
<1>5. ASSUME NEW s \in Slots, jobs' = [jobs EXCEPT ![s] = EmptyJob], NEW i \in Slots
      PROVE  /\ i # s => jobs'[i] = jobs[i]
             /\ i = s => jobs'[i].state = UNDEF /\ jobs'[i].pid = 0
  BY <1>2, <1>5 DEF EmptyJob
<1> QED BY <1>1, <1>3, <1>4, <1>5 DEF FG, BG, ST, UNDEF

LEMMA SlotsStep ==
  ASSUME TypeOK, FramesInv, SlotsInv, Command \/ MainStep \/ ChldUpdate \/ Environment
  PROVE  SlotsInv'
<1> USE DEF TypeOK
<1>1. CASE EvalAdd
  <2>1. pid \in Int /\ mode # UNDEF
    BY PidFacts DEF FG, BG, UNDEF
  <2>2. jobs' = jobs \/ \E f \in Slots : jobs' = [jobs EXCEPT ![f] = [pid |-> pid, jid |-> nextjid, state |-> mode]]
    BY <1>1, <2>1, AddJob_Spec DEF EvalAdd
  <2> QED BY <2>1, <2>2 DEF SlotsInv
<1>2. CASE BgfgSetState
  <2>1. \A i \in Slots : jobs'[i].pid = jobs[i].pid /\ jobs'[i].state \in {mode, jobs[i].state}
    BY <1>2 DEF BgfgSetState, JobSlot
  <2> QED BY <2>1 DEF SlotsInv, FG, BG, UNDEF
<1>3. CASE ChldUpdate
  BY <1>3, ChldUpdateSlots DEF SlotsInv, ST, UNDEF
<1>4. CASE jobs' = jobs
  BY <1>4 DEF SlotsInv
<1>5. CASE MainStep /\ ~EvalAdd /\ ~BgfgSetState
  BY <1>4, <1>5 DEF MainStep, EvalUnblock, BgfgCont, BgfgCallWait, WaitFgpid, WaitJob,
                    WaitTest, WaitSleep, table
<1>6. CASE Command
  BY <1>4, <1>6 DEF Command, EvalFork, EvalForkFails, Fork, Quit, BgfgLookup, table
<1>7. CASE Environment
  BY <1>4, <1>7, EnvironmentTable
<1> QED BY <1>1, <1>2, <1>3, <1>5, <1>6, <1>7

\* A step that does not write the list leaves the foreground alone.
LEMMA SameForeground ==
  ASSUME jobs' = jobs
  PROVE  Foreground(jobs') = Foreground(jobs) /\ (AtMostOneFG => AtMostOneFG')
BY DEF Foreground, AtMostOneFG

LEMMA ForegroundStep ==
  ASSUME TypeOK, FramesInv, ForegroundInv, AtMostOneFG, JobsAreChildren,
         Command \/ MainStep \/ ChldUpdate \/ Environment
  PROVE  ForegroundInv' /\ AtMostOneFG'
<1> USE DEF TypeOK, table, locals
<1>1. CASE Command
  <2>1. jobs' = jobs /\ pc' \in {"add", "setstate", "exited"}
    BY <1>1 DEF Command, EvalFork, EvalForkFails, Fork, Quit, BgfgLookup
  <2>2. pc = "read"
    BY <1>1 DEF Command, EvalFork, EvalForkFails, Fork, Quit, BgfgLookup
  <2>3. Foreground(jobs') = {}
    BY <2>1, <2>2, SameForeground DEF ForegroundInv
  <2> QED BY <2>1, <2>3, SameForeground DEF ForegroundInv
<1>2. CASE EvalAdd
  <2>1. pid \in Int
    BY PidFacts
  <2>2. Foreground(jobs) = {} /\ pc' = "unblock" /\ pid' = pid /\ mode' = mode
    BY <1>2 DEF EvalAdd, ForegroundInv
  <2>3. \/ jobs' = jobs
        \/ \E f \in Slots : jobs' = [jobs EXCEPT ![f] = [pid |-> pid, jid |-> nextjid, state |-> mode]]
    BY <1>2, <2>1, AddJob_Spec DEF EvalAdd
  <2>4. CASE jobs' = jobs
    BY <2>2, <2>4, SameForeground DEF ForegroundInv
  <2>5. ASSUME NEW f \in Slots,
               jobs' = [jobs EXCEPT ![f] = [pid |-> pid, jid |-> nextjid, state |-> mode]]
        PROVE  ForegroundInv' /\ AtMostOneFG'
    <3>1. \A s \in Foreground(jobs') : s = f /\ mode = FG /\ jobs'[s].pid = pid
      BY <2>2, <2>5 DEF Foreground
    <3> QED BY <2>2, <3>1 DEF ForegroundInv, AtMostOneFG
  <2> QED BY <2>3, <2>4, <2>5
<1>3. CASE EvalUnblock
  <2>1. jobs' = jobs /\ pc = "unblock"
    BY <1>3 DEF EvalUnblock
  <2>2. CASE mode = FG
    BY <1>3, <2>1, <2>2, SameForeground DEF EvalUnblock, ForegroundInv
  <2>3. CASE mode # FG
    <3>1. Foreground(jobs) = {}
      BY <2>1, <2>3 DEF ForegroundInv
    <3> QED BY <2>1, <3>1, SameForeground DEF ForegroundInv
  <2> QED BY <2>2, <2>3
<1>4. CASE BgfgSetState
  <2>1. /\ Foreground(jobs) = {} /\ pc' = "cont" /\ mode' = mode /\ jobp' = jobp /\ jobp \in Slots
        /\ jobs' = [jobs EXCEPT ![jobp].state = mode]
    BY <1>4 DEF BgfgSetState, ForegroundInv
  <2>2. \A s \in Foreground(jobs') : s = jobp /\ mode = FG
    BY <2>1 DEF Foreground, JobSlot
  <2> QED BY <2>1, <2>2 DEF ForegroundInv, AtMostOneFG
<1>5. CASE BgfgCont
  <2>1. jobs' = jobs /\ pc = "cont"
    BY <1>5 DEF BgfgCont
  <2>2. CASE mode = FG
    BY <1>5, <2>1, <2>2, SameForeground DEF BgfgCont, ForegroundInv
  <2>3. CASE mode # FG
    <3>1. Foreground(jobs) = {}
      BY <2>1, <2>3 DEF ForegroundInv
    <3> QED BY <2>1, <3>1, SameForeground DEF ForegroundInv
  <2> QED BY <2>2, <2>3
<1>6. CASE BgfgCallWait
  <2>1. /\ jobs' = jobs /\ pc = "callwait" /\ pc' = "wait_fgpid" /\ pid' = jobs[jobp].pid
    BY <1>6 DEF BgfgCallWait
  <2>2. \A s \in Foreground(jobs) : s = jobp
    BY <2>1 DEF ForegroundInv
  <2> QED BY <2>1, <2>2, SameForeground DEF ForegroundInv
<1>7. CASE WaitFgpid
  <2>1. /\ jobs' = jobs /\ pc = "wait_fgpid" /\ pc' = "wait_job" /\ pid' = pid
        /\ fg_pid' = fgpid(jobs)
    BY <1>7 DEF WaitFgpid
  <2>2. \A s \in Foreground(jobs) : jobs[s].pid = pid
    BY <2>1 DEF ForegroundInv
  <2>3. Foreground(jobs) # {} => fgpid(jobs) = pid
    BY <2>2, Fgpid_Spec
  <2> QED BY <2>1, <2>2, <2>3, SameForeground DEF ForegroundInv
<1>8. CASE WaitJob
  <2>1. /\ jobs' = jobs /\ pc = "wait_job" /\ pc' = "wait_test" /\ pid' = pid
        /\ fg_pid' = fg_pid /\ job' = getjobpid(jobs, fg_pid)
    BY <1>8 DEF WaitJob
  <2>2. \A s \in Foreground(jobs) : s \in Slots /\ jobs[s].pid = pid /\ fg_pid = pid
    BY <2>1 DEF ForegroundInv, Foreground
  <2>3. job' # NoSlot => job' \in Slots /\ jobs[job'].pid = fg_pid /\ fg_pid # 0
    BY <2>1, GetJobPid_Spec, PidFacts
  <2>4. \A s \in Foreground(jobs) : job' # NoSlot => s = job'
    BY <2>2, <2>3 DEF JobsAreChildren
  <2> QED BY <2>1, <2>2, <2>4, SameForeground DEF ForegroundInv
<1>9. CASE WaitTest
  <2>1. jobs' = jobs /\ pc = "wait_test"
    BY <1>9 DEF WaitTest
  <2>2. \A s \in Foreground(jobs) : /\ jobs[s].pid = pid /\ fg_pid = pid
                                    /\ job # NoSlot => s = job
    BY <2>1 DEF ForegroundInv
  <2>3. CASE pc' = "read"
    <3>1. \/ fg_pid # pid
          \/ job # NoSlot /\ jobs[job].state = ST
      BY <1>9, <2>3 DEF WaitTest, Crash
    <3>2. \A s \in Foreground(jobs) : jobs[s].state # ST
      BY DEF Foreground, FG, ST
    <3>3. Foreground(jobs) = {}
      BY <2>2, <3>1, <3>2
    <3> QED BY <2>1, <2>3, <3>3, SameForeground DEF ForegroundInv
  <2>4. CASE pc' = "crashed"
    BY <2>1, <2>4, SameForeground DEF ForegroundInv
  <2>5. CASE pc' = "wait_sleep" /\ UNCHANGED locals
    BY <2>1, <2>2, <2>5, SameForeground DEF ForegroundInv
  <2> QED BY <1>9, <2>3, <2>4, <2>5 DEF WaitTest, Return, Crash
<1>10. CASE WaitSleep
  <2>1. /\ jobs' = jobs /\ pc = "wait_sleep" /\ pc' = "wait_test" /\ pid' = pid /\ job' = job
        /\ fg_pid' = fgpid(jobs)
    BY <1>10 DEF WaitSleep
  <2>2. \A s \in Foreground(jobs) : jobs[s].pid = pid /\ (job # NoSlot => s = job)
    BY <2>1 DEF ForegroundInv
  <2>3. Foreground(jobs) # {} => fgpid(jobs) = pid
    BY <2>2, Fgpid_Spec
  <2> QED BY <2>1, <2>2, <2>3, SameForeground DEF ForegroundInv
<1>11. CASE ChldUpdate
  <2>1. \A s \in Foreground(jobs') : s \in Foreground(jobs) /\ jobs'[s] = jobs[s]
    BY <1>11, ChldUpdateSlots DEF Foreground
  <2>2. AtMostOneFG'
    BY <2>1 DEF AtMostOneFG
  <2>3. CASE pc' = "crashed"
    BY <2>2, <2>3, <2>1 DEF ForegroundInv
  <2>4. CASE pc' = pc /\ UNCHANGED locals
    BY <2>1, <2>2, <2>4 DEF ForegroundInv
  <2> QED BY <1>11, <2>3, <2>4, ChldUpdateTable DEF Crash
<1>12. CASE Environment
  <2>1. UNCHANGED <<jobs, pc, pid, mode, jobp, fg_pid, job>>
    BY <1>12, EnvironmentTable
  <2> QED BY <2>1, SameForeground DEF ForegroundInv
<1> QED BY <1>1, <1>2, <1>3, <1>4, <1>5, <1>6, <1>7, <1>8, <1>9, <1>10, <1>11, <1>12 DEF MainStep

\* The list keeps holding children: a zombie leaves it in the same handler that
\* reaped it.
LEMMA ChildrenStep ==
  ASSUME TypeOK, FramesInv, ForkInv, JobsAreChildren,
         Command \/ MainStep \/ ChldUpdate \/ Environment
  PROVE  JobsAreChildren'
<1> USE DEF TypeOK, table, kernel
<1> DEFINE Held(p) == \E k \in DOMAIN frames : frames[k].at = "update" /\ frames[k].pid = p
<1>1. CASE Command \/ (MainStep /\ ~EvalAdd)
  <2>1. frames = <<>> /\ frames' = <<>>
    BY <1>1, MainAlone
  <2>2. \A i \in Slots : jobs[i].pid # 0 => jobs[i].pid \in Pids /\ proc[jobs[i].pid] # "none"
    BY <2>1 DEF JobsAreChildren, JobSlot
  <2>3. \A i \in Slots : jobs'[i].pid = jobs[i].pid
    BY <1>1 DEF Command, EvalFork, EvalForkFails, Fork, Quit, BgfgLookup, MainStep, EvalUnblock,
                BgfgSetState, BgfgCont, BgfgCallWait, WaitFgpid, WaitJob, WaitTest, WaitSleep,
                JobSlot
  <2>4. \A q \in Pids : proc[q] # "none" => proc'[q] # "none"
    <3>1. proc' = proc \/ \E q \in Pids : \E c \in ProcState \ {"none"} : proc' = [proc EXCEPT ![q] = c]
      BY <1>1 DEF Command, EvalFork, EvalForkFails, Fork, Quit, BgfgLookup, MainStep, EvalUnblock,
                  BgfgSetState, BgfgCont, BgfgCallWait, WaitFgpid, WaitJob, WaitTest, WaitSleep,
                  ProcState
    <3> QED BY <3>1
  <2> QED BY <2>2, <2>3, <2>4 DEF JobsAreChildren
<1>2. CASE EvalAdd
  <2>1. frames = <<>> /\ frames' = <<>> /\ proc' = proc /\ pc = "add"
    BY <1>2, MainAlone DEF EvalAdd, MainStep
  <2>2. \A i \in Slots : jobs[i].pid # 0 => proc[jobs[i].pid] # "none"
    BY <2>1 DEF JobsAreChildren
  <2>3. CASE jobs' = jobs
    BY <2>1, <2>2, <2>3 DEF JobsAreChildren
  <2>4. ASSUME pid >= 1, NEW f \in Slots, jobs[f].pid = 0,
               jobs' = [jobs EXCEPT ![f] = [pid |-> pid, jid |-> nextjid, state |-> mode]]
        PROVE  JobsAreChildren'
    <3>1. pid \in Pids
      BY <2>4, PidFacts
    <3>2. proc[pid] # "none" /\ \A i \in Slots : jobs[i].pid # pid
      BY <2>1, <3>1 DEF ForkInv
    <3>3. \A i \in Slots : jobs'[i].pid = IF i = f THEN pid ELSE jobs[i].pid
      BY <2>4
    <3> QED BY <2>1, <2>2, <3>2, <3>3 DEF JobsAreChildren
  <2>5. pid \in Int
    BY PidFacts
  <2> QED BY <1>2, <2>3, <2>4, <2>5, AddJob_Spec DEF EvalAdd
<1>3. CASE ChldUpdate
  <2>1. proc' = proc
    BY <1>3 DEF ChldUpdate
  <2>2. \A i \in Slots : jobs'[i].pid # 0 => jobs'[i].pid = jobs[i].pid
    BY <1>3, ChldUpdateSlots
  <2>3. /\ frames # <<>> /\ frames[1].at = "update" /\ frames[1].sig = "SIGCHLD"
        /\ 1 \in DOMAIN frames /\ frames[1].pid \in Pids
    BY <1>3, ChldUpdateTable, PopFrame DEF FramesInv
  <2>4. \A i \in Slots : jobs[i].pid # 0 =>
          proc[jobs[i].pid] # "none" \/ jobs[i].pid = frames[1].pid
    BY <2>3 DEF FramesInv, JobsAreChildren
  <2>5. CASE UNCHANGED <<table, frames>>
    BY <2>1, <2>5 DEF JobsAreChildren
  <2>6. CASE frames[1].status = "stopped"
    BY <2>1, <2>2, <2>3, <2>4, <2>6 DEF FramesInv, JobsAreChildren
  <2>7. CASE jobs' = jobs /\ \A i \in Slots : jobs[i].pid # frames[1].pid
    BY <2>1, <2>4, <2>7 DEF JobsAreChildren
  <2>8. ASSUME NEW s \in Slots, jobs[s].pid = frames[1].pid, jobs' = [jobs EXCEPT ![s] = EmptyJob]
        PROVE  JobsAreChildren'
    <3>1. jobs'[s].pid = 0
      BY <2>8 DEF EmptyJob
    <3>2. frames[1].pid # 0
      BY <2>3, PidFacts
    <3>3. \A i \in Slots : jobs'[i].pid # 0 => jobs[i].pid # frames[1].pid
      BY <2>2, <2>8, <3>1, <3>2 DEF JobsAreChildren
    <3> QED BY <2>1, <2>2, <2>4, <3>3 DEF JobsAreChildren
  <2> QED BY <1>3, <2>5, <2>6, <2>7, <2>8, ChldUpdateTable
<1>4. CASE Environment
  <2>1. jobs' = jobs
    BY <1>4, EnvironmentTable
  <2>2. \A i, j \in Slots : jobs[i].pid = jobs[j].pid /\ jobs[i].pid # 0 => i = j
    BY DEF JobsAreChildren
  <2>3. ASSUME NEW q \in Pids, proc[q] # "none", proc'[q] = "none"
        PROVE  \E k \in DOMAIN frames' : frames'[k].at = "update" /\ frames'[k].pid = q
    <3> DEFINE f == [frames[1] EXCEPT !.at = "update", !.pid = q,
                       !.status = IF Zombie(q) THEN proc[q] ELSE "stopped"]
    <3>1. frames # <<>> /\ Zombie(q) /\ frames' = [frames EXCEPT ![1] = f]
      BY <1>4, <2>3, EnvironmentProc
    <3>2. frames[1] \in Frame /\ 1 \in DOMAIN frames
      BY <3>1, PopFrame
    <3>3. f \in Frame /\ f.at = "update" /\ f.pid = q
      BY <3>1, <3>2 DEF Frame, Zombie
    <3> HIDE DEF f
    <3>4. 1 \in DOMAIN frames' /\ frames'[1] = f
      BY <3>1, <3>2, <3>3, SetFrame
    <3> QED BY <3>3, <3>4
  <2>4. ASSUME NEW q \in Pids, Held(q)
        PROVE  \E k \in DOMAIN frames' : frames'[k].at = "update" /\ frames'[k].pid = q
    <3>1. PICK k \in DOMAIN frames : frames[k].at = "update" /\ frames[k].pid = q
      BY <2>4
    <3>2. k \in Nat
      BY LenProperties
    <3>3. CASE frames' = frames
      BY <3>1, <3>3
    <3>4. ASSUME NEW s \in Deliverable,
                 frames' = <<[sig |-> s, at |-> "start", pid |-> 0, status |-> "none"]>> \o frames
          PROVE  \E j \in DOMAIN frames' : frames'[j].at = "update" /\ frames'[j].pid = q
      <4> DEFINE f == [sig |-> s, at |-> "start", pid |-> 0, status |-> "none"]
      <4>1. f \in Frame
        BY DEF Deliverable, Frame
      <4> HIDE DEF f
      <4>2. frames' = <<f>> \o frames
        BY <3>4 DEF f
      <4>3. k + 1 \in DOMAIN frames' /\ k + 1 # 1 /\ (k + 1) - 1 = k
        BY <3>2, <4>1, <4>2, PushFrame, LenProperties
      <4>4. frames'[k + 1] = frames[k]
        BY <4>1, <4>2, <4>3, PushFrame
      <4> QED BY <3>1, <4>3, <4>4
    <3>5. CASE frames # <<>> /\ frames[1].at # "update" /\ frames' = Tail(frames)
      <4>1. k # 1
        BY <3>1, <3>5
      <4>2. k - 1 \in DOMAIN frames' /\ frames'[k - 1] = frames[k]
        BY <3>1, <3>5, <4>1, PopFrame
      <4> QED BY <3>1, <4>2
    <3>6. ASSUME ChldWait, frames # <<>>
          PROVE  FALSE
      <4>1. frames[1].sig = "SIGCHLD" /\ frames[1].at = "start" /\ 1 \in DOMAIN frames
        BY <3>6, PopFrame DEF ChldWait, HandlerRuns
      <4>2. k # 1 /\ frames[k].sig = "SIGCHLD"
        BY <3>1, <4>1 DEF FramesInv
      <4> QED BY <4>1, <4>2 DEF FramesInv
    <3>7. CASE /\ FwdFgpid /\ frames # <<>>
               /\ frames' = [frames EXCEPT ![1] = [frames[1] EXCEPT !.at = "kill", !.pid = fgpid(jobs)]]
      <4> DEFINE f == [frames[1] EXCEPT !.at = "kill", !.pid = fgpid(jobs)]
      <4>1. frames[1] \in Frame /\ frames[1].at = "start" /\ 1 \in DOMAIN frames
        BY <3>7, PopFrame DEF FwdFgpid, HandlerRuns
      <4>2. k # 1
        BY <3>1, <4>1
      <4>3. f \in Frame
        BY <4>1, FgpidType DEF Frame
      <4> HIDE DEF f
      <4>4. frames' = [frames EXCEPT ![1] = f]
        BY <3>7 DEF f
      <4>5. k \in DOMAIN frames' /\ frames'[k] = frames[k]
        BY <3>1, <3>7, <4>2, <4>3, <4>4, SetFrame
      <4> QED BY <3>1, <4>5
    <3>8. FwdKill /\ frames # <<>> => frames[1].at # "update"
      BY PopFrame DEF FwdKill, HandlerRuns
    <3> QED BY <1>4, <3>3, <3>4, <3>5, <3>6, <3>7, <3>8, EnvironmentFrames
  <2>5. \A i \in Slots : jobs[i].pid # 0 => jobs[i].pid \in Pids /\ (proc[jobs[i].pid] # "none" \/ Held(jobs[i].pid))
    BY DEF JobsAreChildren, JobSlot
  <2> HIDE DEF Held
  <2>6. \A q \in Pids : proc[q] # "none" \/ Held(q) =>
          proc'[q] # "none" \/ \E k \in DOMAIN frames' : frames'[k].at = "update" /\ frames'[k].pid = q
    BY <2>3, <2>4
  <2> QED BY <2>1, <2>2, <2>5, <2>6 DEF JobsAreChildren
<1> QED BY <1>1, <1>2, <1>3, <1>4

\* A handler that is about to forward a key never holds a background job.
LEMMA HeldStep ==
  ASSUME TypeOK, FramesInv, JobsAreChildren, HeldInv,
         Command \/ MainStep \/ ChldUpdate \/ Environment
  PROVE  HeldInv'
<1> USE DEF TypeOK
<1>1. CASE Command \/ MainStep
  BY <1>1, MainAlone DEF HeldInv
<1>2. CASE ChldUpdate
  <2>1. \A i \in Slots : jobs'[i].pid # 0 =>
          jobs'[i].pid = jobs[i].pid /\ (jobs'[i].state = BG => jobs[i].state = BG)
    BY <1>2, ChldUpdateSlots DEF BG, ST
  <2>2. \A k \in DOMAIN frames' : \E j \in DOMAIN frames : frames'[k] = frames[j]
    <3>1. frames' = frames \/ (frames # <<>> /\ frames' = Tail(frames))
      BY <1>2, ChldUpdateTable DEF table
    <3>2. CASE frames # <<>> /\ frames' = Tail(frames)
      BY <3>2, PopFrame
    <3> QED BY <3>1, <3>2
  <2> QED BY <2>1, <2>2 DEF HeldInv
<1>3. CASE Environment
  <2>1. jobs' = jobs
    BY <1>3, EnvironmentTable
  <2>2. \A k \in DOMAIN frames' :
          \/ \E j \in DOMAIN frames : frames'[k] = frames[j]
          \/ frames'[k].at # "kill"
          \/ frames'[k].pid = fgpid(jobs)
    <3>1. CASE frames' = frames
      BY <3>1
    <3>2. ASSUME NEW s \in Deliverable,
                 frames' = <<[sig |-> s, at |-> "start", pid |-> 0, status |-> "none"]>> \o frames
          PROVE  \A k \in DOMAIN frames' :
                   frames'[k].at # "kill" \/ \E j \in DOMAIN frames : frames'[k] = frames[j]
      <4>1. [sig |-> s, at |-> "start", pid |-> 0, status |-> "none"] \in Frame
        BY DEF Deliverable, Frame
      <4> QED BY <3>2, <4>1, PushFrame
    <3>3. CASE frames # <<>> /\ frames' = Tail(frames)
      BY <3>3, PopFrame
    <3>4. ASSUME frames # <<>>, NEW p \in Ready,
                 frames' = [frames EXCEPT ![1] = [frames[1] EXCEPT !.at = "update", !.pid = p,
                              !.status = IF Zombie(p) THEN proc[p] ELSE "stopped"]]
          PROVE  \A k \in DOMAIN frames' :
                   frames'[k].at # "kill" \/ \E j \in DOMAIN frames : frames'[k] = frames[j]
      <4> DEFINE f == [frames[1] EXCEPT !.at = "update", !.pid = p,
                         !.status = IF Zombie(p) THEN proc[p] ELSE "stopped"]
      <4>1. frames[1] \in Frame
        BY <3>4, PopFrame
      <4>2. f \in Frame /\ f.at # "kill"
        BY <4>1 DEF Frame, Zombie, Ready
      <4> HIDE DEF f
      <4>3. frames' = [frames EXCEPT ![1] = f]
        BY <3>4 DEF f
      <4> QED BY <3>4, <4>2, <4>3, SetFrame
    <3>5. CASE /\ frames # <<>>
               /\ frames' = [frames EXCEPT ![1] = [frames[1] EXCEPT !.at = "kill", !.pid = fgpid(jobs)]]
      <4> DEFINE f == [frames[1] EXCEPT !.at = "kill", !.pid = fgpid(jobs)]
      <4>1. frames[1] \in Frame
        BY <3>5, PopFrame
      <4>2. f \in Frame /\ f.pid = fgpid(jobs)
        BY <4>1, FgpidType DEF Frame
      <4> HIDE DEF f
      <4>3. frames' = [frames EXCEPT ![1] = f]
        BY <3>5 DEF f
      <4> QED BY <3>5, <4>2, <4>3, SetFrame
    <3> QED BY <1>3, <3>1, <3>2, <3>3, <3>4, <3>5, EnvironmentFrames
  <2>3. ASSUME NEW i \in Slots, jobs[i].pid # 0, jobs[i].pid = fgpid(jobs)
        PROVE  jobs[i].state # BG
    <3>1. \A j \in Foreground(jobs) : j \in Slots /\ jobs[j].state = FG
      BY DEF Foreground
    <3>2. \E j \in Foreground(jobs) : jobs[j].pid = jobs[i].pid
      BY <2>3, Fgpid_Spec
    <3>3. i \in Foreground(jobs)
      BY <2>3, <3>1, <3>2 DEF JobsAreChildren
    <3> QED BY <3>1, <3>3 DEF FG, BG
  <2> QED BY <2>1, <2>2, <2>3 DEF HeldInv
<1> QED BY <1>1, <1>2, <1>3

\* What is in caught belongs to children that have not reached execve.
LEMMA CaughtStep ==
  ASSUME TypeOK, CaughtInv, Command \/ MainStep \/ ChldUpdate \/ Environment
  PROVE  CaughtInv'
<1> USE DEF TypeOK, CaughtInv, kernel
<1> DEFINE Before(ps) == ps \in {"forked", "handling", "grouped"}
<1>1. ASSUME caught' = caught, \A p \in Pids : Before(proc[p]) => Before(proc'[p])
      PROVE  CaughtInv'
  BY <1>1
<1>2. CASE Command \/ MainStep \/ ChldUpdate \/ ChldWait \/ FwdFgpid \/ \E s \in Signals : Deliver(s)
  <2>1. caught' = caught
    BY <1>2 DEF Command, EvalFork, EvalForkFails, Fork, Quit, BgfgLookup, MainStep, EvalAdd,
                EvalUnblock, BgfgSetState, BgfgCont, BgfgCallWait, WaitFgpid, WaitJob, WaitTest,
                WaitSleep, ChldUpdate, ChldWait, FwdFgpid, Deliver
  <2>2. \/ proc' = proc
        \/ \E p \in Pids : ~Before(proc[p]) /\ \E c : proc' = [proc EXCEPT ![p] = c]
    <3>1. CASE Command \/ (MainStep /\ ~BgfgCont)
      BY <3>1 DEF Command, EvalFork, EvalForkFails, Fork, Quit, BgfgLookup, MainStep, EvalAdd,
                  EvalUnblock, BgfgSetState, BgfgCallWait, WaitFgpid, WaitJob, WaitTest, WaitSleep
    <3>2. CASE BgfgCont
      BY <3>2 DEF BgfgCont, Stopped
    <3>3. CASE ChldWait
      <4>1. \/ proc' = proc
            \/ \E p \in Ready : proc' = [proc EXCEPT ![p] = IF Zombie(p) THEN "none" ELSE proc[p]]
        BY <3>3 DEF ChldWait
      <4> QED BY <4>1 DEF Ready, Zombie
    <3>4. CASE ChldUpdate \/ FwdFgpid \/ \E s \in Signals : Deliver(s)
      BY <3>4 DEF ChldUpdate, FwdFgpid, Deliver
    <3> QED BY <1>2, <3>1, <3>2, <3>3, <3>4
  <2> QED BY <1>1, <2>1, <2>2
<1>3. ASSUME NEW sig, SignalShellGroup(sig),
             proc' = proc \/ \E p \in ShellGroup : proc' = [proc EXCEPT ![p] = "handling"]
      PROVE  CaughtInv'
  <2>1. \A p \in Pids : Before(proc[p]) => Before(proc'[p])
    BY <1>3 DEF ShellGroup
  <2>2. \A p \in Pids : caught'[p] # {} => Before(proc[p])
    BY <1>3 DEF SignalShellGroup, ShellGroup
  <2> QED BY <2>1, <2>2
<1>4. CASE FwdKill
  <2>1. PICK sig \in {"SIGINT", "SIGTSTP"} :
          \/ SignalShellGroup(sig) /\ UNCHANGED kernel
          \/ frames[1].pid \in Pids /\ SignalJob(frames[1].pid, sig)
    BY <1>4, FwdKillCases
  <2>2. CASE SignalShellGroup(sig) /\ UNCHANGED kernel
    BY <1>3, <2>2
  <2>3. CASE frames[1].pid \in Pids /\ SignalJob(frames[1].pid, sig)
    <3>1. \A ps \in {"forked", "handling", "grouped"} : AfterSignal(ps, sig) = ps
      BY DEF AfterSignal
    <3>2. \A p \in Pids : Before(proc[p]) => Before(proc'[p])
      BY <2>3, <3>1 DEF SignalJob
    <3>3. \A p \in Pids : caught'[p] # {} => Before(proc[p])
      BY <2>3 DEF SignalJob
    <3> QED BY <3>2, <3>3
  <2> QED BY <2>1, <2>2, <2>3
<1>5. ASSUME NEW s \in KeySigs, KeySignal(s)
      PROVE  CaughtInv'
  BY <1>3, <1>5 DEF KeySignal
<1>6. ASSUME NEW p \in Pids, Child(p)
      PROVE  CaughtInv'
  <2>1. ASSUME NEW sig, ChildCatches(p, sig)
        PROVE  CaughtInv'
    BY <1>3, <2>1 DEF ChildCatches
  <2>2. CASE ChildSetpgid(p) \/ ChildExec(p)
    BY <2>2 DEF ChildSetpgid, ChildExec
  <2>3. CASE ChildExit(p) \/ ChildKilled(p) \/ ChildStops(p)
    BY <2>3 DEF ChildExit, ChildKilled, ChildStops, ChildChange
  <2> QED BY <1>6, <2>1, <2>2, <2>3 DEF Child
<1> QED BY <1>2, <1>4, <1>5, <1>6 DEF Environment
-----------------------------------------------------------------------------
(* No child is forgotten                                                   *)

\* A process ID that is free stays free while a handler runs.
LEMMA FreeStaysFree ==
  ASSUME TypeOK, Environment, NEW q \in Pids, proc[q] = "none"
  PROVE  proc'[q] = "none"
<1> USE DEF TypeOK, kernel
<1>1. CASE ChldWait
  BY <1>1 DEF ChldWait
<1>2. CASE FwdKill
  <2>1. \A sig : AfterSignal("none", sig) = "none"
    BY DEF AfterSignal
  <2>2. proc' = proc \/ \E p, sig : proc' = [proc EXCEPT ![p] = AfterSignal(proc[p], sig)]
    BY <1>2 DEF FwdKill, SignalJob
  <2> QED BY <2>1, <2>2
<1>3. CASE FwdFgpid
  BY <1>3 DEF FwdFgpid
<1>4. ASSUME NEW s \in Signals, Deliver(s)
      PROVE  proc' = proc
  BY <1>4 DEF Deliver
<1>5. ASSUME NEW s \in KeySigs, KeySignal(s)
      PROVE  proc' = proc
  BY <1>5 DEF KeySignal
<1>6. ASSUME NEW p \in Pids, Child(p)
      PROVE  proc'[q] = "none"
  BY <1>6, ChildFacts
<1> QED BY <1>1, <1>2, <1>3, <1>4, <1>5, <1>6 DEF Environment

\* What sigchld_handler holds between waitpid and the job list stays true.
LEMMA ReapedStep ==
  ASSUME TypeOK, FramesInv, StopInv, ReapedInv, Command \/ MainStep \/ ChldUpdate \/ Environment
  PROVE  ReapedInv'
<1> USE DEF TypeOK
<1>1. CASE Command \/ MainStep
  BY <1>1, MainAlone DEF ReapedInv
<1>2. CASE ChldUpdate
  <2>1. frames' = frames \/ (frames # <<>> /\ frames' = Tail(frames))
    BY <1>2, ChldUpdateTable DEF table
  <2>2. proc' = proc
    BY <1>2 DEF ChldUpdate, kernel
  <2>3. CASE frames' = frames
    BY <2>2, <2>3 DEF ReapedInv
  <2>4. CASE frames # <<>> /\ frames' = Tail(frames)
    BY <2>2, <2>4, PopFrame DEF ReapedInv
  <2> QED BY <2>1, <2>3, <2>4
<1>3. CASE Environment
  <2> DEFINE Freed(f) == f.at = "update" /\ f.status # "stopped" => proc'[f.pid] = "none"
  <2>1. \A k \in DOMAIN frames : Freed(frames[k])
    <3>1. SUFFICES ASSUME NEW k \in DOMAIN frames, frames[k].at = "update",
                          frames[k].status # "stopped"
                   PROVE  proc'[frames[k].pid] = "none"
      OBVIOUS
    <3>2. frames[k].pid \in Pids /\ proc[frames[k].pid] = "none"
      BY <3>1 DEF FramesInv, ReapedInv
    <3> QED BY <1>3, <3>2, FreeStaysFree
  <2>2. CASE frames' = frames
    BY <2>1, <2>2 DEF ReapedInv
  <2>3. ASSUME NEW s \in Deliverable,
               frames' = <<[sig |-> s, at |-> "start", pid |-> 0, status |-> "none"]>> \o frames
        PROVE  ReapedInv'
    <3> DEFINE f == [sig |-> s, at |-> "start", pid |-> 0, status |-> "none"]
    <3>1. f \in Frame /\ f.at = "start"
      BY DEF Deliverable, Frame
    <3> HIDE DEF f
    <3>2. frames' = <<f>> \o frames
      BY <2>3 DEF f
    <3>3. \A k \in DOMAIN frames' : frames'[k].at # "start" =>
            \E j \in DOMAIN frames : frames'[k] = frames[j]
      BY <3>1, <3>2, PushFrame
    <3> QED BY <2>1, <3>3 DEF ReapedInv
  <2>4. CASE frames # <<>> /\ frames' = Tail(frames)
    BY <2>1, <2>4, PopFrame DEF ReapedInv
  <2>5. ASSUME ChldWait, frames # <<>>, NEW p \in Ready,
               frames' = [frames EXCEPT ![1] = [frames[1] EXCEPT !.at = "update", !.pid = p,
                            !.status = IF Zombie(p) THEN proc[p] ELSE "stopped"]]
        PROVE  ReapedInv'
    <3> DEFINE f == [frames[1] EXCEPT !.at = "update", !.pid = p,
                       !.status = IF Zombie(p) THEN proc[p] ELSE "stopped"]
    <3>1. p \in Pids /\ frames[1] \in Frame
      BY <2>5, PopFrame DEF Ready
    <3>2. f \in Frame /\ f.pid = p /\ (f.status # "stopped" => Zombie(p))
      BY <3>1 DEF Frame, Zombie
    <3> HIDE DEF f
    <3>3. frames' = [frames EXCEPT ![1] = f]
      BY <2>5 DEF f
    <3>4. Zombie(p) => proc'[p] = "none"
      <4>1. Ready # {}
        BY <2>5
      <4>2. PICK q \in Ready :
              /\ frames' = [frames EXCEPT ![1] = [frames[1] EXCEPT !.at = "update", !.pid = q,
                               !.status = IF Zombie(q) THEN proc[q] ELSE "stopped"]]
              /\ proc' = [proc EXCEPT ![q] = IF Zombie(q) THEN "none" ELSE proc[q]]
        BY <2>5, <4>1 DEF ChldWait
      <4> DEFINE g == [frames[1] EXCEPT !.at = "update", !.pid = q,
                         !.status = IF Zombie(q) THEN proc[q] ELSE "stopped"]
      <4>3. g \in Frame /\ g.pid = q
        BY <3>1 DEF Frame, Zombie, Ready
      <4> HIDE DEF g
      <4>4. frames' = [frames EXCEPT ![1] = g]
        BY <4>2 DEF g
      <4>5. frames'[1] = g /\ frames'[1] = f
        BY <2>5, <3>2, <3>3, <4>3, <4>4, SetFrame, PopFrame
      <4>6. p = q
        BY <3>2, <4>3, <4>5
      <4> QED BY <3>1, <4>2, <4>6
    <3>5. Freed(f)
      BY <3>2, <3>4
    <3>6. /\ DOMAIN frames' = DOMAIN frames
          /\ \A k \in DOMAIN frames' : frames'[k] = f \/ frames'[k] = frames[k]
      BY <2>5, <3>2, <3>3, SetFrame
    <3>7. \A k \in DOMAIN frames' : Freed(frames'[k])
      BY <2>1, <3>5, <3>6
    <3> QED BY <3>7 DEF ReapedInv
  <2>6. CASE FwdFgpid /\ frames # <<>> /\
             frames' = [frames EXCEPT ![1] = [frames[1] EXCEPT !.at = "kill", !.pid = fgpid(jobs)]]
    <3> DEFINE f == [frames[1] EXCEPT !.at = "kill", !.pid = fgpid(jobs)]
    <3>1. f \in Frame /\ f.at = "kill"
      <4>1. frames[1] \in Frame
        BY <2>6, PopFrame
      <4> QED BY <4>1, FgpidType DEF Frame
    <3> HIDE DEF f
    <3>2. frames' = [frames EXCEPT ![1] = f]
      BY <2>6 DEF f
    <3>3. /\ DOMAIN frames' = DOMAIN frames
          /\ \A k \in DOMAIN frames' : frames'[k] = f \/ frames'[k] = frames[k]
      BY <2>6, <3>1, <3>2, SetFrame
    <3> QED BY <2>1, <3>1, <3>3 DEF ReapedInv
  <2> QED BY <1>3, <2>2, <2>3, <2>4, <2>5, <2>6, EnvironmentFrames
<1> QED BY <1>1, <1>2, <1>3

\* A child that is not listed leaves a slot free, in a list with a slot for
\* every process.
LEMMA SlotLeft ==
  ASSUME TypeOK, JobsAreChildren, IsFiniteSet(Pids), Cardinality(Pids) <= MAXJOBS,
         NEW q \in Pids, \A i \in Slots : jobs[i].pid # q
  PROVE  \E i \in Slots : jobs[i].pid = 0
<1>1. SUFFICES ASSUME \A i \in Slots : jobs[i].pid # 0
               PROVE  FALSE
  OBVIOUS
<1> DEFINE f == [i \in Slots |-> jobs[i].pid]
           Others == Pids \ {q}
<1>2. f \in [Slots -> Others]
  BY <1>1 DEF TypeOK, JobSlot
<1>3. f \in Injection(Slots, Others)
  BY <1>1, <1>2 DEF JobsAreChildren, Injection, IsInjective
<1>4. IsFiniteSet(Others) /\ Cardinality(Others) = Cardinality(Pids) - 1
  BY FS_RemoveElement
<1>5. Cardinality(Slots) = MAXJOBS
  BY FS_Interval, MaxJobsAssumption DEF Slots
<1>6. Cardinality(Slots) <= Cardinality(Others)
  <2> HIDE DEF f, Others
  <2> QED BY <1>3, <1>4, FS_Injection
<1>7. Cardinality(Pids) \in Nat
  BY FS_CardinalityType
<1> HIDE DEF Others
<1> QED BY <1>4, <1>5, <1>6, <1>7, MaxJobsAssumption

\* A child stays in the list from addjob until the handler that reaped it
\* deletes its job.
LEMMA ListedStep ==
  ASSUME TypeOK, FramesInv, ReapedInv, ForkInv, JobsAreChildren, ChildrenAreJobs,
         Command \/ MainStep \/ ChldUpdate \/ Environment
  PROVE  ChildrenAreJobs'
<1> USE DEF TypeOK, table, kernel
<1>1. SUFFICES ASSUME IsFiniteSet(Pids), Cardinality(Pids) <= MAXJOBS,
                      NEW p \in Pids, proc'[p] # "none"
               PROVE  \/ \E i \in Slots : jobs'[i].pid = p
                      \/ pc' = "add" /\ pid' = p
  BY DEF ChildrenAreJobs
<1> DEFINE Known == (\E i \in Slots : jobs[i].pid = p) \/ (pc = "add" /\ pid = p)
<1>2. proc[p] # "none" => Known
  BY <1>1 DEF ChildrenAreJobs
<1>3. CASE EvalAdd
  <2>1. proc' = proc /\ pc = "add"
    BY <1>3 DEF EvalAdd
  <2>2. pid \in Int
    BY PidFacts
  <2>3. CASE pid # p
    <3>1. PICK i \in Slots : jobs[i].pid = p
      BY <1>1, <1>2, <2>1, <2>3
    <3>2. jobs' = jobs \/ \E f \in Slots : /\ jobs[f].pid = 0
               /\ jobs' = [jobs EXCEPT ![f] = [pid |-> pid, jid |-> nextjid, state |-> mode]]
      BY <1>3, <2>2, AddJob_Spec DEF EvalAdd
    <3>3. jobs'[i] = jobs[i]
      BY <3>1, <3>2, PidFacts
    <3> QED BY <3>1, <3>3
  <2>4. CASE pid = p
    <3>1. \A i \in Slots : jobs[i].pid # p
      BY <2>1, <2>4 DEF ForkInv
    <3>2. \E i \in Slots : jobs[i].pid = 0
      BY <1>1, <3>1, SlotLeft
    <3>3. pid >= 1
      BY <2>4, PidFacts
    <3>4. PICK f \in Slots :
            jobs' = [jobs EXCEPT ![f] = [pid |-> pid, jid |-> nextjid, state |-> mode]]
      BY <1>3, <2>2, <3>2, <3>3, AddJob_Spec DEF EvalAdd
    <3>5. jobs'[f].pid = p
      BY <2>4, <3>4
    <3> QED BY <3>5
  <2> QED BY <2>3, <2>4
<1>4. ASSUME NEW bg \in {FG, BG}, NEW q \in Pids, EvalFork(bg, q)
      PROVE  (\E i \in Slots : jobs'[i].pid = p) \/ (pc' = "add" /\ pid' = p)
  <2>1. /\ pc = "read" /\ pc' = "add" /\ pid' = q /\ jobs' = jobs
        /\ \A r \in Pids : r # q => proc'[r] = proc[r]
    BY <1>4 DEF EvalFork, Fork
  <2> QED BY <1>1, <1>2, <2>1
<1>5. CASE (Command \/ MainStep) /\ ~EvalAdd /\ ~(\E bg \in {FG, BG}, q \in Pids : EvalFork(bg, q))
  <2>1. /\ pc # "add"
        /\ proc' = proc \/ \E q \in Pids : proc[q] # "none" /\ \A r \in Pids : r # q => proc'[r] = proc[r]
    BY <1>5 DEF Command, EvalForkFails, Fork, Quit, BgfgLookup, MainStep, EvalUnblock,
                BgfgSetState, BgfgCont, BgfgCallWait, WaitFgpid, WaitJob, WaitTest, WaitSleep,
                Stopped
  <2>2. \A i \in Slots : jobs'[i].pid = jobs[i].pid
    <3>1. CASE BgfgSetState
      BY <3>1 DEF BgfgSetState, JobSlot
    <3>2. CASE ~BgfgSetState
      BY <1>5, <3>2 DEF Command, EvalForkFails, Fork, Quit, BgfgLookup, MainStep, EvalUnblock,
                        BgfgCont, BgfgCallWait, WaitFgpid, WaitJob, WaitTest, WaitSleep
    <3> QED BY <3>1, <3>2
  <2>3. proc[p] # "none"
    BY <1>1, <2>1
  <2> QED BY <1>2, <2>1, <2>2, <2>3
<1>6. CASE ChldUpdate
  <2>1. proc' = proc
    BY <1>6 DEF ChldUpdate
  <2>2. /\ frames # <<>> /\ frames[1].at = "update" /\ frames[1].sig = "SIGCHLD"
        /\ 1 \in DOMAIN frames
    BY <1>6, ChldUpdateTable, PopFrame DEF FramesInv
  <2>3. pc # "add"
    BY <2>2 DEF ForkInv
  <2>4. PICK i \in Slots : jobs[i].pid = p
    BY <1>1, <1>2, <2>1, <2>3
  <2>5. CASE jobs' = jobs
    BY <2>4, <2>5
  <2>6. ASSUME NEW s \in Slots, jobs' = [jobs EXCEPT ![s].state = ST]
        PROVE  jobs'[i].pid = p
    BY <2>4, <2>6 DEF JobSlot
  <2>7. ASSUME frames[1].status # "stopped", NEW s \in Slots, jobs[s].pid = frames[1].pid,
               jobs' = [jobs EXCEPT ![s] = EmptyJob]
        PROVE  jobs'[i].pid = p
    <3>1. proc[frames[1].pid] = "none"
      BY <2>2, <2>7 DEF ReapedInv
    <3>2. s # i
      BY <1>1, <2>1, <2>4, <2>7, <3>1
    <3> QED BY <2>4, <2>7, <3>2
  <2> QED BY <1>6, <2>4, <2>5, <2>6, <2>7, ChldUpdateTable
<1>7. CASE Environment
  <2>1. jobs' = jobs /\ pc' = pc /\ pid' = pid
    BY <1>7, EnvironmentTable
  <2>2. proc[p] # "none"
    BY <1>1, <1>7, FreeStaysFree
  <2> QED BY <1>2, <2>1, <2>2
<1> QED BY <1>3, <1>4, <1>5, <1>6, <1>7
-----------------------------------------------------------------------------
(* The theorems                                                            *)

LEMMA InitIInv == Init => IInv
<1> SUFFICES ASSUME Init PROVE IInv
  OBVIOUS
<1>1. TypeOK
  BY TypeInit
<1>2. \A i \in Slots : jobs[i].pid = 0 /\ jobs[i].state = UNDEF
  BY DEF Init, initjobs, EmptyJob
<1>3. Foreground(jobs) = {}
  BY <1>2 DEF Foreground, FG, UNDEF
<1>4. FramesInv /\ ReapedInv /\ StopInv /\ ForkInv /\ ChildrenAreJobs /\ HeldInv /\ CaughtInv
  BY DEF Init, FramesInv, ReapedInv, StopInv, ChildrenAreJobs, ForkInv, HeldInv, CaughtInv
<1>5. SlotsInv /\ ForegroundInv /\ AtMostOneFG /\ JobsAreChildren
  BY <1>2, <1>3 DEF SlotsInv, ForegroundInv, AtMostOneFG, JobsAreChildren
<1> QED BY <1>1, <1>4, <1>5 DEF IInv

LEMMA NextCases ==
  Next <=> Command \/ MainStep \/ ChldUpdate \/ Environment
BY DEF Next, HandlerStep, Environment

LEMMA StutterIInv == IInv /\ UNCHANGED vars => IInv'
BY DEF IInv, vars, table, main, locals, kernel, TypeOK, FramesInv, ReapedInv, StopInv, ForkInv,
       SlotsInv, ForegroundInv, AtMostOneFG, JobsAreChildren, ChildrenAreJobs, HeldInv, CaughtInv,
       Stopped, Foreground,
       Frame, JobSlot

LEMMA NextIInv == IInv /\ Next => IInv'
<1> SUFFICES ASSUME IInv, Next PROVE IInv'
  OBVIOUS
<1>1. Command \/ MainStep \/ ChldUpdate \/ Environment
  BY NextCases
<1>2. TypeOK'
  BY TypeMain, TypeHandlers DEF IInv, Next
<1>3. FramesInv'
  BY <1>1, FramesStep DEF IInv
<1>4. StopInv'
  BY <1>1, StopStep DEF IInv, HandlerStep
<1>5. ForkInv'
  BY <1>1, ForkStep DEF IInv
<1>6. SlotsInv'
  BY <1>1, SlotsStep DEF IInv
<1>7. ForegroundInv' /\ AtMostOneFG'
  BY <1>1, ForegroundStep DEF IInv
<1>8. JobsAreChildren'
  BY <1>1, ChildrenStep DEF IInv
<1>9. HeldInv'
  BY <1>1, HeldStep DEF IInv
<1>10. ReapedInv'
  BY <1>1, ReapedStep DEF IInv
<1>11. ChildrenAreJobs'
  BY <1>1, ListedStep DEF IInv
<1>12. CaughtInv'
  BY <1>1, CaughtStep DEF IInv
<1> QED BY <1>2, <1>3, <1>4, <1>5, <1>6, <1>7, <1>8, <1>9, <1>10, <1>11, <1>12 DEF IInv

\* The invariant holds in every state of the shell.
THEOREM Invariance == Spec => []IInv
<1>1. IInv /\ [Next]_vars => IInv'
  BY NextIInv, StutterIInv
<1> QED BY InitIInv, <1>1, PTL DEF Spec

\* Every variable keeps its type.
THEOREM TypeCorrect == Spec => []TypeOK
<1>1. IInv => TypeOK
  BY DEF IInv
<1> QED BY Invariance, <1>1, PTL

\* jobs.h: at most one job is in the FG state.
THEOREM OneForegroundJob == Spec => []AtMostOneFG
<1>1. IInv => AtMostOneFG
  BY DEF IInv
<1> QED BY Invariance, <1>1, PTL

\* The prompt returns only when no job is in the foreground.
THEOREM PromptCorrect == Spec => []PromptMeansNoForeground
<1>1. IInv => PromptMeansNoForeground
  BY DEF IInv, ForegroundInv, PromptMeansNoForeground
<1> QED BY Invariance, <1>1, PTL

\* The list holds every process at most once, and children only.
THEOREM ListCorrect == Spec => []JobsAreChildren
<1>1. IInv => JobsAreChildren
  BY DEF IInv
<1> QED BY Invariance, <1>1, PTL

\* No child is forgotten while the list has a slot for every process.
THEOREM ChildrenCorrect == Spec => []ChildrenAreJobs
<1>1. IInv => ChildrenAreJobs
  BY DEF IInv
<1> QED BY Invariance, <1>1, PTL

\* A key typed at the terminal, whether it comes from the terminal or from a
\* handler, reaches a background job only before the job's setpgid.
THEOREM KeysCorrect == Spec => KeysSpareBackground
<1> DEFINE Spared == \A p \in Pids : Background(p) /\ Reached(p) => p \in ShellGroup
<1>1. ASSUME IInv, Next PROVE Spared
  <2> SUFFICES ASSUME NEW p \in Pids, Background(p), Reached(p) PROVE p \in ShellGroup
    OBVIOUS
  <2> USE DEF IInv, TypeOK
  <2>1. ASSUME FwdKill, p \notin ShellGroup PROVE FALSE
    <3>1. PICK sig \in {"SIGINT", "SIGTSTP"} :
            \/ SignalShellGroup(sig) /\ UNCHANGED kernel
            \/ frames[1].pid \in Pids /\ SignalJob(frames[1].pid, sig)
      BY <1>1, <2>1, FwdKillCases
    <3>2. CASE SignalShellGroup(sig) /\ UNCHANGED kernel
      BY <2>1, <3>2 DEF Reached, SignalShellGroup, kernel
    <3>3. CASE frames[1].pid \in Pids /\ SignalJob(frames[1].pid, sig)
      <4>1. frames[1].pid = p
        BY <3>3 DEF SignalJob, Reached
      <4>2. 1 \in DOMAIN frames /\ frames[1].at = "kill"
        BY <1>1, <2>1, FwdKillCases
      <4>3. p # 0
        BY PidFacts
      <4> QED BY <1>1, <4>1, <4>2, <4>3 DEF Background, HeldInv, ForkInv
    <3> QED BY <3>1, <3>2, <3>3
  <2>2. ASSUME ~FwdKill, p \notin ShellGroup PROVE caught'[p] \subseteq caught[p]
    <3>1. ASSUME NEW sig, SignalShellGroup(sig) PROVE caught'[p] \subseteq caught[p]
      BY <1>1, <2>2, <3>1 DEF SignalShellGroup
    <3>2. ASSUME NEW s \in KeySigs, KeySignal(s) PROVE caught'[p] \subseteq caught[p]
      BY <3>1, <3>2 DEF KeySignal
    <3>3. ASSUME NEW q \in Pids, Child(q) PROVE caught'[p] \subseteq caught[p]
      <4>1. CASE \E sig \in KeySigs : ChildCatches(q, sig)
        BY <3>1, <4>1 DEF ChildCatches
      <4>2. CASE ChildSetpgid(q) \/ ChildExec(q)
        BY <4>2 DEF ChildSetpgid, ChildExec
      <4>3. CASE ChildExit(q) \/ ChildKilled(q) \/ ChildStops(q)
        BY <1>1, <4>3 DEF ChildExit, ChildKilled, ChildStops, ChildChange
      <4> QED BY <3>3, <4>1, <4>2, <4>3 DEF Child
    <3>4. CASE Command \/ MainStep \/ ChldUpdate \/ ChldWait \/ FwdFgpid
               \/ \E s \in Signals : Deliver(s)
      BY <3>4 DEF Command, EvalFork, EvalForkFails, Fork, Quit, BgfgLookup, MainStep, EvalAdd,
                  EvalUnblock, BgfgSetState, BgfgCont, BgfgCallWait, WaitFgpid, WaitJob, WaitTest,
                  WaitSleep, ChldUpdate, ChldWait, FwdFgpid, Deliver
    <3> QED BY <1>1, <2>2, <3>2, <3>3, <3>4, NextCases DEF Environment
  <2> QED BY <2>1, <2>2 DEF Reached
<1>2. ASSUME IInv, [Next]_vars PROVE [Spared]_vars
  BY <1>1, <1>2
<1> QED BY Invariance, <1>2, PTL DEF Spec, KeysSpareBackground

\* A job changes state as jobs.h lists it and for the reason it gives, except
\* that sigchld_handler also takes a background job to ST.
THEOREM TransitionsCorrect == Spec => JobTransitions
<1> DEFINE Changed(i) == jobs[i].pid # 0 /\ jobs'[i].pid = jobs[i].pid
                         /\ jobs'[i].state # jobs[i].state
           Allowed == \A i \in Slots : Changed(i) => StopReported(i) \/ Resumed(i)
<1>1. ASSUME IInv, Next PROVE Allowed
  <2> SUFFICES ASSUME NEW i \in Slots, Changed(i) PROVE StopReported(i) \/ Resumed(i)
    OBVIOUS
  <2> USE DEF IInv
  <2>1. CASE jobs' = jobs
    BY <2>1
  <2>2. CASE EvalAdd
    <3>1. pid \in Int
      BY <1>1, PidFacts DEF TypeOK
    <3>2. \/ jobs' = jobs
          \/ \E f \in Slots : /\ jobs[f].pid = 0
               /\ jobs' = [jobs EXCEPT ![f] = [pid |-> pid, jid |-> nextjid, state |-> mode]]
      BY <2>2, <3>1, AddJob_Spec DEF EvalAdd
    <3>3. jobs'[i] = jobs[i]
      BY <1>1, <3>2 DEF TypeOK
    <3> QED BY <3>3
  <2>3. CASE BgfgSetState
    <3>1. /\ pc = "setstate" /\ Foreground(jobs) = {} /\ jobp \in Slots /\ mode \in {FG, BG}
          /\ jobs' = [jobs EXCEPT ![jobp].state = mode]
      BY <1>1, <2>3 DEF BgfgSetState, ForegroundInv, TypeOK
    <3>2. jobs[i].state \in {ST, BG}
      BY <1>1, <3>1 DEF TypeOK, JobSlot, JobStates, SlotsInv, Foreground
    <3>3. i = jobp /\ jobs'[i].state = mode
      BY <1>1, <3>1 DEF TypeOK, JobSlot
    <3> QED BY <3>1, <3>2, <3>3 DEF Resumed
  <2>4. CASE ChldUpdate
    <3>1. frames # <<>> /\ frames[1].at = "update" /\ Head(frames) = frames[1]
      BY <1>1, <2>4, ChldUpdateTable, PopFrame DEF TypeOK
    <3>2. jobs[i].state \in {FG, BG, ST}
      BY <1>1 DEF TypeOK, JobSlot, JobStates, SlotsInv
    <3>3. PICK s \in Slots :
            /\ jobs[s].pid = frames[1].pid
            /\ \/ frames[1].status = "stopped" /\ jobs' = [jobs EXCEPT ![s].state = ST]
               \/ jobs' = [jobs EXCEPT ![s] = EmptyJob]
      BY <1>1, <2>4, ChldUpdateTable DEF table
    <3>4. CASE frames[1].status = "stopped" /\ jobs' = [jobs EXCEPT ![s].state = ST]
      <4>1. i = s /\ jobs'[i].state = ST
        BY <1>1, <3>4 DEF TypeOK, JobSlot
      <4> QED BY <3>1, <3>2, <3>3, <3>4, <4>1 DEF StopReported
    <3>5. CASE jobs' = [jobs EXCEPT ![s] = EmptyJob]
      BY <1>1, <3>5 DEF TypeOK, EmptyJob
    <3> QED BY <3>3, <3>4, <3>5
  <2>5. CASE Command \/ (MainStep /\ ~EvalAdd /\ ~BgfgSetState)
    <3>1. jobs' = jobs
      BY <2>5 DEF Command, EvalFork, EvalForkFails, Fork, Quit, BgfgLookup, MainStep, EvalUnblock,
                  BgfgCont, BgfgCallWait, WaitFgpid, WaitJob, WaitTest, WaitSleep, table
    <3> QED BY <2>1, <3>1
  <2>6. CASE Environment
    BY <1>1, <2>1, <2>6, EnvironmentTable
  <2> QED BY <1>1, <2>2, <2>3, <2>4, <2>5, <2>6, NextCases
<1>2. ASSUME IInv, [Next]_vars PROVE [Allowed]_vars
  BY <1>1, <1>2
<1> QED BY Invariance, <1>2, PTL DEF Spec, JobTransitions
=============================================================================
