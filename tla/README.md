# A verification development for the csci340 labs

The repository holds six independent programs of an operating-systems course.
This directory models the five that have a protocol worth checking: the tiny
shell (lab2), the benchmark of pipes and signals (lab3), the threaded DNS resolver
(lab4), the multilevel round-robin scheduler and its simulator (lab5), and the
paging simulator with its four pagers (lab6).  Every module is written from the C code; `PROJECT.json` maps each
definition to the lines it stands for.

Run a configuration with `tlc -config X.cfg M` (`M` is in the table of runs) and
the proofs with `tlapm M.tla` for `M` one of `JobsProof`, `ShellProof`, `IpcProof`,
`MultiLookupProof`, `SchedulerProof`, `SchedSimProof`, `PagerProof` and `PagersProof`.

## 1. Inventory

| Component | State | Operations | Interacts with | What is hard |
|---|---|---|---|---|
| lab2 `tsh.cc`: read/eval loop and handlers | program counter and locals of `eval`, `do_bgfg`, `waitfg`; SIGCHLD mask | `eval`, `quit`, `bg`, `fg`, `waitfg`, `sigchld_handler`, `sigint_handler`, `sigtstp_handler` | job list (shared with the handlers, without locks), kernel (fork, kill, waitpid, signals) | a handler runs between any two steps, handlers interrupt one another, signals do not queue, children change state at any time |
| lab2 `jobs.cc`: job list | `jobs[MAXJOBS]`, `nextjid` | `initjobs`, `addjob`, `deletejob`, `fgpid`, `getjobpid`, `getjobjid`, `maxjid` | called by the loop and the handlers | full list, IDs that wrap, pointers into slots that are cleared meanwhile |
| lab4 `queue.c` | circular buffer `array`, `front`, `rear`, `maxSize` | `queue_init`, `queue_push`, `queue_pop`, `queue_is_empty`, `queue_is_full`, `queue_cleanup` | called by every thread | NULL is both a payload and a free slot |
| lab4 `multi-lookup.c` | two semaphores, two mutexes, one local buffer per thread, output file | `requester_thread`, `resolver_thread`, `main` | the queue, the output file, `dns_lookup` | lost or doubled lines, mixed output lines, ending every thread |
| lab5 `schedule.cc` | per level a doubly linked list with `curr`, `head`, `tail`; `current` | `init`, `addProcess`, `removeProcess`, `nextProcess`, `hasProcess` | called by `sim.cc` | unlinking the node `curr` points to, dangling tail, the search for the next level |
| lab5 `sim.cc` | work left per process, quantum | `main` | the scheduler | removal of the running process after the scheduler has moved on |
| lab6 `simulator.c` | per slot a process: pc, page states, branch contexts; `pagesavail`; job queue | `allinit`, `allstep`, `allage`, `pagein`, `pageout`, process load/unload/branch | calls the pager each tick, which calls `pagein` and `pageout` | frames counted in four places, pages in transit when a process ends |
| lab6 `pager-lru.c` | timestamps per slot and page | `pageit` | the simulator | timestamps outlive processes, no frame free, progress |
| lab6 `pager-basic.c` | none | `pageit` | the simulator | `pageout` says yes to pages that are out already |
| lab6 `pager-predict.c` | timestamps, transition matrices | `pageit` | the simulator | pages brought in by prediction cannot be swapped out yet; page states copied before the calls |
| lab6 `api-test.c` | what move is on its way, how many were made | `pageit` | the simulator | |
| lab3 `ipc.cc` | `state` of each process, counters and times | ping-pong by pipes or signals, `sigusr1_handler`, `sigusr2_handler`, `sigint_handler` | a forked child, the kernel | signals do not queue, `state` is copied by `fork` and written by two handlers and the loop, a busy wait, ctrl-c |
| lab1 `pagefault.c` | none | prints a kernel counter | kernel | nothing |
| lab2 `my*.cc`, `sdriver.pl`; lab4 `lookup.c`, `util.c`, `pthread-hello.c`, `queueTest.c` | none that lasts | test programs, sequential lookup, a `getaddrinfo` wrapper | | |

What makes each of them correct:

* **Shell.** At most one foreground job; no prompt while there is one; every job is
  a child that is not reaped and every child is a job; keys do not reach a
  background job (they do before its `setpgid`, section 4); a job changes state only as `jobs.h`
  says (and from BG to ST, section 4); `waitfg` returns once its process is dead or stopped; every zombie is reaped; no NULL pointer is used.
* **Benchmark.** Each trip is asked for, answered and counted once and in turn, through pipes
  and by signals; no signal is sent while one of its kind is pending; both processes end.
* **multi-lookup.** Every line of a file that can be opened is printed once, whole; a push never
  finds the queue full; resolvers leave only when nothing is left; everything ends.
* **Scheduler.** The lists stay lists, nodes are neither leaked nor used after `free`,
  and the whole is a round robin over levels and over the members of a level.
* **Paging.** Frames are neither lost nor given out twice; the LRU pager evicts the least
  recently used page; every process comes to its end, whichever pager is linked.

The hazards of the code, each at its line and with the properties that watch it, are
in `PROJECT.json`.

## 2. Modules and how they correspond to the code

```
Jobs <- Shell <- MCShell            Queue <- MultiLookup <- MCMultiLookup
 ^        ^                                   |    ^
JobsProof <- ShellProof           LookupService    MultiLookupProof
                                   (refinement)

Scheduler <- MCScheduler <- SchedulerProof       PingPong  (refinement)
    |     <- SchedSim <- MCSchedSim    ^             |
    |           ^------------- SchedSimProof        Ipc <- IpcProof
RoundRobin   (refinement)

Simulator <- PagerAny <- PagerProof <---------.
          <- PagerBasic <---------------------+- PagersProof
          <- PagerLoop <- PagerLRU <----------+   (and MCPagers, which
                       <- PagerPredict <------+    extends the four pagers)
          <- PagerTest <----------------------'
```

**Jobs** has one operator for each function of `jobs.cc` over the table; a pointer is
a slot number, NULL is `NoSlot`.  `FirstSlot` is the loop that returns at the first hit.

**Shell** is one thread with a stack `frames` of running handlers.  Every action of the
loop is a piece of `eval`, `do_bgfg` or `waitfg` between two points where a handler can
run and make a difference: each call of the job list, each system call, each read of
a shared slot.  A call of the job list is one step (the handlers' effects in the middle
of a `for` loop over the table are not modelled).  `Signal()` installs handlers with an
empty mask, so a handler is interrupted by any signal but its own (`Deliverable`), and a
pending signal is delivered before the interrupted code goes on (`MainRuns`).  Pending
signals are a set: two SIGCHLDs are one.  `proc` and `stopReport` are what the kernel
tells `waitpid`; the children exit, are killed or stop at any time, and a process ID can
be used again once it is reaped.  SIGCONT from elsewhere than the shell is left out.

A child starts as a copy of the shell.  Until `setpgid` it is `forked`, a member of the shell's
process group (`ShellGroup`), which gets what the terminal sends and what `kill(0, sig)` sends;
a signal for the child's own group finds none and is lost.  Then it is `grouped`, and with
`execve` it is `running`.  Before `execve` it has the handlers of the shell: `caught` are the signals
that they get.  A handler of a `forked` child sends the signal to the whole group, itself
included, and handles it for ever (`ChildCatches`, `handling`); in a `grouped` child it does the
same to the child alone, which then does not come to `ChildExec`.  Such a child ends only by a
signal from elsewhere.

Delivery is immediate in the model.  A kernel that delivers a little later behaves as if the
child had changed a little later, as the loop reads nothing of the children; the one
exception, a stop that SIGCONT ends before its SIGCHLD arrives, leaves a handler that
finds nothing to report.

**Queue** has one operator for each function of `queue.c`.  **MultiLookup** has one action
for each semaphore, mutex or queue call of the threads; `Producer(p)` is the sequence
that a requester and `main` share.  `queue_pop` takes two steps, so that the mutex
matters.  `Contents` is what the buffer means: the payloads in front of the first NULL, from
`front` on (`Slot`).  A host is the pair of its file and line.  **LookupService** is the abstract
service: lines are accepted into a bounded first-in-first-out buffer, resolved, and printed once.
A file is opened or skipped as a whole before its first line is accepted, and nothing else loses a line.
Its `Safety` is what may happen, its `Spec` adds that something does as long as a line is left.

**Scheduler** keeps the linked lists as they are in memory: `node` is the content of each
address, `levels` the three pointers of a level.  Each function is one action, as the
program is sequential, with one operator for each way of unlinking a node.  When the search
of `nextProcess` leaves the array (`nextProcessBeyond`) the run ends in `undefined`: what
is read there is no value of the program.  **RoundRobin** is what the scheduler promises,
in sequences.  `WalkFrom` follows `next` as the loop of `find_node` does; `Members` and `Turns` read
the abstract lists and marks off the pointers for the refinement.  **SchedSim** is `sim.cc`, with its own numbers, on top of the scheduler.

**Simulator** is the tick of `simulator.c`, split into the steps of its loops over the
processes.  The outcomes of random numbers (the job order, the branch contexts) are
nondeterministic choices.  Page states keep the code's encoding: 0 is in memory,
positive is coming in, negative is going out, `Out` is out.  **PagerAny** is a pager that
makes any calls in any order, so that what holds for it holds for every pager of the
lab.  The other modules are the `pageit` of one pager each.

* **PagerBasic** does all its work for the first active process; the search for a victim ends
  at the first page for which `pageout` says yes, be it one that is out already.
* **PagerLoop** holds what the next two share: the loop over the slots, one action each, and
  the timestamps.  Only the order of the timestamps of a slot matters, so `stamped[s]` lists
  its stamped pages, the oldest first, and the page with the least timestamp among those that may
go is the first of the `Others` (`Oldest`).  **PagerLRU** is `pager-lru.c`.
* **PagerPredict** has two actions for a slot: one gets the page the process needs, one
  brings in a predicted page.  The prediction is any page: the argmax over a power of a
  floating-point matrix is not modelled, and what holds for any page holds for that one.  `q`, the
  copy of the page states that `callyou` makes, is told from the simulator's own: it
  still shows a page that the first action sent out (`Shown`).  The LRU order of
  this pager is that of the timestamps, which pages brought in by prediction do not
  have until their process runs on them; they are not candidates, whatever the comment at
  `pager-predict.c:60` says of LRU.
* **PagerTest** is `api-test.c`, which moves one page to and fro and then ends the program.

**Ipc** is both processes of `ipc.cc` in both modes.  Its actions are the pieces of `main`
between two accesses to what is shared: the pipes, the pending signals, `state`.  Each process has its own
`state`; the child's is the copy that `fork` makes.  A signal is pending from `kill`
to its handler, which runs at any time later, and two of a kind are one.  `sigusr2_handler`
takes two steps, so that its `kill` can come late; `sigint_handler` may run between them.
`Signal()` sets SA_RESTART, so that a handler does not end `read` or `wait` early.  A trip is
counted where its time is added to `tripTime` (`Measure`): the child adds one more
than `numtests`, the leg that ends with the quit message, but divides by `numtests` as
the parent does.  A ctrl-c goes to both processes.  One before `fork` gives the child a `state` of 0.
**PingPong** is what the benchmark promises: trips that are asked for, answered and counted in
turn, a child that leaves when all are counted, a parent that ends after it.  It allows a trip
without an answer, or an early leave, only after a ctrl-c that disturbs the signals.

## 3. Runs

| Run | Module | What it shows |
|---|---|---|
| `shell_safety` | MCShell | With two children, two slots and one key: the type invariant, `AtMostOneFG`, `PromptMeansNoForeground`, `JobsAreChildren`, `ChildrenAreJobs`, the inductive invariant `IInv`, and the action properties `KeysSpareBackground` and `JobTransitions`, hold over all 1 024 162 states |
| `shell_liveness` | MCShell | With one child, so that no SIGCHLD stands for two: a dead child is reaped, a stop is recorded, and `waitfg` returns |
| `shell_zombie` | MCShell | Violation of `AllZombiesReaped` |
| `shell_crash` | MCShell | Violation of `NoNullDereference` |
| `shell_ctrlc` | MCShell | Violation of `HandlersEnd` |
| `shell_stale` | MCShell | Violation of `StoppedMeansStopped` |
| `multi_lookup` | MCMultiLookup | Safety, termination and the refinement of LookupService |
| `sched` | MCScheduler | The lists are well formed, nodes are owned by one list, nobody is overtaken, and the pointers implement RoundRobin |
| `sched_oob` | Scheduler | Violation of `NextProcessReturns` |
| `sched_sim` | MCSchedSim | `sim.cc` shares time fairly within a level and every process finishes |
| `pagers` | MCPagers | With each of the four pagers: frames are conserved and every process finishes; with the LRU pager resident pages are stamped and the victim is the least recently used page (414 999 states) |
| `ipc` | Ipc | The handshake has one thing on its way at a time, the benchmark implements PingPong, and it ends unless a ctrl-c lets the parent spin for a child that has left (2 614 states) |

**Bounds.**

* Shell: two children are enough for a handler to interrupt the treatment of one child
  while the other changes state, for coalesced signals and for a foreground job beside a
  background one; the proofs lift the safety properties to any number.  `MaxJid` stops
  `eval` from forking once `nextjid` has grown past it (the IDs grow with `deletejob` and the
  state space must be finite), `MaxKeys` bounds the keys that are typed; a single ctrl-c
  without a foreground job is enough for a storm, as the handler signals the shell itself.  No
  run fills the job list: three children for two slots are too many states.  The crash
  of a handler that does not find the job is in `ChldUpdate`, and the theorems hold for full lists, too.
* multi-lookup: two files of at most two lines, a queue of two places and two or three
  resolvers.  There are more end values than places, so `main` must wait while resolvers
  leave, the buffer wraps around, and NULLs meet NULLs.
* Scheduler: four nodes for two process IDs on two levels, so that a list has a head, a
  middle and a tail, a process can be on two lists or twice on one, and `calloc` can fail.
  `sched_sim` uses the numbers of the program: ten processes, 100 units, four levels.
* Paging: three slots and four jobs, so that a slot is used again with its old timestamps;
  programs of three pages with every kind of branch (a loop, an inverted loop, IF,
  GOTO) and without branches; two instructions a page, so that a process runs on within a page
  and jumps into one; two frames for the nine pages; a wait of two ticks, so that a page is seen in the middle
  of its way.  Two frames are one fewer than the pages of a process.  That is the least
  with which the basic pager makes progress: with one frame fewer, its search ends for
  ever at a page that is out already, and TLC finds `PagersFinish` violated
  (the LRU and the predictive pager still finish).  `simulator.h` has 100 frames for processes
  of 20 pages, so that the program is on the safe side.
* Benchmark: up to three trips, so that there is one with a trip before and after it, none at all,
  and two ctrl-c: one can make the child leave and the other end a trip of the parent.
  The proofs lift the safety properties to any numbers.

**Fairness.**  The shell's `Fairness` says that the kernel goes on running the shell and
delivers pending signals; nothing is assumed of the user or of the children.  `Storm`
excuses a shell that is kept from its loop for ever by its own signals, which
`shell_ctrlc` shows to be possible.  In multi-lookup each thread has weak
fairness of its own: a semaphore or a mutex that stays free lets a waiting thread go on, but
nobody is promised to win a race.  The two simulators are single threads that never wait.  The kernel runs both processes of
the benchmark and delivers what is pending (weak fairness of `Parent`, `Child` and
`Handler`); nothing is assumed of the keys.  `Handler` is one for all signals of both
processes: a run sends finitely many, so each of them is handled in the end.

**Deadlock** is checked where the system must not stop before its end, which the models of
multi-lookup, of the benchmark and of the simulators mark by a stuttering `Terminated`.  It is not checked for the
shell, which stops after `quit` or a crash, and for the scheduler, which stops after
reading beyond its array.

**History variables.**  `ahead` in MCScheduler (who ran since whom) and `used` in MCPagers
(the pages a process ran on, the last one at the end) only observe; they let `NoOvertaking` and
`EvictsLeastRecentlyUsed` be stated without the data structures they are about.

## 4. Findings

1. `sigchld_handler` reaps one child a signal, so of two children that end together one can
   stay a zombie in the job list for ever, against the comment on "all available zombie
   children" (`shell_zombie`).
2. `waitfg` reads `fgpid`, then looks the job up with SIGCHLD unblocked.  When the child ends in
   between, the pointer is NULL and is dereferenced (`shell_crash`).
3. A ctrl-c or ctrl-z without a foreground job calls `kill(-0, sig)`, which signals the
   shell's own group and so the handler itself, again and again (`shell_ctrlc`).
4. `do_bgfg` sets the state of a job before it sends SIGCONT.  A stop that is reported in
   between leaves a running job listed as stopped (`shell_stale`).
5. `nextProcess` does not wrap when it looks for a level with a process, and reads beyond
   the array when only lower levels have one (`sched_oob`).  With the priorities
   of `sim.cc` this does not happen (`sched_sim`, `Finishes`): the highest level empties last.

Two more disagreements have no run of their own; the properties that hold name them as exceptions.

6. `eval` gives each child a process group "so that our background children don't receive
   SIGINT (SIGTSTP) from the kernel" (`tsh.cc:144-147`), but the child calls `setpgid` itself
   (`tsh.cc:181`), with the shell's handlers still installed.  A ctrl-c, or a `kill(0, sig)` of
   finding 3, that comes before it reaches the background child, which then handles the signal
   for ever and does not get to `execve`.  So does a foreground child that gets its ctrl-c
   between `setpgid` and `execve`.  `KeysSpareBackground` allows the first for members of `ShellGroup` only.
7. `sigchld_handler` sets ST for any child that stopped (`tsh.cc:358`), so that a background
   job goes from BG to ST, which `jobs.h:16-20` does not list.  `JobTransitions` allows it in
   `StopReported`, for a stop of this very process, and no other change beyond that list.

## 5. Proofs

`JobsProof` has the lemmas about the job list (what `addjob`, `deletejob`, `fgpid` and the
searches return and preserve, for any `MAXJOBS`).  `ShellProof` proves, from
`MaxJobsAssumption` and `ShellAssumption` only, for any number of slots, process IDs and keys:

| Theorem | Statement |
|---|---|
| `Invariance` | `Spec => []IInv` |
| `TypeCorrect` | `Spec => []TypeOK` |
| `OneForegroundJob` | `Spec => []AtMostOneFG` |
| `PromptCorrect` | `Spec => []PromptMeansNoForeground` |
| `ListCorrect` | `Spec => []JobsAreChildren` |
| `KeysCorrect` | `Spec => KeysSpareBackground` |
| `ChildrenCorrect` | `Spec => []ChildrenAreJobs` |
| `TransitionsCorrect` | `Spec => JobTransitions` |

None of the properties is inductive.  The strengthening `IInv` adds:

* `ForegroundInv`: which job can be in the foreground at each step of `eval`, `do_bgfg` and
  `waitfg`.  Between `EvalAdd` and `WaitSleep` it ties the foreground job to the locals `pid`,
  `jobp`, `fg_pid` and `job`, which is why neither a stale pointer nor a handler can leave
  two of them, or one at the prompt.
* `SlotsInv`: a slot in use has a state, so that `bg` through a cleared slot is told from one
  that hits a job.
* `ForkInv`: from `fork` to `addjob` no SIGCHLD handler runs,
  no handler holds a process to signal, and the child is not listed,
  which is what `JobsAreChildren` needs when the job is added.
* `FramesInv` and `StopInv`: a handler is not nested in itself, so that the status it got from
  `waitpid` is still true when it uses it.
* `HeldInv`: the process a ctrl-c or ctrl-z handler is about to signal is not a background job: while the
  handler runs, it can leave the foreground only towards ST or deletion.  With `ForkInv`,
  `KeysSpareBackground` follows for every step.
* `CaughtInv`: only a child before `execve` has a caught signal, so that a new child starts without one.
* `ReapedInv`: a process ID that a handler got from `waitpid` is not handed out again before the
  handler has deleted its job, as `eval` cannot fork in between.  Without it a handler could delete the
  job of a new child, and `ChildrenAreJobs` would not be inductive.

`ChildrenAreJobs` says something where the list cannot overflow: for finitely many process IDs,
no more than slots.  That `addjob` then finds a free slot is a pigeonhole argument (`SlotLeft`): the
jobs of a full list would be as many children, and the new one makes one more.

The proof has one lemma for each conjunct, one step per action under it, and the temporal
theorems combine them.  `IInv` is also an invariant of `shell_safety`, so that TLC checks it
on the small instance.

`PagerProof` proves of PagerAny, from `SimulatorAssumption` (the constants are positive, programs
are records of the shape of `struct program` that fit into their pages) and
`IdleAssumption`, for any number of slots, pages and frames and any programs:

| Theorem | Statement |
|---|---|
| `Invariance` | `AnySpec => []IInv` |
| `FramesCorrect` | `AnySpec => []FramesConserved` |
| `TypeCorrect` | `AnySpec => []TypeOK` |

`FramesConserved` counts the set `Frames` of pages that hold a frame.  Each action is shown to
change this set by as much as it changes `pagesavail`: a process that ends takes
exactly its own pages out (`FramesOfSlot`), aging those whose way out ends, `pagein` adds one that
was not there, and everything else leaves the set alone (`QuietStep`).  The invariant adds
the types and that a slot is idle until it is filled for the first time (`InitInv`), as
`allinit` would lose the frames of a process it wrote over.  `pagesavail` stays within
its bounds because of `FramesConserved`, not of a guard.

`PagersProof` brings this to the pagers of the repository.  Each of them is shown to implement
PagerAny (`BasicImplementsAny`, `LRUImplementsAny`, `PredictImplementsAny`,
`TestImplementsAny`): a step of `pageit` is one call of `pagein` or `pageout`, or none, and
what the pager keeps for itself is left aside.  With `FramesCorrect` of
`PagerProof`, `FramesCorrectForAll` then says that `FramesConserved` holds with each of them.  The
constants are those of PagerAny, and `MAXITERATIONS` with `IterationsAssumption`.

`IpcProof` proves of the benchmark, from `IpcAssumption` (the numbers are natural numbers):

| Theorem | Statement |
|---|---|
| `Invariance` | `Spec => []IInv` |
| `HandshakeCorrect` | `Spec => []Handshake` |
| `TypeCorrect` | `Spec => []TypeOK` |
| `ImplementsPingPong` | `Spec => PingPongSpec` |

Neither `Handshake` nor the refinement is inductive.  `IInv` adds:

* `PlacesInv`: where the two processes can be together, per mode, and that pipes and signals do
  not mix.
* `LegsInv`: the trips the child has added against those of the parent, according to
  where the request or the answer is.  It is what makes `Answer` and `Count` of PingPong possible
  when the code answers and counts.
* `QuitInv`: while no ctrl-c disturbs the signals, the child's `state` is 1 and no SIGINT is
  pending for it until the parent has counted all trips, so that `Leave` comes last.

`MultiLookupProof` proves of multi-lookup, from `LookupAssumption` (the numbers are positive, the
input files finitely many, NULL is no line) and `MainAssumption` (`main` is not one of the
files), for any number of files, lines, places, processors:

| Theorem | Statement |
|---|---|
| `Invariance` | `Spec => []IInv` |
| `TypeCorrect` | `Spec => []TypeOK` |
| `PlacesCorrect` | `Spec => []PlacesConserved` |
| `PushCorrect` | `Spec => []PushNeverFails` |
| `NullCorrect` | `Spec => []NullMeansEnd` |
| `LinesCorrect` | `Spec => []LinesConserved` |
| `WholeCorrect` | `Spec => []LinesWhole` |
| `ImplementsService` | `Spec => Service!Safety` |

* `QueueInv` is the heart: either the buffer is laid out from its front (`Layout`: `k` hosts, then
  end values up to the `n` places that the semaphores count as filled), and there are end values only when the
  requesters have ended; or it holds no host at all and stays so, whatever `front` and `rear` say.
  The second case is why popping an end value, which leaves the NULL where it was, does no
  harm, and why a full buffer (`front = rear` and a host there) never meets a push.
* `MutexInv` and `FileInv`: one thread is between a lock and its unlock.  `MutexInv` makes a
  `queue_pop` whole (`AdvanceInv`) and, with `PlacesConserved`, leaves a free place for the thread that pushes.
* `ProducerInv` and `ResolverInv` tie the local buffers to the program counters: a requester holds
  the line it read last, a resolver has a host from the pop to the end of its line.
* `EndInv`: a resolver that leaves has seen the second case of `QueueInv`.
* `OnceInv` says with sets what `LinesConserved` counts: at most one place holds a line.
* `WholeInv`: the name that was written last belongs to the resolver that is about to add addresses.

In the refinement the files whose requester has not called `fopen` are `unopened`, so that a line can be dropped
only with its whole file.  `Contents` is shown to be the first `k` slots of the layout, so that a push appends to it
and the first step of `queue_pop` takes its head.

`SchedulerProof` proves of the scheduler, from `SchedulerAssumption` (finitely many addresses, process IDs
are natural numbers, at least one level):

| Theorem | Statement |
|---|---|
| `Invariance` | `Spec => []IInv` |
| `TypeCorrect` | `Spec => []TypeOK` |
| `ListsCorrect` | `Spec => []ListsWellFormed` |
| `OwnedCorrect` | `Spec => []NodesOwned` |
| `ImplementsRoundRobin` | `Spec => RoundRobinSpec` |
| `HistoryWatches` | `MCSpec => Spec` |
| `OrderCorrect` | `MCSpec => []NoOvertaking` |

The pointers of a level are a `Chain` of a sequence without repetitions: `head` and `tail` are its ends, `next`
and `prev` its neighbours, `curr` one of its members.  A level has one such sequence, `List(l)`, read off
the walk along `next`; that the walk of a chain is that chain goes by the least place where the two differ, since
induction is out of reach.  `IInv` is this for all levels, with types and `NodesOwned`, without
which a new node could be one of another list.  Each function is then an operation on sequences: `addProcess`
appends, each of the three ways of unlinking cuts a place out (`Cut`), `nextProcess` moves the mark.
Because the operations are those of RoundRobin, the refinement follows.  `NoOvertaking` is not inductive: `OrderInv`
says of any two nodes of a list, and not only of the one at `curr`, that if `a` ran since `b` did, then `b` is
served before `a`, counted round the list from `curr` (`Before`).

`SchedSimProof` proves of the simulator, from `SimAssumption` (at least one process, addresses and IDs
for all), for any number of processes, units and levels:

| Theorem | Statement |
|---|---|
| `SimulatorCalls` | `SimSpec => Spec` |
| `WorkCorrect` | `SimSpec => []ScheduledHaveWork` |
| `SharesCorrect` | `SimSpec => []FairShare` |

`SimulatorCalls` carries the invariant of the scheduler over.  `SimInv` adds that the node of a process is on the
level of its priority with the quantum of that level (`NodesInv`), and that the process which runs is one
that has work and is scheduled (`MainInv`), so that the branch of `FinishProcess` where `removeProcess` finds nothing
is never taken.  `FairShare` needs the rounds of a level: `ShareInv` says that the members before `curr`, which had
their turn in this round (`Had`), are exactly one quantum ahead of the others, where `Rest` counts the quantum
of the process that runs as spent.  A process that ends may be removed while `curr` is anywhere;
`GoneCut` shows that the round then goes on for all others, or is over for all of them.

Of the LRU pager `PagersProof` proves further:

| Theorem | Statement |
|---|---|
| `StampsCorrect` | `LRUSpec => []ResidentStamped` |
| `MCImplementsAny` | `MCSpec => AnySpec` |
| `TimestampsCorrect` | `MCSpec => []TimestampsComplete` |
| `EvictionCorrect` | `MCSpec => EvictsLeastRecentlyUsed` |

`SlotInv` says of a slot that only the page its process needs is on its way in, so that no page becomes resident
behind the pager's back, and that the needed page of a process that can run has the last
timestamp from the time `pageit` was at the slot until the process has run (`Due`).  `AgreeInv` compares the
order of the timestamps with the order of use (`used`, the history of MCPagers): of two pages that the process has used they
agree, but for the page that has its timestamp and is about to be used.  Pages that carry timestamps
of the slot's last process are not in `used`, which is why they are harmless.  `EvictionCorrect` is an action property:
it follows from `LRUInv` and `EvictInv` in each step that sends a page out.

TLC agrees with `LRUInv`, `EvictInv`, `SimInv` and `SharesInv` on the runs' instances; `IInv` of the shell is part of its run.

**Model-checked only.**  Liveness, which is out of the prover's reach: `DeadChildIsReaped`, `WaitfgReturns`,
`StopIsRecorded`, `Terminates`, the fairness part of `ServiceSpec`, `Finishes`, `PagersFinish`,
`CompletesOrHangs`.  That the simulator of lab5 never reads beyond the array is part of
`Finishes`, and depends on its numbers: with fewer processes than levels it does.  All other
properties of the passing runs are theorems.  No theorem is about the violations of section 4.

## 6. What is not modelled, and why

* lab1 keeps no state.
* The floating-point matrices of the predictive pager (see PagerPredict), and
  `GEN_TRANS_MATRIX`, which is not compiled.  `predict_page` would return an uninitialised index
  for a column of zeros; no program of `programs.c` reaches a page with one.
* Times and statistics of lab3, and the child's `read` at the end of file: the quit message
  comes first.  An optimising compiler may load `state`, which is not volatile, once;
  the makefile does not optimise `ipc.cc`.
* Parsing of commands, messages and statistics, the `jobs` command, `pid2jid`: output only.
* `dns_lookup` returns anything; failures of `malloc` and `pthread_create` in lab4 are left out.
* Handlers that interrupt a scan of the job table in its middle.  A scan that stores nothing sees
  each slot before or after the handler, and a handler changes one slot.
* lab4's `lookup.c`, `util.c` and tests, lab2's test programs: no state that lasts.
* SIGQUIT, which ends the shell at once, signals that the shell does not catch, and a stop of a child from
  elsewhere before its `execve`.

## 7. Plan

1. Proofs: that with at least as many processes as levels the simulator of lab5 stays within the
   array, whatever the work.  TLC agrees for small numbers.  A level has at most one process more than the highest one, and its
   quantum is longer, so that it has at most one turn left when the highest is empty; the proof needs
   the turns of the levels, which `ShareInv` ties to the work that is left.
   For the predictive pager, what PagerLRU has, with the pages that have no timestamp as an exception of `AgreeInv`.
2. Models: SIGQUIT; scans of the job table that are interrupted; job IDs with a list that
   wraps.
3. Runs: larger lists and more levels for the scheduler with symmetry on addresses.
