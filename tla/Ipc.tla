-------------------------------- MODULE Ipc ---------------------------------
(***************************************************************************)
(* The benchmark of lab3 (ipc.cc): a parent and its child play ping-pong,  *)
(* through two pipes (-p) or by signals (-s).                              *)
(*                                                                         *)
(* A signal sent to a process is pending until its handler runs, at any    *)
(* time later; two of a kind are one.  Signal() restarts the read and the  *)
(* wait that a handler interrupts.  Of the times, trips[p] counts what     *)
(* process p adds to its tripTime; for the parent this is also the index   *)
(* of its loop.                                                            *)
(***************************************************************************)
EXTENDS Integers, Sequences

CONSTANTS
  Tests,     \* what numtests may be
  MaxKeys    \* bound on the ctrl-c typed

ASSUME IpcAssumption == Tests \subseteq Nat /\ MaxKeys \in Nat

Proc   == {"parent", "child"}
Signal == {"SIGUSR1", "SIGUSR2", "SIGINT"}

VARIABLES
  mode, numtests,
  pc,          \* where each process is
  state,       \* each process has its own copy
  pending,     \* per process, signals whose handler has not run yet
  answering,   \* the child is in sigusr2_handler, or between its read and its write
  fd1, fd2,    \* bytes on the way to the child, and to the parent
  trips, keys

vars == <<mode, numtests, pc, state, pending, answering, fd1, fd2, trips, keys>>

pipes == <<fd1, fd2>>
args  == <<mode, numtests>>

Init ==
  /\ mode \in {"pipe", "signal"} /\ numtests \in Tests
  /\ pc = [p \in Proc |-> IF p = "parent" THEN "start" ELSE "none"]
  /\ state = [p \in Proc |-> 0]
  /\ pending = [p \in Proc |-> {}]
  /\ answering = FALSE
  /\ fd1 = <<>> /\ fd2 = <<>>
  /\ trips = [p \in Proc |-> 0]
  /\ keys = 0

Alive(p) == pc[p] \notin {"none", "done", "failed"}

\* kill(p, sig): a process that has ended takes no signal.
kill(p, sig) == pending' = IF Alive(p) THEN [pending EXCEPT ![p] = @ \cup {sig}] ELSE pending

Goes(p, from, to) == pc[p] = from /\ pc' = [pc EXCEPT ![p] = to]

Measure(p) == trips' = [trips EXCEPT ![p] = @ + 1]
-----------------------------------------------------------------------------
(* Starting the child                                                      *)

\* pipe(), or the state the child is to inherit.
Start ==
  /\ Goes("parent", "start", "fork")
  /\ state' = [state EXCEPT !["parent"] = IF mode = "signal" THEN 1 ELSE @]
  /\ UNCHANGED <<args, pending, answering, pipes, trips, keys>>

\* Mutant: state is set to 1 when the child is there already.
BugStateAfterFork ==
  /\ pc["parent"] = "fork"
  /\ pc' = [p \in Proc |-> IF p = "parent" THEN "test" ELSE "run"]
  /\ state' = [state EXCEPT !["child"] = 0]
  /\ UNCHANGED <<args, pending, answering, pipes, trips, keys>>

\* The child starts with a copy of state and without pending signals.
Fork ==
  /\ pc["parent"] = "fork"
  /\ pc' = [p \in Proc |-> IF p = "parent" THEN "test" ELSE "run"]
  /\ state' = [p \in Proc |-> state["parent"]]
  /\ UNCHANGED <<args, pending, answering, pipes, trips, keys>>

\* pipe or fork fails.
Fails ==
  /\ Goes("parent", "fork", "failed")
  /\ UNCHANGED <<args, state, pending, answering, pipes, trips, keys>>
-----------------------------------------------------------------------------
(* Pipes                                                                   *)

PipeAsk ==
  /\ mode = "pipe" /\ Goes("parent", "test", "wait")
  /\ trips["parent"] < numtests
  /\ fd1' = Append(fd1, "2")
  /\ UNCHANGED <<args, state, pending, answering, fd2, trips, keys>>

PipeCount ==
  /\ mode = "pipe" /\ Goes("parent", "wait", "test")
  /\ fd2 # <<>> /\ fd2' = Tail(fd2)
  /\ Measure("parent")
  /\ UNCHANGED <<args, state, pending, answering, fd1, keys>>

PipeQuit ==
  /\ mode = "pipe" /\ Goes("parent", "test", "join")
  /\ trips["parent"] >= numtests
  /\ fd1' = Append(fd1, "q")
  /\ UNCHANGED <<args, state, pending, answering, fd2, trips, keys>>

PipeRead ==
  /\ mode = "pipe" /\ pc["child"] = "run" /\ ~answering
  /\ fd1 # <<>> /\ fd1' = Tail(fd1) /\ Head(fd1) # "q"
  /\ answering' = TRUE
  /\ Measure("child")
  /\ UNCHANGED <<args, pc, state, pending, fd2, keys>>

\* Mutant: the string is written with its end.
BugTwoBytes ==
  /\ mode = "pipe" /\ answering
  /\ fd2' = Append(Append(fd2, "1"), "0")
  /\ answering' = FALSE
  /\ UNCHANGED <<args, pc, state, pending, fd1, trips, keys>>

PipeAnswer ==
  /\ mode = "pipe" /\ answering
  /\ fd2' = Append(fd2, "1")
  /\ answering' = FALSE
  /\ UNCHANGED <<args, pc, state, pending, fd1, trips, keys>>

\* The child's trip ends with the quit message, too.
PipeLeave ==
  /\ mode = "pipe" /\ Goes("child", "run", "done") /\ ~answering
  /\ fd1 # <<>> /\ fd1' = Tail(fd1) /\ Head(fd1) = "q"
  /\ Measure("child")
  /\ pending' = [pending EXCEPT !["child"] = {}]
  /\ UNCHANGED <<args, state, answering, fd2, keys>>
-----------------------------------------------------------------------------
(* Signals                                                                 *)

\* Mutant: state is set for the first trip only.
BugStateNotSet ==
  /\ mode = "signal" /\ Goes("parent", "test", "ask")
  /\ trips["parent"] < numtests
  /\ UNCHANGED <<args, state, pending, answering, pipes, trips, keys>>

SetState ==
  /\ mode = "signal" /\ Goes("parent", "test", "ask")
  /\ trips["parent"] < numtests
  /\ state' = [state EXCEPT !["parent"] = 1]
  /\ UNCHANGED <<args, pending, answering, pipes, trips, keys>>

SignalAsk ==
  /\ Goes("parent", "ask", "wait")
  /\ kill("child", "SIGUSR2")
  /\ UNCHANGED <<args, state, answering, pipes, trips, keys>>

SignalCount ==
  /\ mode = "signal" /\ Goes("parent", "wait", "test")
  /\ state["parent"] = 0
  /\ Measure("parent")
  /\ UNCHANGED <<args, state, pending, answering, pipes, keys>>

\* Mutant: the child is not told.
BugNoQuit ==
  /\ mode = "signal" /\ Goes("parent", "test", "join")
  /\ trips["parent"] >= numtests
  /\ UNCHANGED <<args, state, pending, answering, pipes, trips, keys>>

SignalQuit ==
  /\ mode = "signal" /\ Goes("parent", "test", "join")
  /\ trips["parent"] >= numtests
  /\ kill("child", "SIGINT")
  /\ UNCHANGED <<args, state, answering, pipes, trips, keys>>

\* sigusr2_handler of the child, up to its kill.
sigusr2_handler ==
  /\ Alive("child") /\ "SIGUSR2" \in pending["child"] /\ ~answering
  /\ pending' = [pending EXCEPT !["child"] = @ \ {"SIGUSR2"}]
  /\ answering' = TRUE
  /\ Measure("child")
  /\ UNCHANGED <<args, pc, state, pipes, keys>>

SignalAnswer ==
  /\ mode = "signal" /\ answering
  /\ kill("parent", "SIGUSR1")
  /\ answering' = FALSE
  /\ UNCHANGED <<args, pc, state, pipes, trips, keys>>

\* The child leaves its spin loop and adds the time of its last leg.
SignalLeave ==
  /\ mode = "signal" /\ Goes("child", "run", "done") /\ ~answering
  /\ state["child"] = 0
  /\ Measure("child")
  /\ pending' = [pending EXCEPT !["child"] = {}]
  /\ UNCHANGED <<args, state, answering, pipes, keys>>

\* What sigusr1_handler and sigint_handler do.
ClearState(p, sig) ==
  /\ Alive(p) /\ sig \in pending[p]
  /\ pending' = [pending EXCEPT ![p] = @ \ {sig}]
  /\ state' = [state EXCEPT ![p] = 0]
  /\ UNCHANGED <<args, pc, answering, pipes, trips, keys>>

sigusr1_handler   == ClearState("parent", "SIGUSR1")
sigint_handler(p) == ClearState(p, "SIGINT")

\* The spin loops, which look at state again and again.
Spin(p) ==
  /\ mode = "signal" /\ pc[p] \in {"wait", "run"} /\ state[p] = 1
  /\ UNCHANGED vars
-----------------------------------------------------------------------------
\* The terminal sends ctrl-c to both.
KeyInt ==
  /\ keys < MaxKeys /\ Alive("parent")
  /\ keys' = keys + 1
  /\ pending' = [p \in Proc |-> IF Alive(p) THEN pending[p] \cup {"SIGINT"} ELSE pending[p]]
  /\ UNCHANGED <<args, pc, state, answering, pipes, trips>>

\* wait(NULL)
Join ==
  /\ Goes("parent", "join", "done") /\ pc["child"] = "done"
  /\ UNCHANGED <<args, state, pending, answering, pipes, trips, keys>>

Terminated == pc["parent"] \in {"done", "failed"} /\ UNCHANGED vars

Parent ==
  \/ Start \/ Fork \/ Fails \/ Join
  \/ PipeAsk \/ PipeCount \/ PipeQuit
  \/ SetState \/ SignalAsk \/ SignalCount \/ SignalQuit

Child == PipeRead \/ PipeAnswer \/ PipeLeave \/ SignalAnswer \/ SignalLeave

Handler == sigusr1_handler \/ sigusr2_handler \/ \E p \in Proc : sigint_handler(p)

Next == Parent \/ Child \/ Handler \/ (\E p \in Proc : Spin(p)) \/ KeyInt \/ Terminated

\* The kernel runs both processes and delivers what is pending.
Fairness == WF_vars(Parent) /\ WF_vars(Child) /\ WF_vars(Handler)

Spec == Init /\ [][Next]_vars /\ Fairness
-----------------------------------------------------------------------------
TypeOK ==
  /\ mode \in {"pipe", "signal"} /\ numtests \in Tests
  /\ pc \in [Proc -> {"start", "fork", "test", "ask", "wait", "join", "done", "failed", "none", "run"}]
  /\ state \in [Proc -> {0, 1}]
  /\ pending \in [Proc -> SUBSET Signal]
  /\ answering \in BOOLEAN
  /\ fd1 \in {<<>>, <<"2">>, <<"q">>} /\ fd2 \in {<<>>, <<"1">>}
  /\ trips \in [Proc -> Nat] /\ trips["parent"] <= numtests
  /\ keys \in 0 .. MaxKeys

Waiting   == pc["parent"] = "wait"
Disturbed == mode = "signal" /\ keys > 0

\* What the processes do is ping-pong, although a signal that comes twice counts
\* once, state is set by two handlers and the loop, and the child may answer before
\* the parent begins to wait.  A ctrl-c can upset the signals, not the pipes.
PP == INSTANCE PingPong WITH
  asked     <- trips["parent"] + (IF Waiting THEN 1 ELSE 0),
  answered  <- trips["child"] - (IF pc["child"] = "done" THEN 1 ELSE 0),
  counted   <- trips["parent"],
  disturbed <- Disturbed,
  left      <- pc["child"] = "done",
  ended     <- pc["parent"] = "done"

PingPongSpec == PP!Spec

\* What is on its way: a request to the child, or an answer to the parent.
Request == "SIGUSR2" \in pending["child"] \/ fd1 = <<"2">>
Reply   == "SIGUSR1" \in pending["parent"] \/ fd2 = <<"1">>

\* The spin loop of the parent still holds it.
Held == mode = "signal" => state["parent"] = 1

\* While the parent waits there is one request, one answer in the making, one on its
\* way, or one taken; otherwise there is none.  So no signal is sent to a process that
\* has one of its kind pending, and no answer comes before state is 1 or is left for
\* the next trip, at whatever speed the two processes run.
Handshake == ~Disturbed =>
  /\ pc["parent"] = "ask" => Held
  /\ ~Waiting => ~Request /\ ~answering /\ ~Reply
  /\ Waiting =>
       \/ Request /\ ~answering /\ ~Reply /\ Held
       \/ ~Request /\ answering /\ ~Reply /\ Held
       \/ ~Request /\ ~answering /\ Reply /\ Held
       \/ ~Request /\ ~answering /\ ~Reply /\ ~Held

\* The parent waits for an answer from a child that a ctrl-c made leave.
Hangs == Disturbed /\ Waiting /\ pc["child"] = "done" /\ state["parent"] = 1

\* The benchmark ends, through pipes always; by signals, unless a ctrl-c makes
\* the child leave while there are trips to go, and then the parent spins for ever.
CompletesOrHangs == <>(pc["parent"] \in {"done", "failed"}) \/ <>[]Hangs
=============================================================================
