--------------------------- MODULE SchedSimProof ----------------------------
(***************************************************************************)
(* The simulator keeps a process scheduled as long as it has work, and the *)
(* processes of a level share its time, for any number of processes, units *)
(* of work and levels.                                                     *)
(***************************************************************************)
EXTENDS SchedSim, SchedulerProof

Simulated == 0 .. Processes - 1

LEMMA SimFacts ==
  /\ Processes \in Nat /\ Units \in Nat /\ Simulated \subseteq Addr /\ Simulated \subseteq Pid
  /\ \A p \in Simulated : p \in Nat /\ p % kLevels \in Level /\ p # NULL
  /\ priority_translation = [l \in Level |-> kLevels - l]
<1>1. Processes \in Nat /\ Units \in Nat /\ Simulated \subseteq Addr /\ Simulated \subseteq Pid
  BY SimAssumption DEF Simulated
<1>2. \A p \in Simulated : p \in Nat
  BY DEF Simulated
<1>3. \A p \in Nat : p % kLevels \in 0 .. kLevels - 1
  BY SchedulerAssumption
<1> QED BY <1>1, <1>2, <1>3, ConstantFacts DEF Level, priority_translation
-----------------------------------------------------------------------------
(* The invariant                                                           *)

SimType ==
  /\ processes \in [Simulated -> Int] /\ i \in 0 .. Processes /\ quantum \in Nat
  /\ pc \in {"add", "choose", "run", "done", "undefined"}
  /\ undefined => pc = "undefined"

\* The node of a process is at its own number, on the level of its priority.
NodesInv ==
  /\ allocated \subseteq Simulated
  /\ \A a \in allocated : node[a].pid = a /\ node[a].quanta = kLevels - (a % kLevels)
  /\ \A l \in Level : \A k \in DOMAIN List(l) : List(l)[k] % kLevels = l

\* What main knows when it adds, and when it runs, a process.
MainInv ==
  /\ pc = "add" => /\ allocated = 0 .. i - 1 /\ \A p \in Simulated : processes[p] = Units
                   /\ \A l \in Level : levels[l].curr = levels[l].head
  /\ pc # "add" =>
       \A p \in Simulated : /\ p \in allocated => processes[p] >= 0
                            /\ p \notin allocated => processes[p] = -1
  /\ pc = "run" /\ quantum > 0 => pid \in allocated /\ quantum <= kLevels - (pid % kLevels)

SimInv == SimType /\ NodesInv /\ MainInv

\* Has a had its turn in the round of list s that now is at curr?
Gone(s, curr, a) == \E j, k \in DOMAIN s : s[j] = a /\ s[k] = curr /\ j < k

Had(l, a) == Gone(List(l), levels[l].curr, a)

\* The work a process has left when its quantum is over.
Rest(p) == IF pc = "run" /\ p = pid THEN processes[p] - quantum ELSE processes[p]

\* The processes of a level that had their turn in this round are one quantum ahead
\* of those that did not; the one that runs had its, or ended the round.
ShareInv(l) ==
  \A a, b \in Nodes(l) :
    /\ (Had(l, a) <=> Had(l, b)) => Rest(a) = Rest(b)
    /\ Had(l, a) /\ ~Had(l, b) => Rest(b) = Rest(a) + (kLevels - l)
    /\ pc = "run" /\ quantum > 0 /\ a = pid /\ Had(l, b) => Had(l, a)

SharesInv == pc # "add" => \A l \in Level : ShareInv(l)
-----------------------------------------------------------------------------
(* Every call of the simulator is one the scheduler allows                 *)

LEMMA SimCalls == SimInv /\ [SimNext]_<<vars, simVars>> => [Next]_vars
<1> SUFFICES ASSUME SimInv, SimNext PROVE [Next]_vars
  BY DEF vars
<1>1. CASE Add
  <2>1. /\ addProcess(i, (i % kLevels) + 1, i) /\ ~undefined
        /\ i \in Simulated
    BY <1>1, SimFacts DEF Add, SimInv, SimType, Simulated
  <2>2. i \in Pid /\ i \in Addr /\ (i % kLevels) + 1 \in 1 .. kLevels
    BY <2>1, SimFacts, ConstantFacts DEF Level
  <2> QED BY <2>1, <2>2 DEF Next, OtherCall
<1>2. CASE ChooseProcess
  BY <1>2 DEF ChooseProcess, Next, OtherCall, SimInv, SimType
<1>3. CASE FinishProcess
  <2>1. pid \in Pid /\ ~undefined
    BY <1>3, SimFacts DEF FinishProcess, SimInv, SimType, MainInv, NodesInv
  <2> QED BY <1>3, <2>1 DEF FinishProcess, Next, OtherCall
<1>4. CASE AllAdded \/ RunUnit \/ QuantumOver \/ Exit \/ Terminated
  BY <1>4 DEF AllAdded, RunUnit, QuantumOver, Exit, Terminated
<1> QED BY <1>1, <1>2, <1>3, <1>4 DEF SimNext
-----------------------------------------------------------------------------
(* What is on the lists                                                    *)

\* The nodes of the levels, and their places in the lists.
LEMMA NodeFacts ==
  ASSUME IInv, NodesInv
  PROVE  /\ \A l \in Level : Nodes(l) = {List(l)[k] : k \in DOMAIN List(l)}
         /\ \A p : Scheduled(p) <=> p \in allocated
         /\ \A l \in Level : \A a \in Nodes(l) :
              a \in allocated /\ a \in Simulated /\ a \in Addr /\ a % kLevels = l
         /\ \A a \in allocated : a \in Nodes(a % kLevels)
<1>1. /\ \A l \in Level : Nodes(l) = {List(l)[k] : k \in DOMAIN List(l)}
      /\ \A a : a \in allocated <=> \E l \in Level : \E k \in DOMAIN List(l) : List(l)[k] = a
  BY ListFacts DEF Holds
<1>2. \A l \in Level : \A a \in Nodes(l) : a \in allocated /\ a % kLevels = l
  BY <1>1 DEF NodesInv
<1>3. \A l \in Level : \A a \in Nodes(l) : a \in Simulated /\ a \in Addr /\ node[a].pid = a
  BY <1>2, SimFacts DEF NodesInv
<1>4. \A a \in allocated : a \in Nodes(a % kLevels) /\ a % kLevels \in Level
  BY <1>1, <1>2
<1> QED BY <1>1, <1>2, <1>3, <1>4 DEF Scheduled

\* A process on a list is found.
LEMMA ScheduledKnown ==
  ASSUME IInv, NodesInv, NEW p \in allocated
  PROVE  Known(p)
<1>1. PICK l \in Level : \E j \in DOMAIN List(l) : List(l)[j] = p
  BY ListFacts DEF Holds
<1>2. PICK j \in DOMAIN List(l) : List(l)[j] = p
  BY <1>1
<1>3. Chain(node, levels[l], List(l)) /\ DOMAIN List(l) = 1 .. Len(List(l)) /\ Len(List(l)) \in Nat
      /\ Len(List(l)) <= Cardinality(Addr)
  BY ListFacts, ChainType
<1>4. Len(List(l)) \in Nat /\ j \in 1 .. Len(List(l))
  BY <1>2, <1>3
<1>5. j - 1 \in Nat /\ j - 1 < Len(List(l)) /\ (j - 1) + 1 = j /\ j - 1 <= Cardinality(Addr)
  BY <1>3, <1>4, ConstantFacts
<1>6. j - 1 \in Steps /\ Walk(l)[j - 1] = p
  BY <1>2, <1>3, <1>5, ChainWalk, ConstantFacts DEF Walk
<1>7. p # NULL /\ node[p].pid = p
  BY SimFacts DEF NodesInv
<1>8. ASSUME NEW m \in Level, NEW k \in Steps, Walk(m)[k] # NULL, node[Walk(m)[k]].pid = p
      PROVE  m = l /\ k = j - 1
  <2>1. k \in Nat /\ k + 1 \in DOMAIN List(m) /\ List(m)[k + 1] = Walk(m)[k]
    BY <1>8, WalkPlace
  <2>2. Walk(m)[k] = p
    BY <1>8, <2>1, ListFacts DEF NodesInv
  <2>3. m = l
    BY <1>2, <2>1, <2>2, ListFacts DEF Holds
  <2>4. k + 1 = j
    BY <1>2, <1>3, <2>1, <2>2, <2>3 DEF Chain
  <2>5. k \in Int /\ j \in Int
    BY <1>4, <2>1
  <2> QED BY <2>3, <2>4, <2>5
<1>9. IsFirst(p, l, j - 1)
  <2>1. \A m \in Level, k \in Steps :
          Walk(m)[k] # NULL /\ node[Walk(m)[k]].pid = p => m = l /\ k = j - 1
    BY <1>8
  <2>2. j - 1 <= j - 1
    BY <1>5
  <2> QED BY <1>6, <1>7, <2>1, <2>2 DEF IsFirst
<1> QED BY <1>6, <1>9 DEF Known
-----------------------------------------------------------------------------
(* The calls that change lists, as the simulator makes them                *)

LEMMA AddFacts ==
  ASSUME IInv, NodesInv, NEW p \in Simulated, addProcess(p, (p % kLevels) + 1, p)
  PROVE  /\ NodesInv' /\ allocated' = allocated \cup {p}
         /\ (\A l \in Level : levels[l].curr = levels[l].head)
              => \A l \in Level : levels'[l].curr = levels'[l].head
<1> DEFINE l == p % kLevels
<1>1. l \in Level /\ l \in Nat /\ l < kLevels /\ l + 1 \in 1 .. kLevels /\ (l + 1) - 1 = l
      /\ p \in Pid /\ p \in Addr /\ priority_translation[l] = kLevels - l
  <2>1. l \in 0 .. kLevels - 1 /\ kLevels \in Nat
    BY SimFacts, ConstantFacts DEF Level
  <2> QED BY <2>1, SimFacts DEF Level
<1> HIDE DEF l
<1>2. addProcess(p, l + 1, p)
  BY DEF l
<1>3. /\ Holds([m \in Level |-> IF m = l THEN Append(List(m), p) ELSE List(m)],
               node', levels', allocated')
      /\ node'[p].pid = p /\ node'[p].quanta = kLevels - l
      /\ \A a \in allocated : node'[a].pid = node[a].pid /\ node'[a].quanta = node[a].quanta
  BY <1>1, <1>2, AddStep
<1>4. allocated' = allocated \cup {p}
  BY <1>2 DEF addProcess
<1>5. \A m \in Level : List(m)' = IF m = l THEN Append(List(m), p) ELSE List(m)
  BY <1>3, ListsNext
<1>6. ASSUME NEW m \in Level, NEW k \in DOMAIN List(m)'
      PROVE  List(m)'[k] % kLevels = m
  <2>1. CASE m # l
    BY <1>5, <1>6, <2>1 DEF NodesInv
  <2>2. CASE m = l
    <3>1. List(m) \in Seq(Addr) /\ Len(List(m)) \in Nat /\ DOMAIN List(m) = 1 .. Len(List(m))
      BY ListFacts, ChainType
    <3>2. /\ DOMAIN Append(List(m), p) = 1 .. Len(List(m)) + 1
          /\ \A j \in 1 .. Len(List(m)) : Append(List(m), p)[j] = List(m)[j]
          /\ Append(List(m), p)[Len(List(m)) + 1] = p
      BY <1>1, <3>1, AppendProperties, LenProperties
    <3>3. k \in 1 .. Len(List(m)) + 1 /\ Len(List(m)) \in Nat
      BY <1>5, <1>6, <2>2, <3>1, <3>2
    <3>4. CASE k = Len(List(m)) + 1
      BY <1>5, <2>2, <3>2, <3>4 DEF l
    <3>5. CASE k # Len(List(m)) + 1
      <4>1. k \in 1 .. Len(List(m))
        BY <3>3, <3>5
      <4>2. List(m)'[k] = List(m)[k] /\ k \in DOMAIN List(m)
        BY <1>5, <2>2, <3>1, <3>2, <4>1
      <4> QED BY <4>2 DEF NodesInv
    <3> QED BY <3>4, <3>5
  <2> QED BY <2>1, <2>2
<1>7. allocated' \subseteq Simulated
      /\ \A a \in allocated' : node'[a].pid = a /\ node'[a].quanta = kLevels - (a % kLevels)
  BY <1>3, <1>4 DEF NodesInv, l
<1>8. NodesInv'
  BY <1>6, <1>7 DEF NodesInv
<1>9. ASSUME \A m \in Level : levels[m].curr = levels[m].head, NEW m \in Level
      PROVE  levels'[m].curr = levels'[m].head
  <2>1. levels \in [Level -> Pointers]
    BY DEF IInv, TypeOK, Pointers
  <2>2. \/ levels' = [levels EXCEPT ![l] = [curr |-> p, head |-> p, tail |-> p]]
        \/ levels' = [levels EXCEPT ![l].tail = p]
    BY <1>1, <1>2 DEF addProcess
  <2> QED BY <1>1, <1>9, <2>1, <2>2 DEF Pointers
<1> QED BY <1>4, <1>8, <1>9

LEMMA RemoveFacts ==
  ASSUME IInv, NodesInv, NEW p \in Simulated, removeProcess(p)
  PROVE  /\ NodesInv' /\ allocated' = allocated \ {p}
         /\ \E l \in Level : \E d \in DOMAIN List(l) :
              /\ List(l)[d] = p /\ List(l)' = Cut(List(l), d)
              /\ CutsOut(node, levels[l], List(l), d, node', levels'[l])
              /\ \A m \in Level : m # l => List(m)' = List(m) /\ levels'[m] = levels[m]
<1>1. PICK l \in Level, k \in Steps :
        /\ IsFirst(p, l, k)
        /\ LET n == Walk(l)[k]
           IN  (UnlinkHead(l, n) \/ UnlinkTail(l, n) \/ UnlinkMiddle(l, n)) /\ free(n)
  BY DEF removeProcess
<1> DEFINE n == Walk(l)[k]
<1>2. /\ n # NULL /\ node[n].pid = p /\ free(n)
      /\ UnlinkHead(l, n) \/ UnlinkTail(l, n) \/ UnlinkMiddle(l, n)
      /\ UNCHANGED <<current, pid, time, undefined>>
  BY <1>1 DEF IsFirst, removeProcess
<1> HIDE DEF n
<1>3. /\ k + 1 \in DOMAIN List(l) /\ List(l)[k + 1] = n
      /\ CutsOut(node, levels[l], List(l), k + 1, node', levels'[l])
      /\ Holds([m \in Level |-> IF m = l THEN Cut(List(l), k + 1) ELSE List(m)],
               node', levels', allocated')
      /\ \A m \in Level : m # l => levels'[m] = levels[m]
      /\ \A a \in allocated' : node'[a].pid = node[a].pid /\ node'[a].quanta = node[a].quanta
  BY <1>2, RemoveStep DEF n
<1>4. n = p
  BY <1>2, <1>3, ListFacts DEF NodesInv
<1>5. allocated' = allocated \ {p}
  BY <1>2, <1>4 DEF free
<1>6. \A m \in Level : List(m)' = IF m = l THEN Cut(List(l), k + 1) ELSE List(m)
  BY <1>3, ListsNext
<1>7. ASSUME NEW m \in Level, NEW j \in DOMAIN List(m)'
      PROVE  List(m)'[j] % kLevels = m
  <2>1. CASE m # l
    BY <1>6, <1>7, <2>1 DEF NodesInv
  <2>2. CASE m = l
    <3>1. List(l) \in Seq(Addr)
      BY ListFacts, ChainType
    <3>2. {Cut(List(l), k + 1)[v] : v \in DOMAIN Cut(List(l), k + 1)}
            = {List(l)[v] : v \in DOMAIN List(l) \ {k + 1}}
      BY <1>3, <3>1, CutFacts
    <3>3. List(m)'[j] \in {List(l)[v] : v \in DOMAIN List(l) \ {k + 1}}
      BY <1>6, <1>7, <2>2, <3>2
    <3>4. PICK v \in DOMAIN List(l) : List(m)'[j] = List(l)[v]
      BY <3>3
    <3> QED BY <2>2, <3>4 DEF NodesInv
  <2> QED BY <2>1, <2>2
<1>8. NodesInv'
  BY <1>3, <1>5, <1>7 DEF NodesInv
<1> QED BY <1>3, <1>4, <1>5, <1>6, <1>8

LEMMA ChooseFacts ==
  ASSUME IInv, NodesInv, nextProcess
  PROVE  /\ NodesInv' /\ allocated' = allocated
         /\ \A m \in Level : List(m)' = List(m)
         /\ \E l \in Level : \E c \in DOMAIN List(l) :
              /\ levels[l].curr = List(l)[c] /\ pid' = List(l)[c]
              /\ pid' \in allocated /\ time' = kLevels - (pid' % kLevels)
              /\ c = Len(List(l)) => 1 \in DOMAIN List(l) /\ levels'[l].curr = List(l)[1]
              /\ c # Len(List(l)) => c + 1 \in DOMAIN List(l) /\ levels'[l].curr = List(l)[c + 1]
              /\ \A m \in Level : m # l => levels'[m] = levels[m]
<1>1. PICK l \in Serving : Take(l, levels[l].curr)
  BY DEF nextProcess
<1>2. UNCHANGED <<node, allocated, undefined>>
  BY DEF nextProcess
<1>3. /\ l \in Level
      /\ \A m \in Level : m # l => levels'[m] = levels[m]
      /\ Holds([m \in Level |-> List(m)], node', levels', allocated')
  BY <1>1, <1>2, TakeStep
<1>4. PICK c \in DOMAIN List(l) :
        /\ levels[l].curr = List(l)[c] /\ pid' = node[List(l)[c]].pid /\ time' = node[List(l)[c]].quanta
        /\ c = Len(List(l)) => 1 \in DOMAIN List(l) /\ levels'[l].curr = List(l)[1]
        /\ c # Len(List(l)) => c + 1 \in DOMAIN List(l) /\ levels'[l].curr = List(l)[c + 1]
  BY <1>1, <1>2, TakeStep
<1>5. \A m \in Level : List(m)' = List(m)
  BY <1>3, ListsNext
<1>6. NodesInv'
  BY <1>2, <1>5 DEF NodesInv
<1>7. pid' = List(l)[c] /\ pid' \in allocated /\ time' = kLevels - (pid' % kLevels)
  BY <1>3, <1>4, ListFacts DEF NodesInv
<1> QED BY <1>2, <1>3, <1>4, <1>5, <1>6, <1>7
-----------------------------------------------------------------------------
(* The work the processes have left                                        *)

LEMMA SimInvInit == SimInit => SimInv
<1> SUFFICES ASSUME SimInit PROVE SimInv
  OBVIOUS
<1>1. /\ init /\ processes = [p \in Simulated |-> Units] /\ i = 0 /\ quantum = 0 /\ pc = "add"
      /\ allocated = {} /\ ~undefined
      /\ levels = [l \in Level |-> [curr |-> NULL, head |-> NULL, tail |-> NULL]]
  BY DEF SimInit, init, Simulated
<1>2. SimType
  BY <1>1, SimFacts DEF SimType
<1>3. \A l \in Level : \A j \in DOMAIN List(l) : FALSE
  BY <1>1, IInvInit, ListFacts
<1>4. NodesInv
  BY <1>1, <1>3 DEF NodesInv
<1>5. 0 .. 0 - 1 = {}
  OBVIOUS
<1>6. MainInv
  BY <1>1, <1>5 DEF MainInv
<1> QED BY <1>2, <1>4, <1>6 DEF SimInv

\* A step that leaves the scheduler alone.
LEMMA NodesKept ==
  ASSUME NodesInv, UNCHANGED <<node, allocated, levels>>
  PROVE  NodesInv' /\ \A l \in Level : List(l)' = List(l) /\ Nodes(l)' = Nodes(l)
<1>1. \A l \in Level : List(l)' = List(l) /\ Nodes(l)' = Nodes(l)
  BY DEF List, Nodes, Length, Walk
<1> QED BY <1>1 DEF NodesInv

LEMMA AddSim == IInv /\ SimInv /\ Add => SimInv'
<1> SUFFICES ASSUME IInv, SimInv, Add PROVE SimInv'
  OBVIOUS
<1>1. /\ pc = "add" /\ pc' = pc /\ i < Processes /\ i' = i + 1 /\ UNCHANGED <<processes, quantum>>
      /\ addProcess(i, (i % kLevels) + 1, i) /\ UNCHANGED undefined
      /\ i \in 0 .. Processes /\ Processes \in Nat
  BY SimFacts DEF Add, addProcess, SimInv, SimType
<1>2. i \in Simulated /\ i + 1 \in 0 .. Processes /\ 0 .. (i + 1) - 1 = (0 .. i - 1) \cup {i}
  BY <1>1 DEF Simulated
<1>3. /\ NodesInv' /\ allocated' = allocated \cup {i}
      /\ (\A l \in Level : levels[l].curr = levels[l].head)
           => \A l \in Level : levels'[l].curr = levels'[l].head
  BY <1>1, <1>2, AddFacts DEF SimInv
<1>4. MainInv'
  BY <1>1, <1>2, <1>3 DEF SimInv, MainInv
<1>5. SimType'
  BY <1>1, <1>2 DEF SimInv, SimType
<1> QED BY <1>3, <1>4, <1>5 DEF SimInv

LEMMA ChooseSim == IInv /\ SimInv /\ ChooseProcess => SimInv'
<1> SUFFICES ASSUME IInv, SimInv, ChooseProcess PROVE SimInv'
  OBVIOUS
<1>1. /\ pc = "choose" /\ UNCHANGED <<processes, i>> /\ ~undefined
      /\ SimType /\ NodesInv /\ MainInv
  BY DEF ChooseProcess, SimInv, SimType
<1>2. CASE nextProcessBeyond /\ pc' = "undefined" /\ UNCHANGED quantum
  <2>1. UNCHANGED <<node, allocated, levels>>
    BY <1>2 DEF nextProcessBeyond
  <2>2. NodesInv'
    BY <1>1, <2>1, NodesKept
  <2> QED BY <1>1, <1>2, <2>1, <2>2 DEF SimInv, SimType, MainInv
<1>3. CASE nextProcess /\ pc' = "run" /\ quantum' = time'
  <2>1. NodesInv' /\ allocated' = allocated /\ pid' \in allocated /\ time' = kLevels - (pid' % kLevels)
    BY <1>1, <1>3, ChooseFacts
  <2>2. pid' % kLevels \in 0 .. kLevels - 1 /\ kLevels \in Nat
    BY <1>1, <2>1, SimFacts, ConstantFacts DEF NodesInv, Level
  <2>3. quantum' \in Nat /\ quantum' <= kLevels - (pid' % kLevels)
    BY <1>3, <2>1, <2>2
  <2>4. undefined' = undefined
    BY <1>3 DEF nextProcess
  <2> QED BY <1>1, <1>3, <2>1, <2>3, <2>4 DEF SimInv, SimType, MainInv
<1> QED BY <1>2, <1>3 DEF ChooseProcess

LEMMA RunSim == IInv /\ SimInv /\ RunUnit => SimInv'
<1> SUFFICES ASSUME IInv, SimInv, RunUnit PROVE SimInv'
  OBVIOUS
<1>1. /\ pc = "run" /\ quantum > 0 /\ processes[pid] > 0
      /\ processes' = [processes EXCEPT ![pid] = processes[pid] - 1]
      /\ quantum' = quantum - 1 /\ i' = i /\ pc' = pc
      /\ UNCHANGED <<node, allocated, levels, pid, undefined>>
      /\ SimType /\ NodesInv /\ MainInv
  BY DEF RunUnit, vars, SimInv
<1>2. pid \in allocated /\ pid \in Simulated /\ processes[pid] \in Int /\ quantum \in Nat
      /\ quantum <= kLevels - (pid % kLevels)
  BY <1>1 DEF MainInv, NodesInv, SimType
<1>3. pid % kLevels \in Int /\ kLevels \in Int
  BY <1>2, SimFacts, ConstantFacts DEF Level
<1>4. NodesInv'
  BY <1>1, NodesKept
<1>5. SimType'
  BY <1>1, <1>2 DEF SimType
<1>6. quantum' <= kLevels - (pid % kLevels)
  BY <1>1, <1>2, <1>3
<1>7. \A p \in Simulated : p # pid => processes'[p] = processes[p]
  BY <1>1 DEF SimType
<1>8. processes'[pid] >= 0
  BY <1>1, <1>2 DEF SimType
<1>9. MainInv'
  BY <1>1, <1>2, <1>6, <1>7, <1>8 DEF MainInv
<1> QED BY <1>4, <1>5, <1>9 DEF SimInv

\* What happens when the work of a process is over.
LEMMA FinishFacts ==
  ASSUME IInv, SimInv, FinishProcess
  PROVE  /\ pc = "run" /\ pc' = pc /\ quantum > 0 /\ quantum' = 0 /\ i' = i
         /\ pid \in allocated /\ pid \in Simulated /\ pid' = pid /\ undefined' = undefined
         /\ processes[pid] = 0 /\ processes' = [processes EXCEPT ![pid] = -1]
         /\ removeProcess(pid)
<1>1. /\ pc = "run" /\ pc' = pc /\ quantum > 0 /\ i' = i /\ processes[pid] <= 0
      /\ processes' = [processes EXCEPT ![pid] = processes[pid] - 1]
      /\ SimType /\ NodesInv /\ MainInv
  BY DEF FinishProcess, SimInv
<1>2. pid \in allocated /\ pid \in Simulated /\ processes[pid] \in Int /\ processes[pid] >= 0
  BY <1>1 DEF MainInv, NodesInv, SimType
<1>3. processes[pid] = 0 /\ processes[pid] - 1 = -1
  BY <1>1, <1>2
<1>4. Known(pid)
  BY <1>1, <1>2, ScheduledKnown
<1>5. removeProcess(pid) /\ quantum' = 0
  BY <1>4 DEF FinishProcess
<1> QED BY <1>1, <1>2, <1>3, <1>5 DEF removeProcess

LEMMA FinishSim == IInv /\ SimInv /\ FinishProcess => SimInv'
<1> SUFFICES ASSUME IInv, SimInv, FinishProcess PROVE SimInv'
  OBVIOUS
<1>1. /\ pc = "run" /\ pc' = pc /\ quantum' = 0 /\ i' = i
      /\ pid \in allocated /\ pid \in Simulated /\ pid' = pid /\ undefined' = undefined
      /\ processes' = [processes EXCEPT ![pid] = -1]
      /\ removeProcess(pid)
  BY FinishFacts
<1>2. SimType /\ NodesInv /\ MainInv
  BY DEF SimInv
<1>3. NodesInv' /\ allocated' = allocated \ {pid}
  BY <1>1, <1>2, RemoveFacts
<1>4. SimType'
  BY <1>1, <1>2 DEF SimType
<1>5. \A p \in Simulated : /\ p # pid => processes'[p] = processes[p]
                           /\ p = pid => processes'[p] = -1
  BY <1>1, <1>2 DEF SimType
<1>6. MainInv'
  BY <1>1, <1>2, <1>3, <1>5 DEF MainInv
<1> QED BY <1>3, <1>4, <1>6 DEF SimInv

\* The other steps of main do not touch the scheduler or the work.
LEMMA QuietSim ==
  ASSUME SimInv, AllAdded \/ QuantumOver \/ Exit \/ UNCHANGED <<vars, simVars>>
  PROVE  /\ UNCHANGED <<node, allocated, levels, pid, undefined, processes, i, quantum>>
         /\ SimInv'
<1>1. /\ UNCHANGED <<node, allocated, levels, pid, undefined, processes, i, quantum>>
      /\ \/ pc = "add" /\ i = Processes /\ pc' = "choose"
         \/ pc = "run" /\ quantum = 0 /\ pc' = "choose"
         \/ pc = "choose" /\ pc' = "done"
         \/ pc' = pc
  BY DEF AllAdded, QuantumOver, Exit, vars, simVars
<1>2. SimType /\ NodesInv /\ MainInv
  BY DEF SimInv
<1>3. NodesInv'
  BY <1>1, <1>2, NodesKept
<1>4. SimType'
  <2>1. undefined' => pc' = "undefined"
    BY <1>1, <1>2 DEF SimType
  <2> QED BY <1>1, <1>2, <2>1 DEF SimType
<1>5. CASE pc = "add" /\ i = Processes /\ pc' = "choose"
  <2>1. \A p \in Simulated : p \in allocated' /\ processes'[p] >= 0
    BY <1>1, <1>2, <1>5, SimFacts DEF MainInv, Simulated
  <2> QED BY <1>1, <1>3, <1>4, <1>5, <2>1 DEF SimInv, MainInv
<1>6. CASE pc # "add" /\ pc' \in {"choose", "done"}
  BY <1>1, <1>2, <1>3, <1>4, <1>6 DEF SimInv, MainInv
<1>7. CASE pc' = pc
  BY <1>1, <1>2, <1>3, <1>4, <1>7 DEF SimInv, MainInv
<1> QED BY <1>1, <1>5, <1>6, <1>7

LEMMA SimInvStep == IInv /\ SimInv /\ [SimNext]_<<vars, simVars>> => SimInv'
<1> SUFFICES ASSUME IInv, SimInv, [SimNext]_<<vars, simVars>> PROVE SimInv'
  OBVIOUS
<1>1. CASE AllAdded \/ QuantumOver \/ Exit \/ UNCHANGED <<vars, simVars>> \/ Terminated
  BY <1>1, QuietSim DEF Terminated
<1> QED BY <1>1, AddSim, ChooseSim, RunSim, FinishSim DEF SimNext

LEMMA SimInvHolds == SimSpec => [](IInv /\ SimInv)
<1>1. SimInit => IInv /\ SimInv
  BY IInvInit, SimInvInit DEF SimInit
<1>2. IInv /\ SimInv /\ [SimNext]_<<vars, simVars>> => (IInv /\ SimInv)'
  BY SimCalls, IInvStep, SimInvStep
<1> QED BY <1>1, <1>2, PTL DEF SimSpec

\* The simulator calls the scheduler as Spec allows: what is proved of the scheduler
\* holds in the simulation.
THEOREM SimulatorCalls == SimSpec => Spec
<1>1. SimInit => init
  BY DEF SimInit
<1> QED BY <1>1, SimCalls, SimInvHolds, PTL DEF SimSpec, Spec

\* main keeps a process scheduled exactly as long as it has work.
THEOREM WorkCorrect == SimSpec => []ScheduledHaveWork
<1>1. IInv /\ SimInv => ScheduledHaveWork
  <2> SUFFICES ASSUME IInv, SimInv, pc # "add", NEW p \in DOMAIN processes
               PROVE  IF Scheduled(p) THEN processes[p] >= 0 ELSE processes[p] = -1
    BY DEF ScheduledHaveWork
  <2>1. p \in Simulated
    BY DEF SimInv, SimType
  <2>2. Scheduled(p) <=> p \in allocated
    BY NodeFacts DEF SimInv
  <2> QED BY <2>1, <2>2 DEF SimInv, MainInv
<1> QED BY <1>1, SimInvHolds, PTL
-----------------------------------------------------------------------------
(* Rounds                                                                  *)

\* Those before the mark had their turn.
LEMMA GoneAt ==
  ASSUME NEW nodes, NEW lv, NEW s, Chain(nodes, lv, s),
         NEW k \in DOMAIN s, NEW m \in DOMAIN s, lv.curr = s[m]
  PROVE  Gone(s, lv.curr, s[k]) <=> k < m
BY DEF Gone, Chain

\* One who leaves either changes nothing for the others, or ends the round: then
\* they all had their turn.
LEMMA GoneCut ==
  ASSUME NEW nodes, NEW lv, NEW s, Chain(nodes, lv, s), NEW d \in DOMAIN s,
         NEW nodes2, NEW lv2, CutsOut(nodes, lv, s, d, nodes2, lv2)
  PROVE  \/ \A k \in DOMAIN s \ {d} : Gone(Cut(s, d), lv2.curr, s[k]) <=> Gone(s, lv.curr, s[k])
         \/ \A k \in DOMAIN s \ {d} : Gone(s, lv.curr, s[k]) /\ ~Gone(Cut(s, d), lv2.curr, s[k])
<1> DEFINE t == Cut(s, d)
<1>1. s \in Seq(Addr) /\ Len(s) \in Nat /\ DOMAIN s = 1 .. Len(s)
  BY ChainType
<1>2. /\ DOMAIN t = 1 .. Len(s) - 1
      /\ \A j \in DOMAIN t : (j < d => t[j] = s[j]) /\ (j >= d => t[j] = s[j + 1])
  BY <1>1, CutFacts
<1>3. Chain(nodes2, lv2, t)
  BY ChainCut
<1> HIDE DEF t
<1>4. Len(s) \in Nat /\ d \in 1 .. Len(s)
  BY <1>1
<1>5. CASE Len(s) = 1
  <2>1. DOMAIN s \ {d} = {}
    BY <1>1, <1>4, <1>5
  <2> QED BY <2>1
<1>6. CASE Len(s) # 1
  <2>1. Len(s) # 0
    BY <1>4
  <2>2. PICK m \in DOMAIN s : lv.curr = s[m]
    BY <2>1 DEF Chain
  <2>3. m \in 1 .. Len(s)
    BY <1>1
  <2>4. /\ d < m => m - 1 \in DOMAIN t /\ lv2.curr = t[m - 1]
        /\ d = m /\ d = Len(s) => 1 \in DOMAIN t /\ lv2.curr = t[1]
        /\ d > m \/ (d = m /\ d # Len(s)) => m \in DOMAIN t /\ lv2.curr = t[m]
    BY <1>6, <2>2, CutTurn DEF t
  <2>5. \A k \in DOMAIN s : Gone(s, lv.curr, s[k]) <=> k < m
    BY <2>2, GoneAt
  <2>6. ASSUME NEW k \in DOMAIN s \ {d}
        PROVE  /\ k \in 1 .. Len(s) /\ k # d
               /\ k < d => k \in DOMAIN t /\ t[k] = s[k]
               /\ k > d => k - 1 \in DOMAIN t /\ t[k - 1] = s[k]
    <3>1. k \in 1 .. Len(s) /\ k # d
      BY <1>1
    <3>2. /\ k < d => k \in 1 .. Len(s) - 1
          /\ k > d => k - 1 \in 1 .. Len(s) - 1 /\ k - 1 >= d /\ (k - 1) + 1 = k
      BY <1>4, <3>1
    <3> QED BY <1>2, <3>1, <3>2
  <2>7. ASSUME NEW n \in DOMAIN t, lv2.curr = t[n], NEW k \in DOMAIN s \ {d}
        PROVE  /\ k < d => (Gone(t, lv2.curr, s[k]) <=> k < n)
               /\ k > d => (Gone(t, lv2.curr, s[k]) <=> k - 1 < n)
    BY <1>3, <2>6, <2>7, GoneAt
  <2>8. CASE d < m
    <3>1. ASSUME NEW k \in DOMAIN s \ {d}
          PROVE  Gone(t, lv2.curr, s[k]) <=> Gone(s, lv.curr, s[k])
      BY <1>4, <2>3, <2>4, <2>5, <2>6, <2>7, <2>8
    <3> QED BY <3>1 DEF t
  <2>9. CASE d = m /\ d = Len(s)
    <3>1. ASSUME NEW k \in DOMAIN s \ {d}
          PROVE  Gone(s, lv.curr, s[k]) /\ ~Gone(t, lv2.curr, s[k])
      BY <1>4, <2>3, <2>4, <2>5, <2>6, <2>7, <2>9
    <3> QED BY <3>1 DEF t
  <2>10. CASE d > m \/ (d = m /\ d # Len(s))
    <3>1. ASSUME NEW k \in DOMAIN s \ {d}
          PROVE  Gone(t, lv2.curr, s[k]) <=> Gone(s, lv.curr, s[k])
      BY <1>4, <2>3, <2>4, <2>5, <2>6, <2>7, <2>10
    <3> QED BY <3>1 DEF t
  <2> QED BY <1>4, <2>3, <2>8, <2>9, <2>10
<1> QED BY <1>5, <1>6

\* A turn of the last one ends the round.
LEMMA GoneTurn ==
  ASSUME NEW nodes, NEW lv, NEW s, Chain(nodes, lv, s), NEW c \in DOMAIN s, lv.curr = s[c],
         NEW nodes2, NEW lv2, Chain(nodes2, lv2, s),
         c = Len(s) => 1 \in DOMAIN s /\ lv2.curr = s[1],
         c # Len(s) => c + 1 \in DOMAIN s /\ lv2.curr = s[c + 1]
  PROVE  /\ ~Gone(s, lv.curr, s[c])
         /\ c = Len(s) => \A k \in DOMAIN s : /\ k # c => Gone(s, lv.curr, s[k])
                                              /\ ~Gone(s, lv2.curr, s[k])
         /\ c # Len(s) => \A k \in DOMAIN s :
                            Gone(s, lv2.curr, s[k]) <=> Gone(s, lv.curr, s[k]) \/ k = c
<1>1. Len(s) \in Nat /\ DOMAIN s = 1 .. Len(s)
  BY ChainType
<1>2. Len(s) \in Nat /\ c \in 1 .. Len(s) /\ \A k \in DOMAIN s : k \in 1 .. Len(s)
  BY <1>1
<1>3. \A k \in DOMAIN s : Gone(s, lv.curr, s[k]) <=> k < c
  BY GoneAt
<1>4. c = Len(s) => \A k \in DOMAIN s : Gone(s, lv2.curr, s[k]) <=> k < 1
  BY GoneAt
<1>5. c # Len(s) => \A k \in DOMAIN s : Gone(s, lv2.curr, s[k]) <=> k < c + 1
  BY GoneAt
<1> QED BY <1>2, <1>3, <1>4, <1>5

\* A level where nothing happens, or its process goes on.
LEMMA ShareKept ==
  ASSUME NEW l \in Level, ShareInv(l), Nodes(l)' = Nodes(l), List(l)' = List(l),
         levels'[l].curr = levels[l].curr, \A a \in Nodes(l) : Rest(a)' = Rest(a),
         pc' = "run" /\ quantum' > 0 /\ pid' \in Nodes(l) => pc = "run" /\ quantum > 0 /\ pid' = pid
  PROVE  ShareInv(l)'
<1>1. \A a : Had(l, a)' <=> Had(l, a)
  BY DEF Had
<1> QED BY <1>1 DEF ShareInv

\* The nodes of a level are those of its list.
NodesListed == \A l \in Level : Nodes(l) = {List(l)[k] : k \in DOMAIN List(l)}

LEMMA NodesNow == IInv => NodesListed
BY ListFacts DEF NodesListed

LEMMA NodesNext == IInv' => NodesListed'
BY NodesNow, PTL

\* nextProcess: the process in turn will be one quantum ahead.
LEMMA ChooseShares ==
  ASSUME IInv, SimInv, SharesInv, ChooseProcess, nextProcess, IInv', SimInv',
         pc' = "run", quantum' = time', NEW l \in Level
  PROVE  ShareInv(l)'
<1>1. /\ pc = "choose" /\ processes' = processes /\ processes \in [Simulated -> Int]
      /\ NodesInv /\ \A m \in Level : ShareInv(m)
  BY DEF ChooseProcess, SimInv, SimType, SharesInv
<1>2. \A m \in Level : List(m)' = List(m)
  BY <1>1, ChooseFacts
<1>3. PICK o \in Level : \E c \in DOMAIN List(o) :
        /\ levels[o].curr = List(o)[c] /\ pid' = List(o)[c]
        /\ pid' \in allocated /\ time' = kLevels - (pid' % kLevels)
        /\ c = Len(List(o)) => 1 \in DOMAIN List(o) /\ levels'[o].curr = List(o)[1]
        /\ c # Len(List(o)) => c + 1 \in DOMAIN List(o) /\ levels'[o].curr = List(o)[c + 1]
        /\ \A m \in Level : m # o => levels'[m] = levels[m]
  BY <1>1, ChooseFacts
<1>4. PICK c \in DOMAIN List(o) :
        /\ levels[o].curr = List(o)[c] /\ pid' = List(o)[c]
        /\ pid' \in allocated /\ time' = kLevels - (pid' % kLevels)
        /\ c = Len(List(o)) => 1 \in DOMAIN List(o) /\ levels'[o].curr = List(o)[1]
        /\ c # Len(List(o)) => c + 1 \in DOMAIN List(o) /\ levels'[o].curr = List(o)[c + 1]
        /\ \A m \in Level : m # o => levels'[m] = levels[m]
  BY <1>3
<1>5. \A m \in Level : /\ Nodes(m) = {List(m)[k] : k \in DOMAIN List(m)}
                       /\ Nodes(m)' = Nodes(m)
                       /\ \A a \in Nodes(m) : a \in Simulated /\ a % kLevels = m
  <2>1. \A m \in Level : /\ Nodes(m) = {List(m)[k] : k \in DOMAIN List(m)}
                         /\ \A a \in Nodes(m) : a \in Simulated /\ a % kLevels = m
    BY <1>1, NodeFacts
  <2>2. \A m \in Level : Nodes(m)' = {List(m)'[k] : k \in DOMAIN List(m)'}
    BY NodesNext DEF NodesListed
  <2> QED BY <1>2, <2>1, <2>2
<1>6. pid' \in Nodes(o) /\ time' = kLevels - o /\ pid' % kLevels = o
  BY <1>4, <1>5
<1>6a. PICK w \in Nodes(o) : w = pid'
  BY <1>6
<1>7. CASE l # o
  <2>1. pid' \notin Nodes(l)
    BY <1>5, <1>6, <1>7
  <2>2. \A a \in Nodes(l) : Rest(a)' = Rest(a)
    BY <1>1, <2>1 DEF Rest
  <2> QED BY <1>1, <1>2, <1>4, <1>5, <1>7, <2>1, <2>2, ShareKept
<1>8. CASE l = o
  <2> DEFINE s == List(l)
  <2>1. /\ \A a \in Nodes(l) : a # w => Rest(a)' = Rest(a)
        /\ Rest(w)' = Rest(w) - (kLevels - l)
        /\ \A a \in Nodes(l) : Rest(a) \in Int
        /\ kLevels - l \in Int
    <3>1. \A a \in Nodes(l) : processes[a] \in Int /\ Rest(a) = processes[a]
      BY <1>1, <1>5 DEF Rest
    <3>2. \A a \in Nodes(l) : a # w => Rest(a)' = processes[a]
      BY <1>1, <1>6a DEF Rest
    <3>3. Rest(w)' = processes'[w] - quantum'
      BY <1>6a DEF Rest
    <3>4. Rest(w)' = processes[w] - (kLevels - l)
      BY <1>1, <1>6, <1>8, <3>3
    <3> QED BY <1>6, <1>8, <3>1, <3>2, <3>4, ConstantFacts
  <2>2. /\ Chain(node, levels[l], s) /\ Chain(node', levels'[l], s)
    BY <1>2, ListFacts DEF IInv, ListsInv
  <2>3. /\ ~Gone(s, levels[l].curr, s[c])
        /\ c = Len(s) => \A k \in DOMAIN s : /\ k # c => Gone(s, levels[l].curr, s[k])
                                             /\ ~Gone(s, levels'[l].curr, s[k])
        /\ c # Len(s) => \A k \in DOMAIN s :
                           Gone(s, levels'[l].curr, s[k]) <=> Gone(s, levels[l].curr, s[k]) \/ k = c
    BY <1>4, <1>8, <2>2, GoneTurn
  <2>4. \A a : /\ Had(l, a) <=> Gone(s, levels[l].curr, a)
               /\ Had(l, a)' <=> Gone(s, levels'[l].curr, a)
    BY <1>2 DEF Had
  <2>5. w = s[c] /\ c \in DOMAIN s
    BY <1>4, <1>6a, <1>8
  <2>6. \A a \in Nodes(l) : \E k \in DOMAIN s : a = s[k] /\ (k = c <=> a = w)
    <3>1. \A k \in DOMAIN s : s[k] = w => k = c
      BY <2>2, <2>5 DEF Chain
    <3>2. \A a \in Nodes(l) : \E k \in DOMAIN s : a = s[k]
      BY <1>5
    <3> QED BY <2>5, <3>1, <3>2
  <2> HIDE DEF s
  <2>7. ~Had(l, w)
    BY <2>3, <2>4, <2>5
  <2>8. \/ \A a \in Nodes(l) : (a # w => Had(l, a)) /\ ~Had(l, a)'
        \/ \A a \in Nodes(l) : Had(l, a)' <=> Had(l, a) \/ a = w
    BY <2>3, <2>4, <2>5, <2>6
  <2>9. ASSUME NEW a \in Nodes(l), NEW b \in Nodes(l)
        PROVE  /\ (Had(l, a)' <=> Had(l, b)') => Rest(a)' = Rest(b)'
               /\ Had(l, a)' /\ ~Had(l, b)' => Rest(b)' = Rest(a)' + (kLevels - l)
               /\ a = w /\ Had(l, b)' => Had(l, a)'
    <3>1. /\ (Had(l, a) <=> Had(l, b)) => Rest(a) = Rest(b)
          /\ Had(l, a) /\ ~Had(l, b) => Rest(b) = Rest(a) + (kLevels - l)
          /\ Had(l, b) /\ ~Had(l, a) => Rest(a) = Rest(b) + (kLevels - l)
      BY <1>1 DEF ShareInv
    <3>2. /\ Rest(a) \in Int /\ Rest(b) \in Int
          /\ a # w => Rest(a)' = Rest(a)
          /\ b # w => Rest(b)' = Rest(b)
          /\ a = w => Rest(a)' = Rest(a) - (kLevels - l) /\ ~Had(l, a)
          /\ b = w => Rest(b)' = Rest(b) - (kLevels - l) /\ ~Had(l, b)
      BY <2>1, <2>7
    <3> DEFINE Q == kLevels - l
               ra == Rest(a)
               rb == Rest(b)
               ra2 == Rest(a)'
               rb2 == Rest(b)'
    <3>3. /\ ra \in Int /\ rb \in Int /\ Q \in Int
          /\ a # w => ra2 = ra
          /\ b # w => rb2 = rb
          /\ a = w => ra2 = ra - Q /\ ~Had(l, a)
          /\ b = w => rb2 = rb - Q /\ ~Had(l, b)
          /\ (Had(l, a) <=> Had(l, b)) => ra = rb
          /\ Had(l, a) /\ ~Had(l, b) => rb = ra + Q
          /\ Had(l, b) /\ ~Had(l, a) => ra = rb + Q
          /\ a = b => ra2 = rb2
      BY <2>1, <3>1, <3>2
    <3> HIDE DEF Q, ra, rb, ra2, rb2
    <3>4. CASE \A n \in Nodes(l) : (n # w => Had(l, n)) /\ ~Had(l, n)'
      <4>1. ~Had(l, a)' /\ ~Had(l, b)' /\ (a # w => Had(l, a)) /\ (b # w => Had(l, b))
        BY <3>4
      <4>2. ra2 = rb2
        BY <3>3, <4>1
      <4> QED BY <4>1, <4>2 DEF ra2, rb2
    <3>5. CASE \A n \in Nodes(l) : Had(l, n)' <=> Had(l, n) \/ n = w
      <4>1. (Had(l, a)' <=> Had(l, a) \/ a = w) /\ (Had(l, b)' <=> Had(l, b) \/ b = w)
        BY <3>5
      <4>2. /\ (Had(l, a)' <=> Had(l, b)') => ra2 = rb2
            /\ Had(l, a)' /\ ~Had(l, b)' => rb2 = ra2 + Q
        BY <3>3, <4>1
      <4> QED BY <4>1, <4>2 DEF ra2, rb2, Q
    <3> QED BY <2>8, <3>4, <3>5
  <2> QED BY <1>5, <1>6a, <2>9 DEF ShareInv
<1> QED BY <1>7, <1>8

\* A process ends: the round of the others goes on, or is over for all of them.
LEMMA FinishShares ==
  ASSUME IInv, SimInv, SharesInv, FinishProcess, IInv', NEW l \in Level
  PROVE  ShareInv(l)'
<1>1. /\ pc = "run" /\ pc' = pc /\ quantum' = 0 /\ pid' = pid /\ pid \in Simulated
      /\ processes' = [processes EXCEPT ![pid] = -1] /\ processes \in [Simulated -> Int]
      /\ removeProcess(pid) /\ NodesInv /\ \A m \in Level : ShareInv(m)
  BY FinishFacts DEF SimInv, SimType, SharesInv
<1>2. PICK o \in Level : \E d \in DOMAIN List(o) :
        /\ List(o)[d] = pid /\ List(o)' = Cut(List(o), d)
        /\ CutsOut(node, levels[o], List(o), d, node', levels'[o])
        /\ \A m \in Level : m # o => List(m)' = List(m) /\ levels'[m] = levels[m]
  BY <1>1, RemoveFacts
<1>3. PICK d \in DOMAIN List(o) :
        /\ List(o)[d] = pid /\ List(o)' = Cut(List(o), d)
        /\ CutsOut(node, levels[o], List(o), d, node', levels'[o])
        /\ \A m \in Level : m # o => List(m)' = List(m) /\ levels'[m] = levels[m]
  BY <1>2
<1>4. \A m \in Level : /\ Nodes(m) = {List(m)[k] : k \in DOMAIN List(m)}
                       /\ Nodes(m)' = {List(m)'[k] : k \in DOMAIN List(m)'}
                       /\ \A a \in Nodes(m) : a \in Simulated /\ a % kLevels = m
  BY <1>1, NodeFacts, NodesNext DEF NodesListed
<1>5. \A a \in Simulated : a # pid => Rest(a)' = Rest(a)
  BY <1>1 DEF Rest
<1>6. CASE l # o
  <2>a. List(l)' = List(l) /\ levels'[l] = levels[l]
    BY <1>3, <1>6
  <2>b. /\ Nodes(l) = {List(l)[k] : k \in DOMAIN List(l)}
        /\ Nodes(l)' = {List(l)'[k] : k \in DOMAIN List(l)'}
    BY <1>4
  <2>c. Nodes(l)' = Nodes(l)
    BY <2>a, <2>b, Zenon
  <2>1. List(l)' = List(l) /\ levels'[l].curr = levels[l].curr /\ Nodes(l)' = Nodes(l)
    BY <2>a, <2>c
  <2>2. pid \notin Nodes(l)
    BY <1>3, <1>4, <1>6
  <2>3. \A a \in Nodes(l) : Rest(a)' = Rest(a)
    BY <1>4, <1>5, <2>2
  <2>4. ~(quantum' > 0)
    BY <1>1
  <2> QED BY <1>1, <2>1, <2>3, <2>4, ShareKept
<1>7. CASE l = o
  <2> DEFINE s == List(l)
  <2>1. Chain(node, levels[l], s) /\ s \in Seq(Addr)
    BY ListFacts, ChainType
  <2>2. List(l)' = Cut(s, d) /\ CutsOut(node, levels[l], s, d, node', levels'[l]) /\ s[d] = pid
        /\ d \in DOMAIN s
    BY <1>3, <1>7
  <2>3. {Cut(s, d)[k] : k \in DOMAIN Cut(s, d)} = {s[k] : k \in DOMAIN s \ {d}}
    BY <2>1, <2>2, CutFacts
  <2>4. Nodes(l)' = {s[k] : k \in DOMAIN s \ {d}}
    BY <1>4, <2>2, <2>3
  <2>5. \/ \A k \in DOMAIN s \ {d} : Gone(Cut(s, d), levels'[l].curr, s[k]) <=> Gone(s, levels[l].curr, s[k])
        \/ \A k \in DOMAIN s \ {d} : Gone(s, levels[l].curr, s[k]) /\ ~Gone(Cut(s, d), levels'[l].curr, s[k])
    BY <2>1, <2>2, GoneCut
  <2>6. \A a : /\ Had(l, a) <=> Gone(s, levels[l].curr, a)
               /\ Had(l, a)' <=> Gone(Cut(s, d), levels'[l].curr, a)
    BY <2>2 DEF Had
  <2>7. \A a \in Nodes(l)' : a \in Nodes(l) /\ a # pid /\ a \in Simulated
    <3>1. \A k \in DOMAIN s \ {d} : s[k] # pid
      BY <2>1, <2>2 DEF Chain
    <3> QED BY <1>4, <2>4, <3>1
  <2> HIDE DEF s
  <2>8. \/ \A a \in Nodes(l)' : Had(l, a)' <=> Had(l, a)
        \/ \A a \in Nodes(l)' : Had(l, a) /\ ~Had(l, a)'
    BY <2>4, <2>5, <2>6
  <2>9. ASSUME NEW a \in Nodes(l)', NEW b \in Nodes(l)'
        PROVE  /\ (Had(l, a)' <=> Had(l, b)') => Rest(a)' = Rest(b)'
               /\ Had(l, a)' /\ ~Had(l, b)' => Rest(b)' = Rest(a)' + (kLevels - l)
    <3>1. a \in Nodes(l) /\ b \in Nodes(l) /\ Rest(a)' = Rest(a) /\ Rest(b)' = Rest(b)
      BY <1>5, <2>7
    <3>2. /\ (Had(l, a) <=> Had(l, b)) => Rest(a) = Rest(b)
          /\ Had(l, a) /\ ~Had(l, b) => Rest(b) = Rest(a) + (kLevels - l)
      BY <1>1, <3>1 DEF ShareInv
    <3> QED BY <2>8, <3>1, <3>2
  <2>10. ~(quantum' > 0)
    BY <1>1
  <2> QED BY <2>9, <2>10 DEF ShareInv
<1> QED BY <1>6, <1>7

\* One more unit leaves what will be left after the quantum as it is.
LEMMA RunShares ==
  ASSUME IInv, SimInv, SharesInv, RunUnit, NEW l \in Level
  PROVE  ShareInv(l)'
<1>1. /\ pc = "run" /\ pc' = pc /\ quantum > 0 /\ quantum \in Int /\ quantum' = quantum - 1 /\ pid' = pid
      /\ processes' = [processes EXCEPT ![pid] = processes[pid] - 1] /\ processes \in [Simulated -> Int]
      /\ UNCHANGED <<node, allocated, levels>> /\ NodesInv /\ ShareInv(l)
  BY DEF RunUnit, SimInv, SimType, SharesInv, vars
<1>2. List(l)' = List(l) /\ Nodes(l)' = Nodes(l) /\ \A a \in Nodes(l) : a \in Simulated
  BY <1>1, NodesKept, NodeFacts
<1>3. ASSUME NEW a \in Nodes(l) PROVE Rest(a)' = Rest(a)
  <2>1. a \in Simulated /\ processes[a] \in Int
    BY <1>1, <1>2
  <2>2. CASE a # pid
    BY <1>1, <2>1, <2>2 DEF Rest
  <2>3. CASE a = pid
    <3>1. Rest(a)' = processes'[a] - quantum' /\ Rest(a) = processes[a] - quantum
      BY <1>1, <2>3 DEF Rest
    <3>2. processes'[a] = processes[a] - 1
      BY <1>1, <2>1, <2>3
    <3> QED BY <1>1, <2>1, <3>1, <3>2
  <2> QED BY <2>2, <2>3
<1> QED BY <1>1, <1>2, <1>3, ShareKept

\* Before the first choice nobody had a turn.
LEMMA FirstShares ==
  ASSUME IInv, SimInv, AllAdded, NEW l \in Level
  PROVE  ShareInv(l)'
<1>1. /\ pc = "add" /\ pc' = "choose" /\ processes' = processes /\ UNCHANGED <<node, allocated, levels>>
      /\ NodesInv /\ (\A p \in Simulated : processes[p] = Units)
      /\ \A m \in Level : levels[m].curr = levels[m].head
  BY DEF AllAdded, SimInv, MainInv, vars
<1>2. List(l)' = List(l) /\ Nodes(l)' = Nodes(l) /\ \A a \in Nodes(l) : a \in Simulated
  BY <1>1, NodesKept, NodeFacts
<1>3. \A a : ~Had(l, a)'
  <2> DEFINE s == List(l)
  <2>1. Chain(node, levels[l], s) /\ Len(s) \in Nat /\ DOMAIN s = 1 .. Len(s)
    BY ListFacts
  <2>2. ASSUME NEW j \in DOMAIN s, NEW k \in DOMAIN s, s[k] = levels[l].curr
        PROVE  ~(j < k)
    <3>1. Len(s) \in Nat /\ j \in 1 .. Len(s) /\ k \in 1 .. Len(s)
      BY <2>1
    <3>2. Len(s) # 0 /\ 1 \in DOMAIN s
      BY <2>1, <3>1
    <3>3. s[k] = s[1]
      BY <1>1, <2>1, <2>2, <3>2 DEF Chain
    <3>4. k = 1
      BY <2>1, <3>2, <3>3 DEF Chain
    <3> QED BY <3>1, <3>4
  <2>3. \A a : Had(l, a)' <=> Gone(s, levels[l].curr, a)
    BY <1>1, <1>2 DEF Had
  <2> QED BY <2>2, <2>3 DEF Gone
<1>4. \A a \in Nodes(l) : Rest(a)' = Units
  BY <1>1, <1>2 DEF Rest
<1> QED BY <1>1, <1>2, <1>3, <1>4 DEF ShareInv

\* A step of main that touches neither the scheduler nor the work.
LEMMA QuietShares ==
  ASSUME IInv, SimInv, SharesInv, QuantumOver \/ Exit \/ UNCHANGED <<vars, simVars>>, pc # "add",
         NEW l \in Level
  PROVE  ShareInv(l)'
<1>1. /\ UNCHANGED <<node, allocated, levels, pid, processes, quantum>> /\ NodesInv /\ ShareInv(l)
      /\ processes \in [Simulated -> Int] /\ quantum \in Nat
  BY QuietSim DEF SimInv, SimType, SharesInv
<1>2. pc' = pc \/ (pc = "run" /\ quantum = 0 /\ pc' = "choose") \/ (pc = "choose" /\ pc' = "done")
  BY DEF QuantumOver, Exit, simVars
<1>3. List(l)' = List(l) /\ Nodes(l)' = Nodes(l) /\ \A a \in Nodes(l) : a \in Simulated
  BY <1>1, NodesKept, NodeFacts
<1>4. ASSUME NEW a \in Nodes(l) PROVE Rest(a)' = Rest(a)
  <2>1. processes[a] \in Int /\ processes[a] - 0 = processes[a]
    BY <1>1, <1>3
  <2> QED BY <1>1, <1>2, <2>1 DEF Rest
<1> QED BY <1>1, <1>2, <1>3, <1>4, ShareKept

LEMMA SharesStep ==
  IInv /\ IInv' /\ SimInv /\ SimInv' /\ SharesInv /\ [SimNext]_<<vars, simVars>> => SharesInv'
<1> SUFFICES ASSUME IInv, IInv', SimInv, SimInv', SharesInv, [SimNext]_<<vars, simVars>>, pc' # "add",
                    NEW l \in Level
             PROVE  ShareInv(l)'
  BY DEF SharesInv
<1>1. CASE QuantumOver \/ Exit \/ UNCHANGED <<vars, simVars>> \/ Terminated
  <2>1. pc # "add"
    BY <1>1 DEF QuantumOver, Exit, Terminated, simVars
  <2> QED BY <1>1, <2>1, QuietShares DEF Terminated
<1>2. CASE ChooseProcess /\ nextProcess /\ pc' = "run" /\ quantum' = time'
  BY <1>2, ChooseShares
<1>3. CASE ChooseProcess /\ nextProcessBeyond /\ pc' = "undefined" /\ UNCHANGED quantum
  <2>1. /\ pc = "choose" /\ UNCHANGED <<node, allocated, levels, pid, processes>> /\ NodesInv /\ ShareInv(l)
    BY <1>3 DEF ChooseProcess, nextProcessBeyond, SimInv, SharesInv
  <2>2. List(l)' = List(l) /\ Nodes(l)' = Nodes(l) /\ \A a \in Nodes(l) : Rest(a)' = Rest(a)
    BY <1>3, <2>1, NodesKept DEF Rest
  <2> QED BY <1>3, <2>1, <2>2, ShareKept
<1>4. CASE Add
  BY <1>4 DEF Add
<1> QED BY <1>1, <1>2, <1>3, <1>4, FinishShares, RunShares, FirstShares DEF SimNext, ChooseProcess

\* No process of a level is ever more than one quantum ahead of another that is
\* scheduled, whoever has finished and left in the middle of a round.
THEOREM SharesCorrect == SimSpec => []FairShare
<1>1. SimInit => SharesInv
  BY DEF SimInit, SharesInv
<1>2. IInv /\ SimInv /\ SharesInv => FairShare
  <2> SUFFICES ASSUME IInv, SimInv, SharesInv, pc # "add",
                      NEW p \in DOMAIN processes, NEW q \in DOMAIN processes,
                      Scheduled(p), Scheduled(q), p % kLevels = q % kLevels
               PROVE  processes[p] - processes[q] <= priority_translation[p % kLevels]
    BY DEF FairShare
  <2> DEFINE l == p % kLevels
             Q == kLevels - l
             rp == Rest(p)
             rq == Rest(q)
  <2>1. /\ p \in Simulated /\ q \in Simulated /\ processes[p] \in Int /\ processes[q] \in Int
        /\ quantum \in Nat
    BY DEF SimInv, SimType
  <2>2. l \in Level /\ priority_translation[l] = Q /\ Q \in Int /\ Q >= 0
    <3>1. l \in Level /\ priority_translation = [m \in Level |-> kLevels - m]
      BY <2>1, SimFacts
    <3>2. l \in 0 .. kLevels - 1 /\ kLevels \in Nat
      BY <3>1, ConstantFacts DEF Level
    <3> HIDE DEF l
    <3> QED BY <3>1, <3>2
  <2>3. p \in allocated /\ q \in allocated /\ p \in Nodes(l) /\ q \in Nodes(l)
    BY NodeFacts DEF SimInv
  <2>4. ShareInv(l)
    BY <2>2 DEF SharesInv
  <2>5. /\ (Had(l, p) <=> Had(l, q)) => rp = rq
        /\ Had(l, p) /\ ~Had(l, q) => rq = rp + Q
        /\ Had(l, q) /\ ~Had(l, p) => rp = rq + Q
        /\ pc = "run" /\ quantum > 0 /\ p = pid /\ Had(l, q) => Had(l, p)
    BY <2>3, <2>4 DEF ShareInv
  <2>6. pc = "run" /\ quantum > 0 /\ p = pid => quantum <= Q
    BY DEF SimInv, MainInv
  <2>7. /\ pc = "run" /\ p = pid => processes[p] = rp + quantum
        /\ ~(pc = "run" /\ p = pid) => processes[p] = rp
        /\ pc = "run" /\ q = pid => processes[q] = rq + quantum
        /\ ~(pc = "run" /\ q = pid) => processes[q] = rq
        /\ rp \in Int /\ rq \in Int
    BY <2>1 DEF Rest
  <2>8. p = q => processes[p] = processes[q]
    OBVIOUS
  <2> HIDE DEF l, Q, rp, rq
  <2>9. processes[p] - processes[q] <= Q
    BY <2>1, <2>2, <2>5, <2>6, <2>7, <2>8
  <2> QED BY <2>2, <2>9 DEF l
<1> QED BY <1>1, <1>2, SharesStep, SimInvHolds, PTL DEF SimSpec
=============================================================================
