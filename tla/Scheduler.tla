----------------------------- MODULE Scheduler ------------------------------
(***************************************************************************)
(* The multilevel round-robin scheduler of lab5 (schedule.cc): per level a *)
(* doubly linked list of nodes with a pointer to the node that runs next.  *)
(* The functions run one at a time; each is an action.  A node's address   *)
(* is a member of Addr, and calloc fails when they are all in use.         *)
(***************************************************************************)
EXTENDS Integers, FiniteSets

CONSTANTS
  NULL,
  Addr,      \* addresses calloc may return
  Pid,       \* process IDs
  kLevels    \* number of levels

ASSUME SchedulerAssumption ==
  /\ NULL \notin Addr /\ IsFiniteSet(Addr)
  /\ Pid \subseteq Nat
  /\ kLevels \in Nat \ {0}

Level == 0 .. kLevels - 1
Ptr   == Addr \cup {NULL}

VARIABLES
  node,        \* the memory at each address: pid, quanta, next, prev
  allocated,   \* addresses calloc returned and nobody freed
  levels,      \* per level the pointers curr, head and tail
  current,     \* current level of the queue
  pid,         \* what nextProcess returned last
  time,        \* its other result, the quantum of that process
  undefined    \* has nextProcess read beyond the array of levels?

vars == <<node, allocated, levels, current, pid, time, undefined>>

\* Mutant: the highest level gets the shortest quantum.
BugQuantaReversed == [x \in Level |-> x + 1]

priority_translation == [x \in Level |-> kLevels - x]

Blank == [pid |-> 0, quanta |-> 0, next |-> NULL, prev |-> NULL]

init ==
  /\ node = [a \in Addr |-> Blank] /\ allocated = {}
  /\ levels = [l \in Level |-> [curr |-> NULL, head |-> NULL, tail |-> NULL]]
  /\ current = 0
  /\ pid = -1 /\ time = 0 /\ undefined = FALSE

Steps == 0 .. Cardinality(Addr)

\* The nodes a walk along next meets: at[k] is the k-th after the first.
WalkFrom(first, nodes) ==
  LET at[k \in Steps] ==
        IF k = 0 THEN first
        ELSE IF at[k - 1] = NULL THEN NULL ELSE nodes[at[k - 1]].next
  IN  at

Walk(l) == WalkFrom(levels[l].head, node)

Length(l) == Cardinality({k \in Steps : Walk(l)[k] # NULL})

hasProcess == \E l \in Level : levels[l].head # NULL
-----------------------------------------------------------------------------
(* addProcess                                                              *)

addProcess(p, priority, n) ==
  LET l == priority - 1
  IN  /\ n \in Addr \ allocated
      /\ allocated' = allocated \cup {n}
      /\ LET new == [pid |-> p, quanta |-> priority_translation[l], next |-> NULL,
                     prev |-> IF levels[l].head = NULL THEN NULL ELSE levels[l].tail]
         IN  IF levels[l].head = NULL
             THEN /\ node' = [node EXCEPT ![n] = new]
                  /\ levels' = [levels EXCEPT ![l] = [curr |-> n, head |-> n, tail |-> n]]
             ELSE /\ node' = [node EXCEPT ![levels[l].tail].next = n, ![n] = new]
                  /\ levels' = [levels EXCEPT ![l].tail = n]
      /\ UNCHANGED <<current, pid, time, undefined>>

\* calloc returned NULL.
addProcessFails == allocated = Addr /\ UNCHANGED vars
-----------------------------------------------------------------------------
(* removeProcess                                                           *)

\* find_node: the first node with this pid on the first level that has one.
IsFirst(p, l, k) ==
  /\ Walk(l)[k] # NULL /\ node[Walk(l)[k]].pid = p
  /\ \A m \in Level, j \in Steps :
       Walk(m)[j] # NULL /\ node[Walk(m)[j]].pid = p => l < m \/ (l = m /\ k <= j)

Known(p) == \E l \in Level, k \in Steps : IsFirst(p, l, k)

\* Mutant: the node is not freed.
BugNotFreed(n) == UNCHANGED allocated

free(n) == allocated' = allocated \ {n}

\* Mutant: the new tail is not recorded.
BugTailKept(l, n) ==
  /\ node[n].prev # NULL /\ node[n].next = NULL
  /\ node' = [node EXCEPT ![node[n].prev].next = NULL, ![n] = Blank]
  /\ levels' = [levels EXCEPT ![l].curr = IF @ = n THEN levels[l].head ELSE @]

\* Mutant: taking a node from the middle always sends curr back to the head.
BugCurrToHead(l, n) ==
  /\ node[n].prev # NULL /\ node[n].next # NULL
  /\ node' = [node EXCEPT ![node[n].next].prev = node[n].prev,
                          ![node[n].prev].next = node[n].next, ![n] = Blank]
  /\ levels' = [levels EXCEPT ![l].curr = levels[l].head]

\* The tail pointer is left alone, so it dangles when the list becomes empty.
UnlinkHead(l, n) ==
  /\ node[n].prev = NULL
  /\ node' = IF node[n].next = NULL
             THEN [node EXCEPT ![n] = Blank]
             ELSE [node EXCEPT ![node[n].next].prev = NULL, ![n] = Blank]
  /\ levels' = [levels EXCEPT ![l].head = node[n].next,
                              ![l].curr = IF @ = n THEN node[n].next ELSE @]

UnlinkTail(l, n) ==
  /\ node[n].prev # NULL /\ node[n].next = NULL
  /\ node' = [node EXCEPT ![node[n].prev].next = NULL, ![n] = Blank]
  /\ levels' = [levels EXCEPT ![l].tail = node[n].prev,
                              ![l].curr = IF @ = n THEN levels[l].head ELSE @]

UnlinkMiddle(l, n) ==
  /\ node[n].prev # NULL /\ node[n].next # NULL
  /\ node' = [node EXCEPT ![node[n].next].prev = node[n].prev,
                          ![node[n].prev].next = node[n].next, ![n] = Blank]
  /\ levels' = [levels EXCEPT ![l].curr = IF @ = n THEN node[n].next ELSE @]

removeProcess(p) ==
  /\ \E l \in Level, k \in Steps :
       /\ IsFirst(p, l, k)
       /\ LET n == Walk(l)[k]
          IN  (UnlinkHead(l, n) \/ UnlinkTail(l, n) \/ UnlinkMiddle(l, n)) /\ free(n)
  /\ UNCHANGED <<current, pid, time, undefined>>

removeProcessFails(p) == ~Known(p) /\ UNCHANGED vars
-----------------------------------------------------------------------------
(* nextProcess                                                             *)

\* Mutant: the level does not move on after its process ran.
BugLevelKept(l, n) ==
  /\ pid' = node[n].pid /\ time' = node[n].quanta
  /\ levels' = [levels EXCEPT ![l].curr = IF node[n].next = NULL THEN levels[l].head
                                          ELSE node[n].next]
  /\ current' = l

\* Mutant: the level does not step to its next process.
BugCurrKept(l, n) ==
  /\ pid' = node[n].pid /\ time' = node[n].quanta
  /\ UNCHANGED levels
  /\ current' = IF l + 1 >= kLevels THEN 0 ELSE l + 1

\* Mutant: the level index is not brought back to 0.
BugNoWrap(l, n) ==
  /\ pid' = node[n].pid /\ time' = node[n].quanta
  /\ levels' = [levels EXCEPT ![l].curr = IF node[n].next = NULL THEN levels[l].head
                                          ELSE node[n].next]
  /\ current' = l + 1

Take(l, n) ==
  /\ pid' = node[n].pid /\ time' = node[n].quanta
  /\ levels' = [levels EXCEPT ![l].curr = IF node[n].next = NULL THEN levels[l].head
                                          ELSE node[n].next]
  /\ current' = IF l + 1 >= kLevels THEN 0 ELSE l + 1

\* The level the loop stops at: it looks from the current one up, and no further.
Serving ==
  {l \in current .. kLevels - 1 :
     levels[l].curr # NULL /\ \A m \in current .. l - 1 : levels[m].curr = NULL}

nextProcess ==
  /\ hasProcess
  /\ \E l \in Serving : Take(l, levels[l].curr)
  /\ UNCHANGED <<node, allocated, undefined>>

nextProcessNone ==
  /\ ~hasProcess
  /\ pid' = -1
  /\ UNCHANGED <<node, allocated, levels, current, time, undefined>>

\* It runs past the last level: what it reads there is not a level.
nextProcessBeyond ==
  /\ hasProcess
  /\ Serving = {}
  /\ undefined' = TRUE
  /\ UNCHANGED <<node, allocated, levels, current, pid, time>>
-----------------------------------------------------------------------------
\* Any caller: processes come and go between the calls of nextProcess.
OtherCall ==
  \/ \E p \in Pid, priority \in 1 .. kLevels, n \in Addr : addProcess(p, priority, n)
  \/ addProcessFails
  \/ \E p \in Pid : removeProcess(p) \/ removeProcessFails(p)
  \/ nextProcessNone \/ nextProcessBeyond

Next == ~undefined /\ (OtherCall \/ nextProcess)

Spec == init /\ [][Next]_vars
-----------------------------------------------------------------------------
(* What makes the scheduler correct.                                       *)

TypeOK ==
  /\ node \in [Addr -> [pid : Pid \cup {0}, quanta : 0 .. kLevels, next : Ptr, prev : Ptr]]
  /\ allocated \subseteq Addr
  /\ levels \in [Level -> [curr : Ptr, head : Ptr, tail : Ptr]]
  /\ current \in Level
  /\ pid \in Pid \cup {-1} /\ time \in 0 .. kLevels
  /\ undefined \in BOOLEAN

Nodes(l) == {Walk(l)[k] : k \in 0 .. Length(l) - 1}

\* The pointers of a level describe one list: next and prev mirror each other,
\* the walk from the head ends at the tail, and curr is in the list exactly
\* when the list is not empty, although removing the only node leaves the tail
\* pointer dangling.
ListsWellFormed ==
  \A l \in Level :
    /\ \A a \in Nodes(l) :
         /\ node[a].next # NULL => node[node[a].next].prev = a
         /\ node[a].prev # NULL => node[node[a].prev].next = a
    /\ levels[l].head = NULL => levels[l].curr = NULL
    /\ levels[l].head # NULL =>
         /\ levels[l].curr \in Nodes(l)
         /\ node[levels[l].head].prev = NULL
         /\ levels[l].tail \in Nodes(l) /\ node[levels[l].tail].next = NULL

\* No node leaks, none is used after free, and none is on two lists.
NodesOwned ==
  /\ allocated = UNION {Nodes(l) : l \in Level}
  /\ \A l, m \in Level : l # m => Nodes(l) \cap Nodes(m) = {}

\* nextProcess: "returns the thread id of the next process that should be
\* executed, returns -1 if there are no processes".  It never does anything else.
NextProcessReturns == ~undefined

\* The abstract scheduler, its lists read off the pointers.
CurrIndex(l) ==
  IF levels[l].head = NULL THEN 1
  ELSE 1 + CHOOSE k \in Steps : Walk(l)[k] = levels[l].curr
Members == [l \in Level |-> [i \in 1 .. Length(l) |-> node[Walk(l)[i - 1]].pid]]
Turns   == [l \in Level |-> CurrIndex(l)]
Abstract == INSTANCE RoundRobin WITH
  members <- Members, turn <- Turns, level <- current, chosen <- pid

\* Through every sequence of calls the scheduler is the abstract one: nobody's
\* turn is lost or doubled when processes join and leave.
RoundRobinSpec == Abstract!Spec
=============================================================================
