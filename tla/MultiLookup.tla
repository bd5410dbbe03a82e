---------------------------- MODULE MultiLookup ----------------------------
(***************************************************************************)
(* multi-lookup.c: one requester thread per input file, a pool of resolver *)
(* threads, and main, which feeds one end value (NULL) to each resolver    *)
(* once the requesters have ended.  Two semaphores count the free and the  *)
(* filled places of the queue, one mutex guards the queue and another the  *)
(* output file.                                                            *)
(*                                                                         *)
(* A host name is the pair <<file, lines left>>, so that equal names on    *)
(* different lines stay apart.  pthread_create is taken to succeed, and a  *)
(* thread not started yet is one that has not taken a step.                *)
(***************************************************************************)
EXTENDS Queue, FiniteSets

CONSTANTS
  Files,                   \* the input files of the command line
  MaxLines,                \* bound: lines of a file
  QUEUE_SIZE,
  MIN_RESOLVER_THREADS,
  MAX_RESOLVER_THREADS,    \* -1: no maximum
  Cpus                     \* what sysconf may report: -1 or a number of CPUs

ASSUME LookupAssumption ==
  /\ MaxLines \in Nat /\ QUEUE_SIZE \in Nat \ {0}
  /\ MIN_RESOLVER_THREADS \in Nat \ {0}
  /\ MAX_RESOLVER_THREADS \in Int
  /\ MAX_RESOLVER_THREADS = -1 \/ MAX_RESOLVER_THREADS >= MIN_RESOLVER_THREADS
  /\ Cpus \subseteq Nat \cup {-1}
  /\ NULL \notin Files \X (1 .. MaxLines)
  /\ IsFiniteSet(Files)

get_resolver_count(cpu) ==
  IF cpu # -1 /\ cpu > MIN_RESOLVER_THREADS
  THEN IF MAX_RESOLVER_THREADS # -1 /\ cpu > MAX_RESOLVER_THREADS
       THEN MAX_RESOLVER_THREADS ELSE cpu
  ELSE MIN_RESOLVER_THREADS

Main      == "main"
Producers == Files \cup {Main}   \* a requester goes by the name of its file
Host      == Files \X (1 .. MaxLines)

ASSUME MainAssumption == Main \notin Files

VARIABLES
  left,         \* lines each requester has not read yet
  cpu,          \* what sysconf returned
  queue,
  empty, full,  \* the semaphores
  queue_mut, file_mut,   \* is the mutex locked?
  ppc, pbuf,    \* a producer's program counter and the payload it pushes
  pills,        \* end values main has pushed
  rpc, rbuf,    \* a resolver's program counter and the payload it popped
  out           \* the output file: what each fprintf group wrote

resolver_count == get_resolver_count(cpu)
Resolvers      == 1 .. resolver_count
ResolverIds    == UNION {1 .. get_resolver_count(c) : c \in Cpus}

producer == <<left, ppc, pbuf, pills>>
resolver == <<rpc, rbuf, file_mut, out>>
shared   == <<queue, empty, full, queue_mut>>
vars     == <<producer, resolver, shared, cpu>>

Init ==
  /\ left \in [Files -> 0 .. MaxLines]
  /\ cpu \in Cpus
  /\ queue = queue_init(QUEUE_SIZE)
  /\ empty = QUEUE_SIZE /\ full = 0
  /\ queue_mut = FALSE /\ file_mut = FALSE
  /\ ppc = [p \in Producers |-> IF p = Main THEN "join_requesters" ELSE "open"]
  /\ pbuf = [p \in Producers |-> NULL]
  /\ pills = 0
  /\ rpc = [r \in Resolvers |-> "sem_wait"]
  /\ rbuf = [r \in Resolvers |-> NULL]
  /\ out = <<>>
-----------------------------------------------------------------------------
(* requester_thread                                                        *)

OpenFile(f) ==
  /\ ppc[f] = "open"
  /\ ppc' = [ppc EXCEPT ![f] = "read"]
  /\ UNCHANGED <<left, pbuf, pills, resolver, shared, cpu>>

\* fopen failed: the thread returns without reading anything.
OpenFails(f) ==
  /\ ppc[f] = "open"
  /\ ppc' = [ppc EXCEPT ![f] = "done"]
  /\ left' = [left EXCEPT ![f] = 0]
  /\ UNCHANGED <<pbuf, pills, resolver, shared, cpu>>

\* Mutant: the requester stops in front of the last line.
BugStopsEarly(f) ==
  /\ ppc[f] = "read"
  /\ IF left[f] <= 1
     THEN ppc' = [ppc EXCEPT ![f] = "done"] /\ UNCHANGED <<left, pbuf>>
     ELSE /\ pbuf' = [pbuf EXCEPT ![f] = <<f, left[f]>>]
          /\ left' = [left EXCEPT ![f] = @ - 1]
          /\ ppc' = [ppc EXCEPT ![f] = "sem_wait"]
  /\ UNCHANGED <<pills, resolver, shared, cpu>>

ReadLine(f) ==
  /\ ppc[f] = "read"
  /\ IF left[f] = 0
     THEN ppc' = [ppc EXCEPT ![f] = "done"] /\ UNCHANGED <<left, pbuf>>
     ELSE /\ pbuf' = [pbuf EXCEPT ![f] = <<f, left[f]>>]
          /\ left' = [left EXCEPT ![f] = @ - 1]
          /\ ppc' = [ppc EXCEPT ![f] = "sem_wait"]
  /\ UNCHANGED <<pills, resolver, shared, cpu>>
-----------------------------------------------------------------------------
(* main: join the requesters, push the end values, join the resolvers.     *)

\* Mutant: main does not wait for the requesters.
BugNoJoin ==
  /\ ppc[Main] = "join_requesters"
  /\ ppc' = [ppc EXCEPT ![Main] = "next_pill"]
  /\ UNCHANGED <<left, pbuf, pills, resolver, shared, cpu>>

JoinRequesters ==
  /\ ppc[Main] = "join_requesters"
  /\ \A f \in Files : ppc[f] = "done"
  /\ ppc' = [ppc EXCEPT ![Main] = "next_pill"]
  /\ UNCHANGED <<left, pbuf, pills, resolver, shared, cpu>>

\* Mutant: one end value too few.
BugOnePillLess ==
  /\ ppc[Main] = "next_pill"
  /\ ppc' = [ppc EXCEPT ![Main] = IF pills + 1 < resolver_count THEN "sem_wait" ELSE "join_resolvers"]
  /\ UNCHANGED <<left, pbuf, pills, resolver, shared, cpu>>

NextPill ==
  /\ ppc[Main] = "next_pill"
  /\ ppc' = [ppc EXCEPT ![Main] = IF pills < resolver_count THEN "sem_wait" ELSE "join_resolvers"]
  /\ UNCHANGED <<left, pbuf, pills, resolver, shared, cpu>>

\* main returns; queue_cleanup empties the queue.
JoinResolvers ==
  /\ ppc[Main] = "join_resolvers"
  /\ \A r \in Resolvers : rpc[r] = "done"
  /\ ppc' = [ppc EXCEPT ![Main] = "done"]
  /\ queue' = queue_cleanup(queue)
  /\ UNCHANGED <<left, pbuf, pills, resolver, empty, full, queue_mut, cpu>>
-----------------------------------------------------------------------------
(* The steps a requester and main take to push their payload.              *)

\* Mutant: the producer does not wait for a free place.
BugNoWaitEmpty(p) ==
  /\ ppc[p] = "sem_wait"
  /\ ppc' = [ppc EXCEPT ![p] = "lock"]
  /\ UNCHANGED <<left, pbuf, pills, resolver, shared, cpu>>

WaitEmpty(p) ==
  /\ ppc[p] = "sem_wait" /\ empty > 0
  /\ empty' = empty - 1
  /\ ppc' = [ppc EXCEPT ![p] = "lock"]
  /\ UNCHANGED <<left, pbuf, pills, resolver, queue, full, queue_mut, cpu>>

ProducerLock(p) ==
  /\ ppc[p] = "lock" /\ ~queue_mut
  /\ queue_mut' = TRUE
  /\ ppc' = [ppc EXCEPT ![p] = "push"]
  /\ UNCHANGED <<left, pbuf, pills, resolver, queue, empty, full, cpu>>

\* queue_push's result is not looked at.
Push(p) ==
  /\ ppc[p] = "push"
  /\ queue' = queue_push(queue, pbuf[p])
  /\ pbuf' = [pbuf EXCEPT ![p] = NULL]
  /\ ppc' = [ppc EXCEPT ![p] = "unlock"]
  /\ UNCHANGED <<left, pills, resolver, empty, full, queue_mut, cpu>>

ProducerUnlock(p) ==
  /\ ppc[p] = "unlock"
  /\ queue_mut' = FALSE
  /\ ppc' = [ppc EXCEPT ![p] = "sem_post"]
  /\ UNCHANGED <<left, pbuf, pills, resolver, queue, empty, full, cpu>>

PostFull(p) ==
  /\ ppc[p] = "sem_post"
  /\ full' = full + 1
  /\ pills' = IF p = Main THEN pills + 1 ELSE pills
  /\ ppc' = [ppc EXCEPT ![p] = IF p = Main THEN "next_pill" ELSE "read"]
  /\ UNCHANGED <<left, pbuf, resolver, queue, empty, queue_mut, cpu>>
-----------------------------------------------------------------------------
(* resolver_thread                                                         *)

WaitFull(r) ==
  /\ rpc[r] = "sem_wait" /\ full > 0
  /\ full' = full - 1
  /\ rpc' = [rpc EXCEPT ![r] = "lock"]
  /\ UNCHANGED <<producer, rbuf, file_mut, out, queue, empty, queue_mut, cpu>>

\* Mutant: the resolver does not take the queue's mutex.
BugNoLock(r) ==
  /\ rpc[r] = "lock"
  /\ rpc' = [rpc EXCEPT ![r] = "pop"]
  /\ UNCHANGED <<producer, rbuf, file_mut, out, shared, cpu>>

ResolverLock(r) ==
  /\ rpc[r] = "lock" /\ ~queue_mut
  /\ queue_mut' = TRUE
  /\ rpc' = [rpc EXCEPT ![r] = "pop"]
  /\ UNCHANGED <<producer, rbuf, file_mut, out, queue, empty, full, cpu>>

\* queue_pop in two steps, which queue_mut keeps together: it reads the payload ...
Pop(r) ==
  /\ rpc[r] = "pop"
  /\ rbuf' = [rbuf EXCEPT ![r] = Popped(queue)]
  /\ rpc' = [rpc EXCEPT ![r] = "advance"]
  /\ UNCHANGED <<producer, file_mut, out, shared, cpu>>

\* ... then clears the slot and moves front.
Advance(r) ==
  /\ rpc[r] = "advance"
  /\ queue' = queue_pop(queue)
  /\ rpc' = [rpc EXCEPT ![r] = "unlock"]
  /\ UNCHANGED <<producer, rbuf, file_mut, out, empty, full, queue_mut, cpu>>

ResolverUnlock(r) ==
  /\ rpc[r] = "unlock"
  /\ queue_mut' = FALSE
  /\ rpc' = [rpc EXCEPT ![r] = "sem_post"]
  /\ UNCHANGED <<producer, rbuf, file_mut, out, queue, empty, full, cpu>>

\* Mutant: a resolver that leaves keeps the place of its end value.
BugLeaveWithoutPost(r) ==
  /\ rpc[r] = "sem_post"
  /\ empty' = IF rbuf[r] = NULL THEN empty ELSE empty + 1
  /\ rpc' = [rpc EXCEPT ![r] = IF rbuf[r] = NULL THEN "done" ELSE "file_lock"]
  /\ UNCHANGED <<producer, rbuf, file_mut, out, queue, full, queue_mut, cpu>>

\* A NULL ends the thread; a host goes to dns_lookup and to the output.
PostEmpty(r) ==
  /\ rpc[r] = "sem_post"
  /\ empty' = empty + 1
  /\ rpc' = [rpc EXCEPT ![r] = IF rbuf[r] = NULL THEN "done" ELSE "file_lock"]
  /\ UNCHANGED <<producer, rbuf, file_mut, out, queue, full, queue_mut, cpu>>

\* Mutant: the output file is written without its mutex.
BugNoFileLock(r) ==
  /\ rpc[r] = "file_lock"
  /\ rpc' = [rpc EXCEPT ![r] = "name"]
  /\ UNCHANGED <<producer, rbuf, file_mut, out, shared, cpu>>

FileLock(r) ==
  /\ rpc[r] = "file_lock" /\ ~file_mut
  /\ file_mut' = TRUE
  /\ rpc' = [rpc EXCEPT ![r] = "name"]
  /\ UNCHANGED <<producer, rbuf, out, shared, cpu>>

\* The first fprintf writes the host ...
WriteName(r) ==
  /\ rpc[r] = "name"
  /\ out' = Append(out, [host |-> rbuf[r], part |-> "name"])
  /\ rpc' = [rpc EXCEPT ![r] = "addresses"]
  /\ UNCHANGED <<producer, rbuf, file_mut, shared, cpu>>

\* ... the others its addresses, or none, and the end of the line.
WriteAddresses(r) ==
  /\ rpc[r] = "addresses"
  /\ out' = Append(out, [host |-> rbuf[r], part |-> "addresses"])
  /\ rpc' = [rpc EXCEPT ![r] = "file_unlock"]
  /\ UNCHANGED <<producer, rbuf, file_mut, shared, cpu>>

FileUnlock(r) ==
  /\ rpc[r] = "file_unlock"
  /\ file_mut' = FALSE
  /\ rbuf' = [rbuf EXCEPT ![r] = NULL]
  /\ rpc' = [rpc EXCEPT ![r] = "sem_wait"]
  /\ UNCHANGED <<producer, out, shared, cpu>>
-----------------------------------------------------------------------------
Requester(f) == OpenFile(f) \/ OpenFails(f) \/ ReadLine(f)
MainThread   == JoinRequesters \/ NextPill \/ JoinResolvers

Producer(p) ==
  WaitEmpty(p) \/ ProducerLock(p) \/ Push(p) \/ ProducerUnlock(p) \/ PostFull(p)

Resolver(r) ==
  \/ WaitFull(r) \/ ResolverLock(r) \/ Pop(r) \/ Advance(r) \/ ResolverUnlock(r) \/ PostEmpty(r)
  \/ FileLock(r) \/ WriteName(r) \/ WriteAddresses(r) \/ FileUnlock(r)

\* main has returned.
Terminated == ppc[Main] = "done" /\ UNCHANGED vars

Next ==
  \/ MainThread \/ Terminated
  \/ \E f \in Files : Requester(f)
  \/ \E p \in Producers : Producer(p)
  \/ \E r \in Resolvers : Resolver(r)

Spec == Init /\ [][Next]_vars

\* The scheduler runs every thread that can run.
Fairness ==
  /\ WF_vars(MainThread \/ Producer(Main))
  /\ \A f \in Files : WF_vars(Requester(f) \/ Producer(f))
  /\ \A r \in ResolverIds : WF_vars(r \in Resolvers /\ Resolver(r))

FairSpec == Spec /\ Fairness
-----------------------------------------------------------------------------
(* What makes the program correct.                                         *)

TypeOK ==
  /\ left \in [Files -> 0 .. MaxLines]
  /\ cpu \in Cpus
  /\ queue.array \in [0 .. QUEUE_SIZE - 1 -> Host \cup {NULL}]
  /\ queue.front \in 0 .. QUEUE_SIZE - 1 /\ queue.rear \in 0 .. QUEUE_SIZE - 1
  /\ queue.maxSize = QUEUE_SIZE
  /\ empty \in 0 .. QUEUE_SIZE /\ full \in 0 .. QUEUE_SIZE
  /\ queue_mut \in BOOLEAN /\ file_mut \in BOOLEAN
  /\ ppc \in [Producers -> {"open", "read", "sem_wait", "lock", "push", "unlock", "sem_post",
                            "join_requesters", "next_pill", "join_resolvers", "done"}]
  /\ pbuf \in [Producers -> Host \cup {NULL}]
  /\ pills \in 0 .. resolver_count
  /\ rpc \in [Resolvers -> {"sem_wait", "lock", "pop", "advance", "unlock", "sem_post", "file_lock",
                            "name", "addresses", "file_unlock", "done"}]
  /\ rbuf \in [Resolvers -> Host \cup {NULL}]
  /\ out \in Seq([host : Host, part : {"name", "addresses"}])

\* Requesters and main ignore queue_push's result, and may: the semaphores
\* keep a place for every payload, although a NULL at the front of the buffer
\* is popped without giving its place back.
PushNeverFails == \A p \in Producers : ppc[p] = "push" => ~queue_is_full(queue)

\* Where a line that was read is: with its requester, in the queue, with a
\* resolver, or in the output.
Places(h) ==
  Cardinality({p \in Producers : pbuf[p] = h})
  + Cardinality({i \in DOMAIN queue.array : queue.array[i] = h})
  + Cardinality({r \in Resolvers : rbuf[r] = h /\ rpc[r] \notin {"advance", "file_unlock"}})
  + Cardinality({i \in DOMAIN out : out[i] = [host |-> h, part |-> "addresses"]})

\* No line is doubled or resolved twice, whoever runs when, and only a line that
\* was read is anywhere.  (That none is lost is part of ServiceSpec.)
LinesConserved ==
  \A h \in Host : Places(h) <= 1 /\ (Places(h) = 1 => left[h[1]] < h[2])

\* Places of the queue are free, filled, or held by a thread that is between
\* its sem_wait and its sem_post.
PlacesConserved ==
  empty + full
    + Cardinality({p \in Producers : ppc[p] \in {"lock", "push", "unlock", "sem_post"}})
    + Cardinality({r \in Resolvers : rpc[r] \in {"lock", "pop", "advance", "unlock", "sem_post"}})
  = QUEUE_SIZE

\* A resolver that takes an end value leaves no host behind: the NULL it saw is
\* an end value and not an empty place of the queue.
NullMeansEnd ==
  (\E r \in Resolvers : rpc[r] = "done" \/ (rpc[r] \in {"unlock", "sem_post"} /\ rbuf[r] = NULL))
    => /\ \A i \in DOMAIN queue.array : queue.array[i] = NULL
       /\ \A f \in Files : ppc[f] = "done"

\* The lines of the output are whole: a host name is followed by its own
\* addresses, although several resolvers write.
LinesWhole ==
  \A i \in DOMAIN out :
    IF i % 2 = 1 THEN out[i].part = "name"
    ELSE out[i].part = "addresses" /\ out[i].host = out[i - 1].host

\* Every thread ends and main returns: no resolver waits for an end value
\* that does not come, no producer for a place that is not given back.
Terminates == <>(ppc[Main] = "done")

\* The abstract service, its variables computed from the program's.
Service == INSTANCE LookupService WITH
  BufferSize <- QUEUE_SIZE,
  unopened <- {f \in Files : ppc[f] = "open"},
  left    <- [f \in Files |-> left[f] + IF pbuf[f] = NULL THEN 0 ELSE 1],
  waiting <- Contents(queue),
  busy    <- {rbuf[r] : r \in {s \in Resolvers : rbuf[s] # NULL /\ rpc[s] \notin {"advance", "file_unlock"}}},
  printed <- {out[i].host : i \in {j \in DOMAIN out : out[j].part = "addresses"}}

\* The program does what the service promises: lines enter and leave the
\* queue in order, and every line of a file that fopen could open is printed
\* once.  A file is dropped as a whole before its first line, or not at all.
ServiceSpec == Service!Spec
=============================================================================
