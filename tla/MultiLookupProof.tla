-------------------------- MODULE MultiLookupProof --------------------------
(***************************************************************************)
(* The safety of multi-lookup for any number of files, lines, places and   *)
(* resolvers, and that it implements the lookup service.                   *)
(***************************************************************************)
EXTENDS MultiLookup, FiniteSetTheorems, SequenceTheorems, TLAPS

Index  == 0 .. QUEUE_SIZE - 1
Buffer == [array : [Index -> Host \cup {NULL}], front : Index, rear : Index,
           maxSize : {QUEUE_SIZE}]

\* No slot holds a host.
AllNull(q) == \A i \in Index : q.array[i] = NULL

\* The buffer holds n payloads, the first k of them hosts and the others end values.
Layout(q, k, n) ==
  /\ k \in 0 .. n /\ n \in 0 .. QUEUE_SIZE
  /\ q.rear = Slot(q, n)
  /\ \A j \in Index : q.array[Slot(q, j)] # NULL <=> j < k

LEMMA ConstantFacts ==
  /\ QUEUE_SIZE \in Nat \ {0} /\ MaxLines \in Nat
  /\ NULL \notin Host /\ Main \in Producers /\ Main \notin Files
  /\ Index \subseteq Int /\ 0 \in Index
  /\ IsFiniteSet(Producers)
  /\ \A c \in Cpus : get_resolver_count(c) \in Nat \ {0}
<1>1. IsFiniteSet(Producers)
  BY LookupAssumption, FS_AddElement DEF Producers
<1>2. \A c \in Cpus : get_resolver_count(c) \in Nat \ {0}
  BY LookupAssumption DEF get_resolver_count
<1> QED BY <1>1, <1>2, LookupAssumption, MainAssumption DEF Host, Index, Producers
-----------------------------------------------------------------------------
(* The circular buffer                                                     *)

\* Indices wrap around once at most.
LEMMA SlotValue ==
  ASSUME NEW q \in Buffer, NEW k \in 0 .. QUEUE_SIZE
  PROVE  /\ Slot(q, k) = IF q.front + k < QUEUE_SIZE THEN q.front + k
                         ELSE q.front + k - QUEUE_SIZE
         /\ Slot(q, k) \in Index
<1>1. q.front \in Index /\ q.maxSize = QUEUE_SIZE
  BY DEF Buffer
<1> QED BY <1>1, ConstantFacts DEF Slot, Index

LEMMA StepValue ==
  ASSUME NEW i \in Index
  PROVE  /\ (i + 1) % QUEUE_SIZE = IF i + 1 = QUEUE_SIZE THEN 0 ELSE i + 1
         /\ (i + 1) % QUEUE_SIZE \in Index
BY ConstantFacts DEF Index

\* Every slot is met on the way round from the front, once.
LEMMA SlotReached ==
  ASSUME NEW q \in Buffer, NEW i \in Index
  PROVE  \E j \in Index : Slot(q, j) = i
<1>1. q.front \in Index
  BY DEF Buffer
<1>2. CASE q.front <= i
  <2>1. i - q.front \in Index /\ i - q.front \in 0 .. QUEUE_SIZE
    BY <1>1, <1>2, ConstantFacts DEF Index
  <2> QED BY <2>1, <1>1, SlotValue, ConstantFacts DEF Index
<1>3. CASE i < q.front
  <2>1. i - q.front + QUEUE_SIZE \in Index /\ i - q.front + QUEUE_SIZE \in 0 .. QUEUE_SIZE
    BY <1>1, <1>3, ConstantFacts DEF Index
  <2> QED BY <2>1, <1>1, SlotValue, ConstantFacts DEF Index
<1> QED BY <1>1, <1>2, <1>3, ConstantFacts DEF Index

LEMMA SlotOnce ==
  ASSUME NEW q \in Buffer, NEW j \in Index, NEW k \in Index, Slot(q, j) = Slot(q, k)
  PROVE  j = k
<1>1. q.front \in Index /\ j \in 0 .. QUEUE_SIZE /\ k \in 0 .. QUEUE_SIZE
  BY ConstantFacts DEF Buffer, Index
<1> QED BY <1>1, SlotValue, ConstantFacts DEF Index

LEMMA LayoutFront ==
  ASSUME NEW q \in Buffer
  PROVE  Slot(q, 0) = q.front /\ q.front \in Index
BY SlotValue, ConstantFacts DEF Buffer, Index

LEMMA AllNullQueue ==
  ASSUME NEW q \in Buffer, AllNull(q)
  PROVE  /\ ~queue_is_full(q) /\ Popped(q) = NULL
         /\ queue_pop(q) \in Buffer /\ AllNull(queue_pop(q))
         /\ queue_push(q, NULL) \in Buffer /\ AllNull(queue_push(q, NULL))
<1>1. q.front \in Index /\ q.rear \in Index /\ q.maxSize = QUEUE_SIZE
      /\ q.array \in [Index -> Host \cup {NULL}]
  BY DEF Buffer
<1>2. ~queue_is_full(q) /\ Popped(q) = NULL
  BY <1>1 DEF AllNull, queue_is_full, Popped
<1>3. queue_pop(q) \in Buffer /\ AllNull(queue_pop(q))
  BY <1>1, StepValue DEF AllNull, queue_pop, Buffer
<1>4. queue_push(q, NULL) \in Buffer /\ AllNull(queue_push(q, NULL))
  BY <1>1, <1>2, StepValue DEF AllNull, queue_push, Buffer
<1> QED BY <1>2, <1>3, <1>4

\* A buffer with a free place takes a payload: a host only when no end value is in.
LEMMA PushLayout ==
  ASSUME NEW q \in Buffer, NEW k, NEW n \in 0 .. QUEUE_SIZE - 1, Layout(q, k, n),
         NEW payload \in Host \cup {NULL}, payload # NULL => k = n
  PROVE  /\ ~queue_is_full(q)
         /\ queue_push(q, payload) \in Buffer
         /\ Layout(queue_push(q, payload), IF payload = NULL THEN k ELSE k + 1, n + 1)
         /\ queue_push(q, payload).front = q.front
         /\ queue_push(q, payload).array = [q.array EXCEPT ![q.rear] = payload]
         /\ q.array[q.rear] = NULL
<1> DEFINE q2 == queue_push(q, payload)
           k2 == IF payload = NULL THEN k ELSE k + 1
<1>1. /\ q.front \in Index /\ q.rear \in Index /\ q.maxSize = QUEUE_SIZE
      /\ q.array \in [Index -> Host \cup {NULL}]
  BY DEF Buffer
<1>2. k \in 0 .. n /\ n \in Index /\ n \in 0 .. QUEUE_SIZE /\ n + 1 \in 0 .. QUEUE_SIZE
  BY ConstantFacts DEF Layout, Index
<1>3. q.rear = Slot(q, n) /\ q.array[q.rear] = NULL
  BY <1>2, ConstantFacts DEF Layout
<1>4. ~queue_is_full(q)
  BY <1>3 DEF queue_is_full
<1>5. q2 = [q EXCEPT !.array[q.rear] = payload, !.rear = (q.rear + 1) % q.maxSize]
  BY <1>4 DEF queue_push
<1>6. /\ q2 \in Buffer /\ q2.front = q.front /\ q2.maxSize = QUEUE_SIZE
      /\ q2.array = [q.array EXCEPT ![q.rear] = payload]
      /\ q2.rear = (q.rear + 1) % QUEUE_SIZE
  <2> DEFINE next == (q.rear + 1) % QUEUE_SIZE
             a2   == [q.array EXCEPT ![q.rear] = payload]
  <2>1. next \in Index
    BY <1>1, StepValue
  <2>2. a2 \in [Index -> Host \cup {NULL}]
    BY <1>1
  <2>3. q2 = [q EXCEPT !.array = a2, !.rear = next]
    BY <1>1, <1>5
  <2> HIDE DEF next, a2, q2
  <2>4. q2 \in Buffer /\ q2.front = q.front /\ q2.maxSize = QUEUE_SIZE /\ q2.array = a2 /\ q2.rear = next
    BY <2>1, <2>2, <2>3 DEF Buffer
  <2> QED BY <2>4 DEF next, a2
<1>7. \A j \in 0 .. QUEUE_SIZE : Slot(q2, j) = Slot(q, j)
  BY <1>1, <1>6 DEF Slot
<1>8. q2.rear = Slot(q2, n + 1)
  <2>1. q2.rear = IF q.rear + 1 = QUEUE_SIZE THEN 0 ELSE q.rear + 1
    BY <1>1, <1>6, StepValue
  <2>2. q.rear = IF q.front + n < QUEUE_SIZE THEN q.front + n ELSE q.front + n - QUEUE_SIZE
    BY <1>2, <1>3, SlotValue
  <2>3. Slot(q2, n + 1) = IF q.front + (n + 1) < QUEUE_SIZE THEN q.front + (n + 1)
                          ELSE q.front + (n + 1) - QUEUE_SIZE
    BY <1>2, <1>7, SlotValue
  <2> HIDE DEF q2
  <2> QED BY <2>1, <2>2, <2>3, <1>1, <1>2, ConstantFacts DEF Index
<1>9. ASSUME NEW j \in Index
      PROVE  q2.array[Slot(q2, j)] # NULL <=> j < k2
  <2>1. j \in 0 .. QUEUE_SIZE /\ Slot(q2, j) = Slot(q, j) /\ Slot(q, j) \in Index
    BY <1>7, SlotValue, ConstantFacts DEF Index
  <2>2. CASE j = n
    BY <2>1, <2>2, <1>1, <1>2, <1>3, <1>6
  <2>3. CASE j # n
    <3>1. Slot(q, j) # q.rear
      BY <2>3, <1>2, <1>3, SlotOnce
    <3>2. q2.array[Slot(q2, j)] = q.array[Slot(q, j)]
      BY <3>1, <2>1, <1>1, <1>6
    <3> QED BY <3>2, <2>3, <1>2, ConstantFacts DEF Layout, Index
  <2> QED BY <2>2, <2>3
<1>10. k2 \in 0 .. n + 1
  BY <1>2
<1>11. Layout(q2, k2, n + 1)
  BY <1>2, <1>8, <1>9, <1>10 DEF Layout
<1> QED BY <1>3, <1>4, <1>6, <1>11

\* A buffer with hosts gives the oldest one.
LEMMA PopLayout ==
  ASSUME NEW q \in Buffer, NEW k, NEW n, Layout(q, k, n), k > 0
  PROVE  /\ Popped(q) = q.array[q.front] /\ Popped(q) \in Host
         /\ queue_pop(q) \in Buffer
         /\ Layout(queue_pop(q), k - 1, n - 1)
         /\ queue_pop(q).array = [q.array EXCEPT ![q.front] = NULL]
         /\ \A j \in 0 .. QUEUE_SIZE - 1 : Slot(queue_pop(q), j) = Slot(q, j + 1)
<1> DEFINE q2 == queue_pop(q)
<1>1. /\ q.front \in Index /\ q.rear \in Index /\ q.maxSize = QUEUE_SIZE
      /\ q.array \in [Index -> Host \cup {NULL}]
  BY DEF Buffer
<1>2. k \in 1 .. n /\ n \in 1 .. QUEUE_SIZE /\ k - 1 \in 0 .. n - 1
  BY ConstantFacts DEF Layout
<1>3. q.array[q.front] # NULL
  BY <1>2, LayoutFront, ConstantFacts DEF Layout
<1>4. Popped(q) = q.array[q.front] /\ Popped(q) \in Host
  BY <1>1, <1>3 DEF Popped, queue_is_empty
<1>5. q2 = [q EXCEPT !.array[q.front] = NULL, !.front = (q.front + 1) % q.maxSize]
  BY <1>3 DEF queue_pop, queue_is_empty
<1>6. /\ q2 \in Buffer /\ q2.rear = q.rear /\ q2.maxSize = QUEUE_SIZE
      /\ q2.array = [q.array EXCEPT ![q.front] = NULL]
      /\ q2.front = (q.front + 1) % QUEUE_SIZE
  <2> DEFINE next == (q.front + 1) % QUEUE_SIZE
             a2   == [q.array EXCEPT ![q.front] = NULL]
  <2>1. next \in Index
    BY <1>1, StepValue
  <2>2. a2 \in [Index -> Host \cup {NULL}]
    BY <1>1
  <2>3. q2 = [q EXCEPT !.array = a2, !.front = next]
    BY <1>1, <1>5
  <2> HIDE DEF next, a2, q2
  <2>4. q2 \in Buffer /\ q2.rear = q.rear /\ q2.maxSize = QUEUE_SIZE /\ q2.array = a2 /\ q2.front = next
    BY <2>1, <2>2, <2>3 DEF Buffer
  <2> QED BY <2>4 DEF next, a2
<1>7. ASSUME NEW j \in 0 .. QUEUE_SIZE - 1
      PROVE  Slot(q2, j) = Slot(q, j + 1)
  <2>1. j \in 0 .. QUEUE_SIZE /\ j + 1 \in 0 .. QUEUE_SIZE
    BY ConstantFacts
  <2>2. q2.front = IF q.front + 1 = QUEUE_SIZE THEN 0 ELSE q.front + 1
    BY <1>1, <1>6, StepValue
  <2>3. Slot(q2, j) = IF q2.front + j < QUEUE_SIZE THEN q2.front + j ELSE q2.front + j - QUEUE_SIZE
    BY <2>1, <1>6, SlotValue
  <2>4. Slot(q, j + 1) = IF q.front + (j + 1) < QUEUE_SIZE THEN q.front + (j + 1)
                         ELSE q.front + (j + 1) - QUEUE_SIZE
    BY <2>1, SlotValue
  <2> QED BY <2>1, <2>2, <2>3, <2>4, <1>1, ConstantFacts DEF Index
<1>8. q2.rear = Slot(q2, n - 1)
  <2>1. n - 1 \in 0 .. QUEUE_SIZE - 1 /\ (n - 1) + 1 = n
    BY <1>2, ConstantFacts
  <2>2. Slot(q2, n - 1) = Slot(q, n)
    BY <2>1, <1>7
  <2> QED BY <2>2, <1>6 DEF Layout
<1>9. ASSUME NEW j \in Index
      PROVE  q2.array[Slot(q2, j)] # NULL <=> j < k - 1
  <2>1. j \in 0 .. QUEUE_SIZE - 1 /\ Slot(q2, j) = Slot(q, j + 1)
    BY <1>7 DEF Index
  <2>2. CASE j + 1 = QUEUE_SIZE
    <3>1. Slot(q, j + 1) = q.front
      BY <2>2, <1>1, SlotValue, ConstantFacts DEF Index
    <3>2. q2.array[Slot(q2, j)] = NULL
      BY <3>1, <2>1, <1>1, <1>6
    <3> QED BY <3>2, <2>2, <1>2, ConstantFacts
  <2>3. CASE j + 1 # QUEUE_SIZE
    <3>1. j + 1 \in Index /\ j + 1 # 0 /\ Slot(q, j + 1) \in Index
      BY <2>3, SlotValue, ConstantFacts DEF Index
    <3>2. Slot(q, j + 1) # q.front
      BY <3>1, LayoutFront, SlotOnce, ConstantFacts
    <3>3. q2.array[Slot(q2, j)] = q.array[Slot(q, j + 1)]
      BY <3>1, <3>2, <2>1, <1>1, <1>6
    <3> QED BY <3>1, <3>3, <1>2, ConstantFacts DEF Layout, Index
  <2> QED BY <2>2, <2>3
<1>10. Layout(q2, k - 1, n - 1)
  BY <1>2, <1>8, <1>9, ConstantFacts DEF Layout
<1> QED BY <1>4, <1>6, <1>7, <1>10

LEMMA LayoutNull ==
  ASSUME NEW q \in Buffer, NEW n, Layout(q, 0, n)
  PROVE  AllNull(q)
<1> SUFFICES ASSUME NEW i \in Index
             PROVE  q.array[i] = NULL
  BY DEF AllNull
<1>1. PICK j \in Index : Slot(q, j) = i
  BY SlotReached
<1>2. ~(j < 0)
  BY ConstantFacts DEF Index
<1> QED BY <1>1, <1>2 DEF Layout

\* What Contents shows of such a buffer.
LEMMA ContentsLayout ==
  ASSUME NEW q \in Buffer, NEW k, NEW n, Layout(q, k, n)
  PROVE  Contents(q) = [j \in 1 .. k |-> q.array[Slot(q, j - 1)]]
<1> DEFINE P(m) == /\ \A j \in 0 .. m - 1 : q.array[Slot(q, j)] # NULL
                   /\ m < q.maxSize => q.array[Slot(q, m)] = NULL
<1>1. q.maxSize = QUEUE_SIZE /\ k \in 0 .. QUEUE_SIZE
  BY ConstantFacts DEF Buffer, Layout
<1>2. P(k)
  BY <1>1, ConstantFacts DEF Layout, Index
<1>3. ASSUME NEW m \in 0 .. q.maxSize, P(m) PROVE m = k
  <2>1. CASE m < k
    <3>1. m \in Index /\ m < q.maxSize
      BY <2>1, <1>1, ConstantFacts DEF Index
    <3> QED BY <3>1, <2>1, <1>3 DEF Layout
  <2>2. CASE k < m
    <3>1. k \in Index /\ k \in 0 .. m - 1
      BY <2>2, <1>1, ConstantFacts DEF Index
    <3> QED BY <3>1, <1>3, <1>1 DEF Layout
  <2> QED BY <2>1, <2>2, <1>1, ConstantFacts
<1>4. k = CHOOSE m \in 0 .. q.maxSize : P(m)
  BY <1>1, <1>2, <1>3
<1> QED BY <1>4 DEF Contents

LEMMA ContentsNull ==
  ASSUME NEW q \in Buffer, AllNull(q)
  PROVE  Contents(q) = <<>>
<1> DEFINE P(m) == /\ \A j \in 0 .. m - 1 : q.array[Slot(q, j)] # NULL
                   /\ m < q.maxSize => q.array[Slot(q, m)] = NULL
<1>1. q.maxSize = QUEUE_SIZE /\ Slot(q, 0) = q.front /\ q.array[q.front] = NULL /\ q.front \in Index
  BY LayoutFront DEF Buffer, AllNull
<1>2. P(0)
  BY <1>1
<1>3. ASSUME NEW m \in 0 .. q.maxSize, P(m) PROVE m = 0
  <2>1. m > 0 => 0 \in 0 .. m - 1
    BY <1>1, ConstantFacts
  <2> QED BY <2>1, <1>1, <1>3, ConstantFacts
<1>4. 0 = CHOOSE m \in 0 .. q.maxSize : P(m)
  BY <1>1, <1>2, <1>3, ConstantFacts
<1>5. Contents(q) = [j \in 1 .. 0 |-> q.array[Slot(q, j - 1)]]
  BY <1>4 DEF Contents
<1> QED BY <1>5
-----------------------------------------------------------------------------
(* The inductive invariant                                                 *)

\* All requesters have returned.
Ended == \A f \in Files : ppc[f] = "done"

\* The program counters of a thread that took a place with its sem_wait and did
\* not pass it on yet, of a producer that filled its place, and of a resolver
\* that did not empty it yet.
ProducerHolds == {"lock", "push", "unlock", "sem_post"}
ResolverHolds == {"lock", "pop", "advance", "unlock", "sem_post"}
ProducerPut   == {"unlock", "sem_post"}
ResolverDue   == {"lock", "pop", "advance"}

\* How many members of D have their program counter in S.
In(pc, D, S) == Cardinality({x \in D : pc[x] \in S})

\* Places of the buffer that were filled and not emptied.
Filled == full + In(ppc, Producers, ProducerPut) + In(rpc, Resolvers, ResolverDue)

ProducerState == {"open", "read", "sem_wait", "lock", "push", "unlock", "sem_post",
                  "join_requesters", "next_pill", "join_resolvers", "done"}
ResolverState == {"sem_wait", "lock", "pop", "advance", "unlock", "sem_post", "file_lock",
                  "name", "addresses", "file_unlock", "done"}
Part == [host : Host, part : {"name", "addresses"}]

TypeInv ==
  /\ left \in [Files -> 0 .. MaxLines]
  /\ cpu \in Cpus
  /\ queue \in Buffer
  /\ empty \in Nat /\ full \in Nat /\ pills \in Nat
  /\ queue_mut \in BOOLEAN /\ file_mut \in BOOLEAN
  /\ ppc \in [Producers -> ProducerState]
  /\ pbuf \in [Producers -> Host \cup {NULL}]
  /\ rpc \in [Resolvers -> ResolverState]
  /\ rbuf \in [Resolvers -> Host \cup {NULL}]
  /\ out \in Seq(Part)

\* A requester holds the line it read last; main starts on the end values when
\* the requesters have ended, and knows how many are left.
ProducerInv ==
  /\ \A f \in Files :
       /\ ppc[f] \notin {"join_requesters", "next_pill", "join_resolvers"}
       /\ ppc[f] \in {"sem_wait", "lock", "push"} <=> pbuf[f] # NULL
       /\ pbuf[f] # NULL => pbuf[f] = <<f, left[f] + 1>>
  /\ ppc[Main] \notin {"open", "read"} /\ pbuf[Main] = NULL
  /\ ppc[Main] # "join_requesters" => Ended
  /\ pills <= resolver_count
  /\ ppc[Main] \in {"sem_wait", "lock", "push", "unlock", "sem_post"} => pills < resolver_count

\* A resolver has a host from the pop on until its line is written.
ResolverInv ==
  \A r \in Resolvers :
    /\ rpc[r] \in {"sem_wait", "lock", "pop", "done"} => rbuf[r] = NULL
    /\ rpc[r] \in {"file_lock", "name", "addresses", "file_unlock"} => rbuf[r] # NULL

\* One thread is between the lock and the unlock of queue_mut.
MutexInv ==
  /\ \A p \in Producers : ppc[p] \in {"push", "unlock"} =>
       /\ queue_mut
       /\ \A p2 \in Producers : ppc[p2] \in {"push", "unlock"} => p2 = p
       /\ \A r \in Resolvers : rpc[r] \notin {"pop", "advance", "unlock"}
  /\ \A r \in Resolvers : rpc[r] \in {"pop", "advance", "unlock"} =>
       /\ queue_mut
       /\ \A r2 \in Resolvers : rpc[r2] \in {"pop", "advance", "unlock"} => r2 = r

\* One thread is between the lock and the unlock of file_mut.
FileInv ==
  \A r \in Resolvers : rpc[r] \in {"name", "addresses", "file_unlock"} =>
    /\ file_mut
    /\ \A r2 \in Resolvers : rpc[r2] \in {"name", "addresses", "file_unlock"} => r2 = r
\* The buffer is laid out from its front, the end values behind the hosts, until
\* an end value is popped from it: from then on front and rear say nothing, but
\* no slot holds anything any more.
QueueInv ==
  \/ \E k \in 0 .. QUEUE_SIZE : Layout(queue, k, Filled) /\ (k < Filled => Ended)
  \/ Ended /\ AllNull(queue)

\* Nothing comes between a resolver's look at the front and its advance.
AdvanceInv == \A r \in Resolvers : rpc[r] = "advance" => rbuf[r] = Popped(queue)

\* A resolver that has taken an end value.
Leaving(r) == rpc[r] = "done" \/ (rpc[r] \in {"unlock", "sem_post"} /\ rbuf[r] = NULL)

EndInv == (\E r \in Resolvers : Leaving(r)) => Ended /\ AllNull(queue)
\* The places where a line may be.
Hands(h) == {p \in Producers : pbuf[p] = h}
Slots(h) == {i \in DOMAIN queue.array : queue.array[i] = h}
Works(h) == {r \in Resolvers : rbuf[r] = h /\ rpc[r] \notin {"advance", "file_unlock"}}
Lines(h) == {i \in DOMAIN out : out[i] = [host |-> h, part |-> "addresses"]}

AtMostOne(S) == \A x, y \in S : x = y

\* At most one member in all.
Single(a, b, c, d) ==
  /\ AtMostOne(a) /\ AtMostOne(b) /\ AtMostOne(c) /\ AtMostOne(d)
  /\ a # {} => b = {} /\ c = {} /\ d = {}
  /\ b # {} => c = {} /\ d = {}
  /\ c # {} => d = {}

Once(h) ==
  /\ Single(Hands(h), Slots(h), Works(h), Lines(h))
  /\ Hands(h) \cup Slots(h) \cup Works(h) \cup Lines(h) # {} => left[h[1]] < h[2]

OnceInv == \A h \in Host : Once(h)

\* The name that was written last waits for its addresses.
WholeInv ==
  /\ LinesWhole
  /\ Len(out) % 2 = 1 => \E r \in Resolvers : rpc[r] = "addresses"
  /\ \A r \in Resolvers : rpc[r] = "addresses" => Len(out) % 2 = 1 /\ out[Len(out)].host = rbuf[r]

IInv ==
  /\ TypeInv /\ ProducerInv /\ ResolverInv /\ MutexInv /\ FileInv
  /\ PlacesConserved /\ QueueInv /\ AdvanceInv /\ EndInv /\ OnceInv /\ WholeInv
-----------------------------------------------------------------------------
(* Types                                                                   *)

LEMMA QueueType ==
  ASSUME NEW q \in Buffer, NEW payload \in Host \cup {NULL}
  PROVE  /\ queue_push(q, payload) \in Buffer /\ queue_pop(q) \in Buffer
         /\ queue_cleanup(q) \in Buffer /\ AllNull(queue_cleanup(q))
         /\ Popped(q) \in Host \cup {NULL}
<1> DEFINE after  == (q.rear + 1) % QUEUE_SIZE
           behind == (q.front + 1) % QUEUE_SIZE
<1>1. /\ q.front \in Index /\ q.rear \in Index /\ q.maxSize = QUEUE_SIZE
      /\ q.array \in [Index -> Host \cup {NULL}]
  BY DEF Buffer
<1>2. after \in Index /\ behind \in Index
  BY <1>1, StepValue
<1>3. queue_push(q, payload) \in {q, [q EXCEPT !.array[q.rear] = payload, !.rear = after]}
  BY <1>1 DEF queue_push
<1>4. queue_pop(q) \in {q, [q EXCEPT !.array[q.front] = NULL, !.front = behind]}
  BY <1>1 DEF queue_pop
<1> HIDE DEF after, behind
<1>5. queue_push(q, payload) \in Buffer /\ queue_pop(q) \in Buffer
  BY <1>1, <1>2, <1>3, <1>4 DEF Buffer
<1>6. queue_cleanup(q) \in Buffer /\ AllNull(queue_cleanup(q))
  BY <1>1 DEF queue_cleanup, Buffer, AllNull
<1>7. Popped(q) \in Host \cup {NULL}
  BY <1>1 DEF Popped
<1> QED BY <1>5, <1>6, <1>7

\* The number of processors was read once.
LEMMA Frame ==
  ASSUME [Next]_vars
  PROVE  cpu' = cpu /\ resolver_count' = resolver_count /\ Resolvers' = Resolvers
<1>1. cpu' = cpu
  BY DEF Next, vars, MainThread, Requester, Producer, Resolver, Terminated,
         OpenFile, OpenFails, ReadLine, JoinRequesters, NextPill, JoinResolvers,
         WaitEmpty, ProducerLock, Push, ProducerUnlock, PostFull,
         WaitFull, ResolverLock, Pop, Advance, ResolverUnlock, PostEmpty,
         FileLock, WriteName, WriteAddresses, FileUnlock
<1> QED BY <1>1 DEF Resolvers, resolver_count

LEMMA ResolverFacts ==
  ASSUME TypeInv
  PROVE  /\ IsFiniteSet(Resolvers) /\ Resolvers # {}
         /\ resolver_count \in Nat \ {0} /\ Resolvers = 1 .. resolver_count
<1>1. resolver_count \in Nat \ {0}
  BY ConstantFacts DEF TypeInv, resolver_count
<1>2. IsFiniteSet(Resolvers)
  BY <1>1, FS_Interval DEF Resolvers
<1> QED BY <1>1, <1>2 DEF Resolvers

LEMMA TypeInit == Init => TypeInv
<1> SUFFICES ASSUME Init PROVE TypeInv
  OBVIOUS
<1>1. queue \in Buffer
  <2>1. queue = [array |-> [i \in Index |-> NULL], front |-> 0, rear |-> 0, maxSize |-> QUEUE_SIZE]
    BY ConstantFacts DEF Init, queue_init, Index
  <2> QED BY <2>1, ConstantFacts DEF Buffer
<1>2. out \in Seq(Part)
  BY DEF Init
<1> QED BY <1>1, <1>2, ConstantFacts DEF Init, TypeInv, ProducerState, ResolverState

LEMMA TypeStep ==
  ASSUME TypeInv, ResolverInv, [Next]_vars
  PROVE  TypeInv'
<1> USE DEF TypeInv, ProducerState, ResolverState
<1>1. Resolvers' = Resolvers /\ cpu' = cpu
  BY Frame
<1>2. CASE UNCHANGED vars
  BY <1>1, <1>2 DEF vars, producer, resolver, shared
<1>3. ASSUME NEW f \in Files, Requester(f) PROVE TypeInv'
  <2>1. CASE OpenFile(f)
    BY <2>1, <1>1 DEF OpenFile, resolver, shared, Producers
  <2>2. CASE OpenFails(f)
    BY <2>2, <1>1, ConstantFacts DEF OpenFails, resolver, shared, Producers
  <2>3. CASE ReadLine(f)
    <3>1. CASE left[f] = 0
      BY <2>3, <3>1, <1>1 DEF ReadLine, resolver, shared, Producers
    <3>2. CASE left[f] # 0
      <4>1. left[f] \in 1 .. MaxLines /\ left[f] - 1 \in 0 .. MaxLines
        BY <3>2, ConstantFacts
      <4>2. <<f, left[f]>> \in Host
        BY <4>1 DEF Host
      <4> QED BY <2>3, <3>2, <4>1, <4>2, <1>1 DEF ReadLine, resolver, shared, Producers
    <3> QED BY <3>1, <3>2
  <2> QED BY <1>3, <2>1, <2>2, <2>3 DEF Requester
<1>4. CASE MainThread
  <2>1. CASE JoinRequesters
    BY <2>1, <1>1, ConstantFacts DEF JoinRequesters, resolver, shared
  <2>2. CASE NextPill
    BY <2>2, <1>1, ConstantFacts DEF NextPill, resolver, shared
  <2>3. CASE JoinResolvers
    BY <2>3, <1>1, ConstantFacts, QueueType DEF JoinResolvers, resolver
  <2> QED BY <1>4, <2>1, <2>2, <2>3 DEF MainThread
<1>5. ASSUME NEW p \in Producers, Producer(p) PROVE TypeInv'
  <2>1. CASE WaitEmpty(p)
    BY <2>1, <1>1 DEF WaitEmpty, resolver
  <2>2. CASE ProducerLock(p)
    BY <2>2, <1>1 DEF ProducerLock, resolver
  <2>3. CASE Push(p)
    <3>1. queue' \in Buffer
      BY <2>3, QueueType DEF Push
    <3> QED BY <2>3, <3>1, <1>1 DEF Push, resolver
  <2>4. CASE ProducerUnlock(p)
    BY <2>4, <1>1 DEF ProducerUnlock, resolver
  <2>5. CASE PostFull(p)
    BY <2>5, <1>1 DEF PostFull, resolver
  <2> QED BY <1>5, <2>1, <2>2, <2>3, <2>4, <2>5 DEF Producer
<1>6. ASSUME NEW r \in Resolvers, Resolver(r) PROVE TypeInv'
  <2>1. CASE WaitFull(r)
    BY <2>1, <1>1 DEF WaitFull, producer
  <2>2. CASE ResolverLock(r)
    BY <2>2, <1>1 DEF ResolverLock, producer
  <2>3. CASE Pop(r)
    <3>1. Popped(queue) \in Host \cup {NULL}
      BY QueueType
    <3> QED BY <2>3, <3>1, <1>1 DEF Pop, producer, shared
  <2>4. CASE Advance(r)
    <3>1. queue' \in Buffer
      BY <2>4, QueueType DEF Advance
    <3> QED BY <2>4, <3>1, <1>1 DEF Advance, producer
  <2>5. CASE ResolverUnlock(r)
    BY <2>5, <1>1 DEF ResolverUnlock, producer
  <2>6. CASE PostEmpty(r)
    BY <2>6, <1>1 DEF PostEmpty, producer
  <2>7. CASE FileLock(r)
    BY <2>7, <1>1 DEF FileLock, producer, shared
  <2>8. CASE WriteName(r) \/ WriteAddresses(r)
    <3>1. rbuf[r] \in Host => [host |-> rbuf[r], part |-> "name"] \in Part
                             /\ [host |-> rbuf[r], part |-> "addresses"] \in Part
      BY DEF Part
    <3>2. rbuf[r] \in Host
      BY <2>8 DEF ResolverInv, WriteName, WriteAddresses
    <3>3. \A x \in Part : Append(out, x) \in Seq(Part)
      OBVIOUS
    <3>4. out' \in Seq(Part)
      BY <2>8, <3>1, <3>2, <3>3 DEF WriteName, WriteAddresses
    <3> QED BY <2>8, <3>4, <1>1 DEF WriteName, WriteAddresses, producer, shared
  <2>9. CASE FileUnlock(r)
    BY <2>9, <1>1 DEF FileUnlock, producer, shared
  <2> QED BY <1>6, <2>1, <2>2, <2>3, <2>4, <2>5, <2>6, <2>7, <2>8, <2>9 DEF Resolver
<1> QED BY <1>2, <1>3, <1>4, <1>5, <1>6 DEF Next, Terminated
-----------------------------------------------------------------------------
(* The threads' program counters, payloads and mutexes                     *)

\* The steps of the resolvers leave the producers alone, and the other way round.
LEMMA Sides ==
  ASSUME [Next]_vars
  PROVE  /\ \/ UNCHANGED producer
            \/ MainThread \/ (\E f \in Files : Requester(f)) \/ \E p \in Producers : Producer(p)
         /\ UNCHANGED resolver \/ \E r \in Resolvers : Resolver(r)
<1>1. ASSUME NEW r, Resolver(r) PROVE UNCHANGED producer
  BY <1>1 DEF Resolver, WaitFull, ResolverLock, Pop, Advance, ResolverUnlock, PostEmpty,
              FileLock, WriteName, WriteAddresses, FileUnlock
<1>2. ASSUME NEW p, Producer(p) PROVE UNCHANGED resolver
  BY <1>2 DEF Producer, WaitEmpty, ProducerLock, Push, ProducerUnlock, PostFull
<1>3. ASSUME NEW f, Requester(f) PROVE UNCHANGED resolver
  BY <1>3 DEF Requester, OpenFile, OpenFails, ReadLine
<1>4. ASSUME MainThread PROVE UNCHANGED resolver
  BY <1>4 DEF MainThread, JoinRequesters, NextPill, JoinResolvers
<1> QED BY <1>1, <1>2, <1>3, <1>4 DEF Next, Terminated, vars

LEMMA ProducerStep ==
  ASSUME TypeInv, ProducerInv, [Next]_vars
  PROVE  ProducerInv'
<1> USE DEF ProducerInv, Ended
<1>1. /\ Main \in Producers /\ Main \notin Files /\ Files \subseteq Producers
      /\ NULL \notin Host /\ resolver_count' = resolver_count
      /\ \A p \in Producers : p # Main => p \in Files
  BY Frame, ConstantFacts DEF Producers
<1>2. /\ ppc \in [Producers -> ProducerState] /\ pbuf \in [Producers -> Host \cup {NULL}]
      /\ left \in [Files -> 0 .. MaxLines] /\ pills \in Nat /\ resolver_count \in Nat
  BY ResolverFacts DEF TypeInv
<1>3. CASE UNCHANGED producer
  BY <1>1, <1>3 DEF producer
<1>4. ASSUME NEW f \in Files, Requester(f) PROVE ProducerInv'
  <2>1. CASE OpenFile(f)
    BY <2>1, <1>1, <1>2 DEF OpenFile
  <2>2. CASE OpenFails(f)
    BY <2>2, <1>1, <1>2 DEF OpenFails
  <2>3. CASE ReadLine(f) /\ left[f] = 0
    BY <2>3, <1>1, <1>2 DEF ReadLine
  <2>4. CASE ReadLine(f) /\ left[f] # 0
    <3>1. left'[f] + 1 = left[f] /\ <<f, left[f]>> # NULL
      <4>1. left[f] \in 1 .. MaxLines
        BY <2>4, <1>2, ConstantFacts
      <4> QED BY <2>4, <4>1, <1>1, <1>2 DEF ReadLine, Host
    <3>2. ~Ended
      BY <2>4 DEF ReadLine
    <3> QED BY <2>4, <3>1, <3>2, <1>1, <1>2 DEF ReadLine
  <2> QED BY <1>4, <2>1, <2>2, <2>3, <2>4 DEF Requester
<1>5. CASE MainThread
  <2>1. CASE JoinRequesters
    BY <2>1, <1>1, <1>2 DEF JoinRequesters
  <2>2. CASE NextPill
    BY <2>2, <1>1, <1>2 DEF NextPill
  <2>3. CASE JoinResolvers
    BY <2>3, <1>1, <1>2 DEF JoinResolvers
  <2> QED BY <1>5, <2>1, <2>2, <2>3 DEF MainThread
<1>6. ASSUME NEW p \in Producers, Producer(p) PROVE ProducerInv'
  <2>1. CASE WaitEmpty(p)
    BY <2>1, <1>1, <1>2 DEF WaitEmpty
  <2>2. CASE ProducerLock(p)
    BY <2>2, <1>1, <1>2 DEF ProducerLock
  <2>3. CASE Push(p)
    BY <2>3, <1>1, <1>2 DEF Push
  <2>4. CASE ProducerUnlock(p)
    BY <2>4, <1>1, <1>2 DEF ProducerUnlock
  <2>5. CASE PostFull(p)
    BY <2>5, <1>1, <1>2 DEF PostFull
  <2> QED BY <1>6, <2>1, <2>2, <2>3, <2>4, <2>5 DEF Producer
<1> QED BY <1>3, <1>4, <1>5, <1>6, Sides

LEMMA ResolverStep ==
  ASSUME TypeInv, ResolverInv, [Next]_vars
  PROVE  ResolverInv'
<1> USE DEF ResolverInv
<1>1. Resolvers' = Resolvers
  BY Frame
<1>2. rpc \in [Resolvers -> ResolverState] /\ rbuf \in [Resolvers -> Host \cup {NULL}]
  BY DEF TypeInv
<1>3. CASE UNCHANGED resolver
  BY <1>1, <1>3 DEF resolver
<1>4. ASSUME NEW r \in Resolvers, Resolver(r) PROVE ResolverInv'
  <2>1. CASE WaitFull(r) \/ ResolverLock(r) \/ Pop(r)
    BY <2>1, <1>1, <1>2 DEF WaitFull, ResolverLock, Pop
  <2>2. CASE Advance(r) \/ ResolverUnlock(r) \/ PostEmpty(r)
    BY <2>2, <1>1, <1>2 DEF Advance, ResolverUnlock, PostEmpty
  <2>3. CASE FileLock(r) \/ WriteName(r)
    BY <2>3, <1>1, <1>2 DEF FileLock, WriteName
  <2>4. CASE WriteAddresses(r) \/ FileUnlock(r)
    BY <2>4, <1>1, <1>2 DEF WriteAddresses, FileUnlock
  <2> QED BY <1>4, <2>1, <2>2, <2>3, <2>4 DEF Resolver
<1> QED BY <1>3, <1>4, Sides

LEMMA FileStep ==
  ASSUME TypeInv, FileInv, [Next]_vars
  PROVE  FileInv'
<1> USE DEF FileInv
<1>1. Resolvers' = Resolvers
  BY Frame
<1>2. rpc \in [Resolvers -> ResolverState] /\ rbuf \in [Resolvers -> Host \cup {NULL}]
  BY DEF TypeInv
<1>3. CASE UNCHANGED resolver
  BY <1>1, <1>3 DEF resolver
<1>4. ASSUME NEW r \in Resolvers, Resolver(r) PROVE FileInv'
  <2>1. CASE WaitFull(r) \/ ResolverLock(r) \/ Pop(r)
    BY <2>1, <1>1, <1>2 DEF WaitFull, ResolverLock, Pop, resolver
  <2>2. CASE Advance(r) \/ ResolverUnlock(r) \/ PostEmpty(r)
    BY <2>2, <1>1, <1>2 DEF Advance, ResolverUnlock, PostEmpty
  <2>3. CASE FileLock(r)
    BY <2>3, <1>1, <1>2 DEF FileLock
  <2>4. CASE WriteName(r) \/ WriteAddresses(r)
    BY <2>4, <1>1, <1>2 DEF WriteName, WriteAddresses
  <2>5. CASE FileUnlock(r)
    BY <2>5, <1>1, <1>2 DEF FileUnlock
  <2> QED BY <1>4, <2>1, <2>2, <2>3, <2>4, <2>5 DEF Resolver
<1> QED BY <1>3, <1>4, Sides

LEMMA MutexStep ==
  ASSUME TypeInv, MutexInv, [Next]_vars
  PROVE  MutexInv'
<1> USE DEF MutexInv
<1>1. Resolvers' = Resolvers /\ Main \in Producers /\ Files \subseteq Producers
  BY Frame DEF Producers
<1>2. rpc \in [Resolvers -> ResolverState] /\ ppc \in [Producers -> ProducerState]
  BY DEF TypeInv
<1>3. CASE UNCHANGED <<ppc, rpc, queue_mut>>
  BY <1>1, <1>3
<1>4. ASSUME NEW f \in Files, Requester(f) PROVE MutexInv'
  BY <1>4, <1>1, <1>2 DEF Requester, OpenFile, OpenFails, ReadLine, resolver, shared
<1>5. CASE MainThread
  BY <1>5, <1>1, <1>2 DEF MainThread, JoinRequesters, NextPill, JoinResolvers, resolver, shared
<1>6. ASSUME NEW p \in Producers, Producer(p) PROVE MutexInv'
  <2>1. CASE WaitEmpty(p) \/ PostFull(p)
    BY <2>1, <1>1, <1>2 DEF WaitEmpty, PostFull, resolver
  <2>2. CASE ProducerLock(p)
    BY <2>2, <1>1, <1>2 DEF ProducerLock, resolver
  <2>3. CASE Push(p)
    BY <2>3, <1>1, <1>2 DEF Push, resolver
  <2>4. CASE ProducerUnlock(p)
    BY <2>4, <1>1, <1>2 DEF ProducerUnlock, resolver
  <2> QED BY <1>6, <2>1, <2>2, <2>3, <2>4 DEF Producer
<1>7. ASSUME NEW r \in Resolvers, Resolver(r) PROVE MutexInv'
  <2>1. CASE WaitFull(r) \/ PostEmpty(r)
    BY <2>1, <1>1, <1>2 DEF WaitFull, PostEmpty, producer
  <2>2. CASE ResolverLock(r)
    BY <2>2, <1>1, <1>2 DEF ResolverLock, producer
  <2>3. CASE Pop(r) \/ Advance(r)
    BY <2>3, <1>1, <1>2 DEF Pop, Advance, producer, shared
  <2>4. CASE ResolverUnlock(r)
    BY <2>4, <1>1, <1>2 DEF ResolverUnlock, producer
  <2>5. CASE FileLock(r) \/ WriteName(r)
    BY <2>5, <1>1, <1>2 DEF FileLock, WriteName, producer, shared
  <2>6. CASE WriteAddresses(r) \/ FileUnlock(r)
    BY <2>6, <1>1, <1>2 DEF WriteAddresses, FileUnlock, producer, shared
  <2> QED BY <1>7, <2>1, <2>2, <2>3, <2>4, <2>5, <2>6 DEF Resolver
<1> QED BY <1>3, <1>4, <1>5, <1>6, <1>7 DEF Next, Terminated, vars, producer, resolver, shared
-----------------------------------------------------------------------------
(* Counting places                                                         *)

\* What one thread's step does to a count.
LEMMA InStep ==
  ASSUME NEW D, IsFiniteSet(D), NEW pc, DOMAIN pc = D, pc = [x \in D |-> pc[x]],
         NEW p \in D, NEW b, NEW S
  PROVE  /\ (b \in S <=> pc[p] \in S) => In([pc EXCEPT ![p] = b], D, S) = In(pc, D, S)
         /\ b \in S /\ pc[p] \notin S => In([pc EXCEPT ![p] = b], D, S) = In(pc, D, S) + 1
         /\ b \notin S /\ pc[p] \in S => In([pc EXCEPT ![p] = b], D, S) = In(pc, D, S) - 1
<1> DEFINE A  == {x \in D : pc[x] \in S}
           A2 == {x \in D : [pc EXCEPT ![p] = b][x] \in S}
<1>1. IsFiniteSet(A) /\ Cardinality(A) \in Nat
  BY FS_Subset, FS_CardinalityType
<1>2. p \in A <=> pc[p] \in S
  OBVIOUS
<1>3. A2 = IF b \in S THEN A \cup {p} ELSE A \ {p}
  OBVIOUS
<1> HIDE DEF A, A2
<1>4. /\ p \notin A => Cardinality(A \cup {p}) = Cardinality(A) + 1
      /\ p \in A => Cardinality(A \ {p}) = Cardinality(A) - 1
  <2>1. Cardinality(A \cup {p}) = IF p \in A THEN Cardinality(A) ELSE Cardinality(A) + 1
    BY <1>1, FS_AddElement
  <2>2. Cardinality(A \ {p}) = IF p \in A THEN Cardinality(A) - 1 ELSE Cardinality(A)
    BY <1>1, FS_RemoveElement
  <2> QED BY <2>1, <2>2
<1>5. (p \notin A => A \ {p} = A) /\ (p \in A => A \cup {p} = A)
  OBVIOUS
<1>6. /\ (b \in S <=> p \in A) => A2 = A
      /\ b \in S /\ p \notin A => Cardinality(A2) = Cardinality(A) + 1
      /\ b \notin S /\ p \in A => Cardinality(A2) = Cardinality(A) - 1
  BY <1>3, <1>4, <1>5
<1> QED BY <1>1, <1>2, <1>6 DEF In, A, A2

\* A count is at least the number of threads known to be in it.
LEMMA InPositive ==
  ASSUME NEW D, IsFiniteSet(D), NEW pc, NEW p \in D, NEW S, pc[p] \in S
  PROVE  In(pc, D, S) \in Nat \ {0}
<1>1. IsFiniteSet({x \in D : pc[x] \in S}) /\ p \in {x \in D : pc[x] \in S}
  BY FS_Subset
<1> QED BY <1>1, FS_CardinalityType, FS_EmptySet DEF In

\* Counting in a larger set of program counters, with a thread that the smaller misses.
LEMMA InSmaller ==
  ASSUME NEW D, IsFiniteSet(D), NEW pc, NEW S, NEW T, S \subseteq T
  PROVE  /\ In(pc, D, S) \in Nat /\ In(pc, D, T) \in Nat
         /\ In(pc, D, S) <= In(pc, D, T)
         /\ \A p \in D : pc[p] \in T \ S => In(pc, D, S) < In(pc, D, T)
<1> DEFINE A == {x \in D : pc[x] \in S}
           B == {x \in D : pc[x] \in T}
<1>1. IsFiniteSet(A) /\ IsFiniteSet(B) /\ Cardinality(A) \in Nat /\ Cardinality(B) \in Nat
  BY FS_Subset, FS_CardinalityType
<1>2. A \subseteq B
  OBVIOUS
<1>3. Cardinality(A) <= Cardinality(B)
  BY <1>1, <1>2, FS_Subset
<1>4. ASSUME NEW p \in D, pc[p] \in T \ S PROVE Cardinality(A) < Cardinality(B)
  <2>1. p \in B /\ p \notin A
    BY <1>4
  <2>2. A # B
    BY <2>1
  <2> HIDE DEF A, B
  <2> QED BY <2>2, <1>1, <1>2, <1>3, FS_Subset
<1> QED BY <1>1, <1>3, <1>4 DEF In

LEMMA CountTypes ==
  ASSUME TypeInv
  PROVE  \A S : In(ppc, Producers, S) \in Nat /\ In(rpc, Resolvers, S) \in Nat
<1> SUFFICES ASSUME NEW S PROVE In(ppc, Producers, S) \in Nat /\ In(rpc, Resolvers, S) \in Nat
  OBVIOUS
<1> QED BY InSmaller, ConstantFacts, ResolverFacts

\* The two counts of the producers after a step of producer p.
LEMMA ProducerCount ==
  ASSUME TypeInv, NEW p \in Producers, NEW b, ppc' = [ppc EXCEPT ![p] = b]
  PROVE  LET H  == In(ppc, Producers, ProducerHolds)
             F  == In(ppc, Producers, ProducerPut)
             H2 == In(ppc', Producers, ProducerHolds)
             F2 == In(ppc', Producers, ProducerPut)
         IN
         /\ ppc[p] = "sem_wait" /\ b = "lock" => H2 = H + 1 /\ F2 = F
         /\ ppc[p] = "lock" /\ b = "push" => H2 = H /\ F2 = F
         /\ ppc[p] = "push" /\ b = "unlock" => H2 = H /\ F2 = F + 1
         /\ ppc[p] = "unlock" /\ b = "sem_post" => H2 = H /\ F2 = F
         /\ ppc[p] = "sem_post" /\ b \in {"read", "next_pill"} => H2 = H - 1 /\ F2 = F - 1
         /\ ppc[p] \notin ProducerHolds /\ b \notin ProducerHolds => H2 = H /\ F2 = F
<1> DEFINE Same(S) == In(ppc', Producers, S) = In(ppc, Producers, S)
           More(S) == In(ppc', Producers, S) = In(ppc, Producers, S) + 1
           Less(S) == In(ppc', Producers, S) = In(ppc, Producers, S) - 1
<1>1. IsFiniteSet(Producers) /\ DOMAIN ppc = Producers /\ ppc = [x \in Producers |-> ppc[x]]
  BY ConstantFacts DEF TypeInv
<1>2. ASSUME NEW S
      PROVE  /\ (b \in S <=> ppc[p] \in S) => Same(S)
             /\ b \in S /\ ppc[p] \notin S => More(S)
             /\ b \notin S /\ ppc[p] \in S => Less(S)
  BY <1>1, InStep
<1>3. ASSUME ppc[p] = "sem_wait" /\ b = "lock" PROVE More(ProducerHolds) /\ Same(ProducerPut)
  <2>1. /\ b \in ProducerHolds /\ ppc[p] \notin ProducerHolds
        /\ b \in ProducerPut <=> ppc[p] \in ProducerPut
    BY <1>3 DEF ProducerHolds, ProducerPut
  <2> HIDE DEF Same, More, Less
  <2> QED BY <2>1, <1>2
<1>4. ASSUME ppc[p] = "lock" /\ b = "push" PROVE Same(ProducerHolds) /\ Same(ProducerPut)
  <2>1. /\ b \in ProducerHolds <=> ppc[p] \in ProducerHolds
        /\ b \in ProducerPut <=> ppc[p] \in ProducerPut
    BY <1>4 DEF ProducerHolds, ProducerPut
  <2> HIDE DEF Same, More, Less
  <2> QED BY <2>1, <1>2
<1>5. ASSUME ppc[p] = "push" /\ b = "unlock" PROVE Same(ProducerHolds) /\ More(ProducerPut)
  <2>1. /\ b \in ProducerHolds <=> ppc[p] \in ProducerHolds
        /\ b \in ProducerPut /\ ppc[p] \notin ProducerPut
    BY <1>5 DEF ProducerHolds, ProducerPut
  <2> HIDE DEF Same, More, Less
  <2> QED BY <2>1, <1>2
<1>6. ASSUME ppc[p] = "unlock" /\ b = "sem_post" PROVE Same(ProducerHolds) /\ Same(ProducerPut)
  <2>1. /\ b \in ProducerHolds <=> ppc[p] \in ProducerHolds
        /\ b \in ProducerPut <=> ppc[p] \in ProducerPut
    BY <1>6 DEF ProducerHolds, ProducerPut
  <2> HIDE DEF Same, More, Less
  <2> QED BY <2>1, <1>2
<1>7. ASSUME ppc[p] = "sem_post" /\ b \in {"read", "next_pill"} PROVE Less(ProducerHolds) /\ Less(ProducerPut)
  <2>1. /\ b \notin ProducerHolds /\ ppc[p] \in ProducerHolds
        /\ b \notin ProducerPut /\ ppc[p] \in ProducerPut
    BY <1>7 DEF ProducerHolds, ProducerPut
  <2> HIDE DEF Same, More, Less
  <2> QED BY <2>1, <1>2
<1>8. ASSUME ppc[p] \notin ProducerHolds /\ b \notin ProducerHolds PROVE Same(ProducerHolds) /\ Same(ProducerPut)
  <2>1. /\ b \in ProducerHolds <=> ppc[p] \in ProducerHolds
        /\ b \in ProducerPut <=> ppc[p] \in ProducerPut
    BY <1>8 DEF ProducerHolds, ProducerPut
  <2> HIDE DEF Same, More, Less
  <2> QED BY <2>1, <1>2
<1> QED BY <1>3, <1>4, <1>5, <1>6, <1>7, <1>8

\* The two counts of the resolvers after a step of resolver r.
LEMMA ResolverCount ==
  ASSUME TypeInv, NEW r \in Resolvers, NEW b, rpc' = [rpc EXCEPT ![r] = b]
  PROVE  LET H  == In(rpc, Resolvers, ResolverHolds)
             F  == In(rpc, Resolvers, ResolverDue)
             H2 == In(rpc', Resolvers, ResolverHolds)
             F2 == In(rpc', Resolvers, ResolverDue)
         IN
         /\ rpc[r] = "sem_wait" /\ b = "lock" => H2 = H + 1 /\ F2 = F + 1
         /\ rpc[r] = "lock" /\ b = "pop" => H2 = H /\ F2 = F
         /\ rpc[r] = "pop" /\ b = "advance" => H2 = H /\ F2 = F
         /\ rpc[r] = "advance" /\ b = "unlock" => H2 = H /\ F2 = F - 1
         /\ rpc[r] = "unlock" /\ b = "sem_post" => H2 = H /\ F2 = F
         /\ rpc[r] = "sem_post" /\ b \in {"done", "file_lock"} => H2 = H - 1 /\ F2 = F
         /\ rpc[r] \notin ResolverHolds /\ b \notin ResolverHolds => H2 = H /\ F2 = F
<1> DEFINE Same(S) == In(rpc', Resolvers, S) = In(rpc, Resolvers, S)
           More(S) == In(rpc', Resolvers, S) = In(rpc, Resolvers, S) + 1
           Less(S) == In(rpc', Resolvers, S) = In(rpc, Resolvers, S) - 1
<1>1. IsFiniteSet(Resolvers) /\ DOMAIN rpc = Resolvers /\ rpc = [x \in Resolvers |-> rpc[x]]
  BY ResolverFacts DEF TypeInv
<1>2. ASSUME NEW S
      PROVE  /\ (b \in S <=> rpc[r] \in S) => Same(S)
             /\ b \in S /\ rpc[r] \notin S => More(S)
             /\ b \notin S /\ rpc[r] \in S => Less(S)
  BY <1>1, InStep
<1>3. ASSUME rpc[r] = "sem_wait" /\ b = "lock" PROVE More(ResolverHolds) /\ More(ResolverDue)
  <2>1. /\ b \in ResolverHolds /\ rpc[r] \notin ResolverHolds
        /\ b \in ResolverDue /\ rpc[r] \notin ResolverDue
    BY <1>3 DEF ResolverHolds, ResolverDue
  <2> HIDE DEF Same, More, Less
  <2> QED BY <2>1, <1>2
<1>4. ASSUME rpc[r] = "lock" /\ b = "pop" PROVE Same(ResolverHolds) /\ Same(ResolverDue)
  <2>1. /\ b \in ResolverHolds <=> rpc[r] \in ResolverHolds
        /\ b \in ResolverDue <=> rpc[r] \in ResolverDue
    BY <1>4 DEF ResolverHolds, ResolverDue
  <2> HIDE DEF Same, More, Less
  <2> QED BY <2>1, <1>2
<1>5. ASSUME rpc[r] = "pop" /\ b = "advance" PROVE Same(ResolverHolds) /\ Same(ResolverDue)
  <2>1. /\ b \in ResolverHolds <=> rpc[r] \in ResolverHolds
        /\ b \in ResolverDue <=> rpc[r] \in ResolverDue
    BY <1>5 DEF ResolverHolds, ResolverDue
  <2> HIDE DEF Same, More, Less
  <2> QED BY <2>1, <1>2
<1>6. ASSUME rpc[r] = "advance" /\ b = "unlock" PROVE Same(ResolverHolds) /\ Less(ResolverDue)
  <2>1. /\ b \in ResolverHolds <=> rpc[r] \in ResolverHolds
        /\ b \notin ResolverDue /\ rpc[r] \in ResolverDue
    BY <1>6 DEF ResolverHolds, ResolverDue
  <2> HIDE DEF Same, More, Less
  <2> QED BY <2>1, <1>2
<1>7. ASSUME rpc[r] = "unlock" /\ b = "sem_post" PROVE Same(ResolverHolds) /\ Same(ResolverDue)
  <2>1. /\ b \in ResolverHolds <=> rpc[r] \in ResolverHolds
        /\ b \in ResolverDue <=> rpc[r] \in ResolverDue
    BY <1>7 DEF ResolverHolds, ResolverDue
  <2> HIDE DEF Same, More, Less
  <2> QED BY <2>1, <1>2
<1>8. ASSUME rpc[r] = "sem_post" /\ b \in {"done", "file_lock"} PROVE Less(ResolverHolds) /\ Same(ResolverDue)
  <2>1. /\ b \notin ResolverHolds /\ rpc[r] \in ResolverHolds
        /\ b \in ResolverDue <=> rpc[r] \in ResolverDue
    BY <1>8 DEF ResolverHolds, ResolverDue
  <2> HIDE DEF Same, More, Less
  <2> QED BY <2>1, <1>2
<1>9. ASSUME rpc[r] \notin ResolverHolds /\ b \notin ResolverHolds PROVE Same(ResolverHolds) /\ Same(ResolverDue)
  <2>1. /\ b \in ResolverHolds <=> rpc[r] \in ResolverHolds
        /\ b \in ResolverDue <=> rpc[r] \in ResolverDue
    BY <1>9 DEF ResolverHolds, ResolverDue
  <2> HIDE DEF Same, More, Less
  <2> QED BY <2>1, <1>2
<1> QED BY <1>3, <1>4, <1>5, <1>6, <1>7, <1>8, <1>9

LEMMA PlacesCount ==
  PlacesConserved <=>
    empty + full + In(ppc, Producers, ProducerHolds) + In(rpc, Resolvers, ResolverHolds) = QUEUE_SIZE
BY DEF PlacesConserved, In, ProducerHolds, ResolverHolds

\* The same of the next state: a step leaves the set of threads as it is.
LEMMA PlacesCountNext ==
  ASSUME Resolvers' = Resolvers
  PROVE  /\ PlacesConserved' <=>
              empty' + full' + In(ppc', Producers, ProducerHolds) + In(rpc', Resolvers, ResolverHolds) = QUEUE_SIZE
         /\ Filled' = full' + In(ppc', Producers, ProducerPut) + In(rpc', Resolvers, ResolverDue)
BY DEF PlacesConserved, Filled, In, ProducerHolds, ResolverHolds, ProducerPut, ResolverDue

\* No place is lost; a push fills one place of the buffer, and the end of a pop empties one.
LEMMA CountStep ==
  ASSUME TypeInv, [Next]_vars
  PROVE  /\ PlacesConserved => PlacesConserved'
         /\ \/ (\E p \in Producers : Push(p)) /\ Filled' = Filled + 1
            \/ (\E r \in Resolvers : Advance(r)) /\ Filled' = Filled - 1
            \/ Filled' = Filled /\ (JoinResolvers \/ UNCHANGED queue)
<1> DEFINE PH == In(ppc, Producers, ProducerHolds)
           PP == In(ppc, Producers, ProducerPut)
           RH == In(rpc, Resolvers, ResolverHolds)
           RD == In(rpc, Resolvers, ResolverDue)
           PH2 == In(ppc', Producers, ProducerHolds)
           PP2 == In(ppc', Producers, ProducerPut)
           RH2 == In(rpc', Resolvers, ResolverHolds)
           RD2 == In(rpc', Resolvers, ResolverDue)
           Kept == empty' + full' + PH2 + RH2 = empty + full + PH + RH
           Level  == full + PP + RD
           Level2 == full' + PP2 + RD2
           Goal == Kept /\ \/ (\E p \in Producers : Push(p)) /\ Level2 = Level + 1
                           \/ (\E r \in Resolvers : Advance(r)) /\ Level2 = Level - 1
                           \/ Level2 = Level /\ (JoinResolvers \/ UNCHANGED queue)
<1>1. /\ PH \in Nat /\ PP \in Nat /\ RH \in Nat /\ RD \in Nat /\ empty \in Nat /\ full \in Nat
  BY CountTypes DEF TypeInv
<1>2. UNCHANGED resolver => RH2 = RH /\ RD2 = RD
  BY DEF resolver
<1>3. UNCHANGED producer => PH2 = PH /\ PP2 = PP
  BY DEF producer
<1>4. Main \in Producers /\ Files \subseteq Producers
  BY DEF Producers
<1>5. ASSUME NEW p \in Producers, NEW b, ppc' = [ppc EXCEPT ![p] = b]
      PROVE
         /\ ppc[p] = "sem_wait" /\ b = "lock" => PH2 = PH + 1 /\ PP2 = PP
         /\ ppc[p] = "lock" /\ b = "push" => PH2 = PH /\ PP2 = PP
         /\ ppc[p] = "push" /\ b = "unlock" => PH2 = PH /\ PP2 = PP + 1
         /\ ppc[p] = "unlock" /\ b = "sem_post" => PH2 = PH /\ PP2 = PP
         /\ ppc[p] = "sem_post" /\ b \in {"read", "next_pill"} => PH2 = PH - 1 /\ PP2 = PP - 1
         /\ ppc[p] \notin ProducerHolds /\ b \notin ProducerHolds => PH2 = PH /\ PP2 = PP
  BY <1>5, ProducerCount
<1>6. ASSUME NEW r \in Resolvers, NEW b, rpc' = [rpc EXCEPT ![r] = b]
      PROVE
         /\ rpc[r] = "sem_wait" /\ b = "lock" => RH2 = RH + 1 /\ RD2 = RD + 1
         /\ rpc[r] = "lock" /\ b = "pop" => RH2 = RH /\ RD2 = RD
         /\ rpc[r] = "pop" /\ b = "advance" => RH2 = RH /\ RD2 = RD
         /\ rpc[r] = "advance" /\ b = "unlock" => RH2 = RH /\ RD2 = RD - 1
         /\ rpc[r] = "unlock" /\ b = "sem_post" => RH2 = RH /\ RD2 = RD
         /\ rpc[r] = "sem_post" /\ b \in {"done", "file_lock"} => RH2 = RH - 1 /\ RD2 = RD
         /\ rpc[r] \notin ResolverHolds /\ b \notin ResolverHolds => RH2 = RH /\ RD2 = RD
  BY <1>6, ResolverCount
<1> HIDE DEF PH, PP, RH, RD, PH2, PP2, RH2, RD2
<1>7. ASSUME PH2 = PH, PP2 = PP, RH2 = RH, RD2 = RD, UNCHANGED <<empty, full>>,
             JoinResolvers \/ UNCHANGED queue
      PROVE  Goal
  BY <1>7, <1>1
<1> HIDE DEF Goal
<1>8. ASSUME UNCHANGED vars PROVE Goal
  <2>1. UNCHANGED resolver /\ UNCHANGED producer /\ UNCHANGED <<empty, full, queue>>
    BY <1>8 DEF vars, resolver, producer, shared
  <2> QED BY <2>1, <1>2, <1>3, <1>7
<1>9. ASSUME NEW f \in Files, Requester(f) PROVE Goal
  <2>1. PICK b : ppc' = [ppc EXCEPT ![f] = b] /\ b \notin ProducerHolds /\ ppc[f] \notin ProducerHolds
    BY <1>9 DEF Requester, OpenFile, OpenFails, ReadLine, ProducerHolds
  <2>2. UNCHANGED resolver /\ UNCHANGED <<empty, full, queue>>
    BY <1>9 DEF Requester, OpenFile, OpenFails, ReadLine, resolver, shared
  <2>3. PH2 = PH /\ PP2 = PP
    BY <2>1, <1>4, <1>5
  <2> QED BY <2>2, <2>3, <1>2, <1>7
<1>10. ASSUME MainThread PROVE Goal
  <2>1. PICK b : ppc' = [ppc EXCEPT ![Main] = b] /\ b \notin ProducerHolds /\ ppc[Main] \notin ProducerHolds
    BY <1>10 DEF MainThread, JoinRequesters, NextPill, JoinResolvers, ProducerHolds
  <2>2. UNCHANGED <<resolver, empty, full>> /\ (JoinResolvers \/ UNCHANGED queue)
    BY <1>10 DEF MainThread, JoinRequesters, NextPill, JoinResolvers, shared
  <2>3. PH2 = PH /\ PP2 = PP
    BY <2>1, <1>4, <1>5
  <2> QED BY <2>2, <2>3, <1>2, <1>7
<1>11. ASSUME NEW p \in Producers, Producer(p) PROVE Goal
  <2>1. CASE WaitEmpty(p)
    <3>1. PH2 = PH + 1 /\ PP2 = PP
      BY <2>1, <1>5 DEF WaitEmpty
    <3>2. empty' = empty - 1 /\ UNCHANGED <<full, queue>> /\ RH2 = RH /\ RD2 = RD
      BY <2>1, <1>2 DEF WaitEmpty, shared
    <3>3. Kept /\ Level2 = Level
      BY <3>1, <3>2, <1>1
    <3> QED BY <3>2, <3>3, <2>1 DEF Goal
  <2>2. CASE ProducerLock(p)
    <3>1. PH2 = PH /\ PP2 = PP
      BY <2>2, <1>5 DEF ProducerLock
    <3>2. UNCHANGED <<empty, full, queue>> /\ RH2 = RH /\ RD2 = RD
      BY <2>2, <1>2 DEF ProducerLock, shared
    <3> QED BY <3>1, <3>2, <1>7
  <2>3. CASE Push(p)
    <3>1. PH2 = PH /\ PP2 = PP + 1
      BY <2>3, <1>5 DEF Push
    <3>2. UNCHANGED <<empty, full>> /\ RH2 = RH /\ RD2 = RD
      BY <2>3, <1>2 DEF Push, shared
    <3>3. Kept /\ Level2 = Level + 1
      BY <3>1, <3>2, <1>1
    <3> QED BY <3>2, <3>3, <2>3 DEF Goal
  <2>4. CASE ProducerUnlock(p)
    <3>1. PH2 = PH /\ PP2 = PP
      BY <2>4, <1>5 DEF ProducerUnlock
    <3>2. UNCHANGED <<empty, full, queue>> /\ RH2 = RH /\ RD2 = RD
      BY <2>4, <1>2 DEF ProducerUnlock, shared
    <3> QED BY <3>1, <3>2, <1>7
  <2>5. CASE PostFull(p)
    <3>1. PH2 = PH - 1 /\ PP2 = PP - 1
      BY <2>5, <1>5 DEF PostFull
    <3>2. full' = full + 1 /\ UNCHANGED <<empty, queue>> /\ RH2 = RH /\ RD2 = RD
      BY <2>5, <1>2 DEF PostFull, shared
    <3>3. Kept /\ Level2 = Level
      BY <3>1, <3>2, <1>1
    <3> QED BY <3>2, <3>3, <2>5 DEF Goal
  <2> QED BY <1>11, <2>1, <2>2, <2>3, <2>4, <2>5 DEF Producer
<1>12. ASSUME NEW r \in Resolvers, Resolver(r) PROVE Goal
  <2>1. CASE WaitFull(r)
    <3>1. RH2 = RH + 1 /\ RD2 = RD + 1
      BY <2>1, <1>6 DEF WaitFull
    <3>2. full' = full - 1 /\ UNCHANGED <<empty, queue>> /\ PH2 = PH /\ PP2 = PP
      BY <2>1, <1>3 DEF WaitFull, shared
    <3>3. Kept /\ Level2 = Level
      BY <3>1, <3>2, <1>1
    <3> QED BY <3>2, <3>3, <2>1 DEF Goal
  <2>2. CASE ResolverLock(r)
    <3>1. RH2 = RH /\ RD2 = RD
      BY <2>2, <1>6 DEF ResolverLock
    <3>2. UNCHANGED <<empty, full, queue>> /\ PH2 = PH /\ PP2 = PP
      BY <2>2, <1>3 DEF ResolverLock, shared
    <3> QED BY <3>1, <3>2, <1>7
  <2>3. CASE Pop(r)
    <3>1. RH2 = RH /\ RD2 = RD
      BY <2>3, <1>6 DEF Pop
    <3>2. UNCHANGED <<empty, full, queue>> /\ PH2 = PH /\ PP2 = PP
      BY <2>3, <1>3 DEF Pop, shared
    <3> QED BY <3>1, <3>2, <1>7
  <2>4. CASE Advance(r)
    <3>1. RH2 = RH /\ RD2 = RD - 1
      BY <2>4, <1>6 DEF Advance
    <3>2. UNCHANGED <<empty, full>> /\ PH2 = PH /\ PP2 = PP
      BY <2>4, <1>3 DEF Advance, shared
    <3>3. Kept /\ Level2 = Level - 1
      BY <3>1, <3>2, <1>1
    <3> QED BY <3>2, <3>3, <2>4 DEF Goal
  <2>5. CASE ResolverUnlock(r)
    <3>1. RH2 = RH /\ RD2 = RD
      BY <2>5, <1>6 DEF ResolverUnlock
    <3>2. UNCHANGED <<empty, full, queue>> /\ PH2 = PH /\ PP2 = PP
      BY <2>5, <1>3 DEF ResolverUnlock, shared
    <3> QED BY <3>1, <3>2, <1>7
  <2>6. CASE PostEmpty(r)
    <3>1. RH2 = RH - 1 /\ RD2 = RD
      BY <2>6, <1>6 DEF PostEmpty
    <3>2. empty' = empty + 1 /\ UNCHANGED <<full, queue>> /\ PH2 = PH /\ PP2 = PP
      BY <2>6, <1>3 DEF PostEmpty, shared
    <3>3. Kept /\ Level2 = Level
      BY <3>1, <3>2, <1>1
    <3> QED BY <3>2, <3>3, <2>6 DEF Goal
  <2>7. CASE FileLock(r) \/ WriteName(r) \/ WriteAddresses(r) \/ FileUnlock(r)
    <3>1. PICK b : rpc' = [rpc EXCEPT ![r] = b] /\ b \notin ResolverHolds /\ rpc[r] \notin ResolverHolds
      BY <2>7 DEF FileLock, WriteName, WriteAddresses, FileUnlock, ResolverHolds
    <3>2. RH2 = RH /\ RD2 = RD
      BY <3>1, <1>6
    <3>3. UNCHANGED <<empty, full, queue>> /\ PH2 = PH /\ PP2 = PP
      BY <2>7, <1>3 DEF FileLock, WriteName, WriteAddresses, FileUnlock, shared
    <3> QED BY <3>2, <3>3, <1>7
  <2> QED BY <1>12, <2>1, <2>2, <2>3, <2>4, <2>5, <2>6, <2>7 DEF Resolver
<1>13. Goal
  BY <1>8, <1>9, <1>10, <1>11, <1>12 DEF Next, Terminated
<1>14. PlacesConserved <=> empty + full + PH + RH = QUEUE_SIZE
  BY PlacesCount DEF PH, RH
<1>15. PlacesConserved' <=> empty' + full' + PH2 + RH2 = QUEUE_SIZE
  BY Frame, PlacesCountNext DEF PH2, RH2
<1>16. Filled' = full' + PP2 + RD2 /\ Filled = full + PP + RD
  BY Frame, PlacesCountNext DEF Filled, PP, RD, PP2, RD2
<1>17. PlacesConserved => PlacesConserved'
  BY <1>13, <1>14, <1>15 DEF Goal
<1>18. Level2 = Filled' /\ Level = Filled
  BY <1>16
<1> HIDE DEF Level, Level2
<1> QED BY <1>13, <1>17, <1>18 DEF Goal
-----------------------------------------------------------------------------
(* What is in the buffer                                                   *)

LEMMA EndedStays ==
  ASSUME TypeInv, [Next]_vars, Ended
  PROVE  Ended'
<1>1. \A f \in Files : f \in Producers /\ f # Main
  BY ConstantFacts DEF Producers
<1>2. CASE UNCHANGED producer
  BY <1>2 DEF Ended, producer
<1>3. CASE MainThread
  BY <1>3, <1>1 DEF Ended, MainThread, JoinRequesters, NextPill, JoinResolvers, TypeInv
<1>4. ASSUME NEW f \in Files, Requester(f) PROVE FALSE
  BY <1>4 DEF Ended, Requester, OpenFile, OpenFails, ReadLine
<1>5. ASSUME NEW p \in Producers, Producer(p) PROVE Ended'
  BY <1>5, <1>1 DEF Ended, Producer, WaitEmpty, ProducerLock, Push, ProducerUnlock, PostFull, TypeInv
<1> QED BY <1>2, <1>3, <1>4, <1>5, Sides

\* A producer that is about to push has a place, a resolver that pops has a payload.
LEMMA PlaceToPush ==
  ASSUME TypeInv, PlacesConserved, NEW p \in Producers, ppc[p] = "push"
  PROVE  Filled \in 0 .. QUEUE_SIZE - 1
<1>1. ppc[p] \in ProducerHolds \ ProducerPut
  BY DEF ProducerHolds, ProducerPut
<1>2. ProducerPut \subseteq ProducerHolds /\ ResolverDue \subseteq ResolverHolds
  BY DEF ProducerHolds, ProducerPut, ResolverHolds, ResolverDue
<1>3. In(ppc, Producers, ProducerPut) < In(ppc, Producers, ProducerHolds)
  BY <1>1, <1>2, InSmaller, ConstantFacts
<1>4. In(rpc, Resolvers, ResolverDue) <= In(rpc, Resolvers, ResolverHolds)
  BY <1>2, InSmaller, ResolverFacts
<1>5. /\ In(ppc, Producers, ProducerPut) \in Nat /\ In(ppc, Producers, ProducerHolds) \in Nat
      /\ In(rpc, Resolvers, ResolverDue) \in Nat /\ In(rpc, Resolvers, ResolverHolds) \in Nat
      /\ empty \in Nat /\ full \in Nat
  BY CountTypes DEF TypeInv
<1>6. empty + full + In(ppc, Producers, ProducerHolds) + In(rpc, Resolvers, ResolverHolds) = QUEUE_SIZE
  BY PlacesCount
<1> QED BY <1>3, <1>4, <1>5, <1>6, ConstantFacts DEF Filled

LEMMA PayloadToPop ==
  ASSUME TypeInv, NEW r \in Resolvers, rpc[r] \in ResolverDue
  PROVE  Filled \in Nat \ {0}
<1>1. In(rpc, Resolvers, ResolverDue) \in Nat \ {0}
  BY InPositive, ResolverFacts
<1>2. In(ppc, Producers, ProducerPut) \in Nat /\ full \in Nat
  BY CountTypes DEF TypeInv
<1> QED BY <1>1, <1>2 DEF Filled

LEMMA FilledType ==
  ASSUME TypeInv
  PROVE  Filled \in Nat
BY CountTypes DEF TypeInv, Filled

LEMMA QueueStep ==
  ASSUME TypeInv, ProducerInv, PlacesConserved, QueueInv, [Next]_vars
  PROVE  QueueInv'
<1>1. queue \in Buffer /\ Filled \in Nat
  BY FilledType DEF TypeInv
<1>2. Ended => Ended'
  BY EndedStays
<1>3. SUFFICES \/ \E k \in 0 .. QUEUE_SIZE : Layout(queue', k, Filled') /\ (k < Filled' => Ended')
               \/ Ended' /\ AllNull(queue')
  BY DEF QueueInv
<1>4. ASSUME NEW p \in Producers, Push(p), Filled' = Filled + 1
      PROVE  \/ \E k \in 0 .. QUEUE_SIZE : Layout(queue', k, Filled') /\ (k < Filled' => Ended')
             \/ Ended' /\ AllNull(queue')
  <2>1. Filled \in 0 .. QUEUE_SIZE - 1 /\ queue' = queue_push(queue, pbuf[p])
    BY <1>4, PlaceToPush DEF Push
  <2>2. CASE p = Main
    <3>1. Ended /\ pbuf[p] = NULL
      BY <1>4, <2>2 DEF ProducerInv, Push
    <3>2. CASE AllNull(queue)
      BY <3>1, <3>2, <2>1, <1>1, <1>2, AllNullQueue
    <3>3. ASSUME NEW k \in 0 .. QUEUE_SIZE, Layout(queue, k, Filled)
          PROVE  Layout(queue', k, Filled') /\ Ended'
      BY <3>1, <3>3, <2>1, <1>1, <1>2, <1>4, PushLayout
    <3> QED BY <3>2, <3>3 DEF QueueInv
  <2>3. CASE p \in Files
    <3>1. ~Ended /\ pbuf[p] \in Host
      BY <1>4, <2>3 DEF ProducerInv, Ended, Push, TypeInv, Producers
    <3>2. Layout(queue, Filled, Filled)
      <4>1. PICK k \in 0 .. QUEUE_SIZE : Layout(queue, k, Filled) /\ ~(k < Filled)
        BY <3>1 DEF QueueInv
      <4>2. k = Filled
        BY <4>1, <1>1 DEF Layout
      <4> QED BY <4>1, <4>2
    <3>3. pbuf[p] \in Host \cup {NULL} /\ pbuf[p] # NULL
      BY <3>1, ConstantFacts
    <3>4. Layout(queue', Filled + 1, Filled + 1)
      BY <3>2, <3>3, <2>1, <1>1, PushLayout
    <3>5. Filled + 1 \in 0 .. QUEUE_SIZE
      BY <2>1, ConstantFacts
    <3> QED BY <3>4, <3>5, <1>1, <1>4
  <2> QED BY <2>2, <2>3 DEF Producers
<1>5. ASSUME NEW r \in Resolvers, Advance(r), Filled' = Filled - 1
      PROVE  \/ \E k \in 0 .. QUEUE_SIZE : Layout(queue', k, Filled') /\ (k < Filled' => Ended')
             \/ Ended' /\ AllNull(queue')
  <2>1. Filled \in Nat \ {0} /\ queue' = queue_pop(queue)
    BY <1>5, PayloadToPop DEF Advance, ResolverDue
  <2>2. ASSUME Ended, AllNull(queue) PROVE Ended' /\ AllNull(queue')
    BY <2>1, <2>2, <1>1, <1>2, AllNullQueue
  <2>3. ASSUME NEW k \in 0 .. QUEUE_SIZE, Layout(queue, k, Filled), k < Filled => Ended
        PROVE  \/ \E l \in 0 .. QUEUE_SIZE : Layout(queue', l, Filled') /\ (l < Filled' => Ended')
               \/ Ended' /\ AllNull(queue')
    <3>1. CASE k = 0
      BY <3>1, <2>1, <2>2, <2>3, <1>1, LayoutNull
    <3>2. CASE k # 0
      <4>1. k > 0 /\ k - 1 \in 0 .. QUEUE_SIZE /\ (k - 1 < Filled - 1 => k < Filled)
        BY <3>2, <1>1, ConstantFacts
      <4>2. Layout(queue', k - 1, Filled - 1)
        BY <4>1, <2>1, <2>3, <1>1, PopLayout
      <4> QED BY <4>1, <4>2, <2>3, <1>2, <1>5
    <3> QED BY <3>1, <3>2
  <2> QED BY <2>2, <2>3 DEF QueueInv
<1>6. ASSUME Filled' = Filled, UNCHANGED queue
      PROVE  \/ \E k \in 0 .. QUEUE_SIZE : Layout(queue', k, Filled') /\ (k < Filled' => Ended')
             \/ Ended' /\ AllNull(queue')
  BY <1>2, <1>6 DEF QueueInv
<1>7. ASSUME JoinResolvers
      PROVE  Ended' /\ AllNull(queue')
  <2>1. Ended /\ queue' = queue_cleanup(queue)
    BY <1>7 DEF JoinResolvers, ProducerInv
  <2> QED BY <2>1, <1>1, <1>2, QueueType
<1> QED BY <1>4, <1>5, <1>6, <1>7, CountStep

\* Which steps change the buffer.
LEMMA QueueUntouched ==
  ASSUME [Next]_vars
  PROVE  \/ UNCHANGED queue
         \/ JoinResolvers
         \/ \E p \in Producers : Push(p)
         \/ \E r \in Resolvers : Advance(r)
BY DEF Next, vars, shared, MainThread, Requester, Producer, Resolver, Terminated,
       OpenFile, OpenFails, ReadLine, JoinRequesters, NextPill,
       WaitEmpty, ProducerLock, ProducerUnlock, PostFull,
       WaitFull, ResolverLock, Pop, ResolverUnlock, PostEmpty,
       FileLock, WriteName, WriteAddresses, FileUnlock

LEMMA AdvanceStep ==
  ASSUME TypeInv, MutexInv, AdvanceInv, [Next]_vars
  PROVE  AdvanceInv'
<1> SUFFICES ASSUME NEW r \in Resolvers, rpc'[r] = "advance"
             PROVE  rbuf'[r] = Popped(queue')
  BY Frame DEF AdvanceInv
<1>1. rpc \in [Resolvers -> ResolverState] /\ rbuf \in [Resolvers -> Host \cup {NULL}]
  BY DEF TypeInv
<1>2. CASE Pop(r)
  BY <1>1, <1>2 DEF Pop, shared
<1>3. CASE ~Pop(r)
  <2>1. rpc[r] = "advance" /\ rbuf'[r] = rbuf[r]
    <3>1. CASE UNCHANGED resolver
      BY <3>1 DEF resolver
    <3>2. ASSUME NEW r2 \in Resolvers, Resolver(r2)
          PROVE  rpc[r] = "advance" /\ rbuf'[r] = rbuf[r]
      <4>1. CASE r2 = r
        BY <4>1, <3>2, <1>1, <1>3
           DEF Resolver, WaitFull, ResolverLock, Advance, ResolverUnlock, PostEmpty,
               FileLock, WriteName, WriteAddresses, FileUnlock
      <4>2. CASE r2 # r
        BY <4>2, <3>2, <1>1
           DEF Resolver, WaitFull, ResolverLock, Pop, Advance, ResolverUnlock, PostEmpty,
               FileLock, WriteName, WriteAddresses, FileUnlock
      <4> QED BY <4>1, <4>2
    <3> QED BY <3>1, <3>2, Sides
  <2>2. ~JoinResolvers
    BY <2>1 DEF JoinResolvers
  <2>3. ASSUME NEW p \in Producers, Push(p) PROVE FALSE
    BY <2>1, <2>3 DEF Push, MutexInv
  <2>4. ASSUME NEW r2 \in Resolvers, Advance(r2) PROVE FALSE
    <3>1. r2 = r
      BY <2>1, <2>4 DEF Advance, MutexInv
    <3> QED BY <3>1, <2>4, <1>1 DEF Advance
  <2>5. UNCHANGED queue
    BY <2>2, <2>3, <2>4, QueueUntouched
  <2> QED BY <2>1, <2>5 DEF AdvanceInv
<1> QED BY <1>2, <1>3

\* Once an end value was seen there is nothing but end values to come.
LEMMA EndStep ==
  ASSUME TypeInv, ProducerInv, ResolverInv, PlacesConserved, QueueInv, AdvanceInv, EndInv, [Next]_vars
  PROVE  EndInv'
<1>1. queue \in Buffer /\ rpc \in [Resolvers -> ResolverState]
      /\ rbuf \in [Resolvers -> Host \cup {NULL}]
  BY DEF TypeInv
<1>2. Resolvers' = Resolvers
  BY Frame
<1>3. ASSUME Ended, AllNull(queue) PROVE Ended' /\ AllNull(queue')
  <2>1. Ended'
    BY <1>3, EndedStays
  <2>2. CASE UNCHANGED queue
    BY <2>1, <2>2, <1>3
  <2>3. CASE JoinResolvers
    BY <2>1, <2>3, <1>1, QueueType DEF JoinResolvers
  <2>4. ASSUME NEW p \in Producers, Push(p) PROVE AllNull(queue')
    <3>1. p = Main
      BY <1>3, <2>4 DEF Ended, Push, Producers
    <3>2. queue' = queue_push(queue, NULL)
      BY <3>1, <2>4 DEF Push, ProducerInv
    <3> QED BY <3>2, <1>1, <1>3, AllNullQueue
  <2>5. ASSUME NEW r \in Resolvers, Advance(r) PROVE AllNull(queue')
    BY <2>5, <1>1, <1>3, AllNullQueue DEF Advance
  <2> QED BY <2>1, <2>2, <2>3, <2>4, <2>5, QueueUntouched
<1>4. ASSUME NEW r \in Resolvers, Advance(r), rbuf[r] = NULL PROVE Ended /\ AllNull(queue)
  <2>1. Popped(queue) = NULL /\ Filled \in Nat \ {0}
    BY <1>4, PayloadToPop DEF AdvanceInv, Advance, ResolverDue
  <2>2. ASSUME NEW k \in 0 .. QUEUE_SIZE, Layout(queue, k, Filled), k < Filled => Ended
        PROVE  Ended /\ AllNull(queue)
    <3>1. ~(k > 0)
      BY <2>1, <2>2, <1>1, PopLayout, ConstantFacts
    <3>2. k = 0
      BY <3>1, ConstantFacts
    <3> QED BY <3>2, <2>1, <2>2, <1>1, LayoutNull
  <2> QED BY <2>2 DEF QueueInv
<1>5. SUFFICES ASSUME NEW r \in Resolvers, rpc'[r] = "done" \/ (rpc'[r] \in {"unlock", "sem_post"} /\ rbuf'[r] = NULL)
               PROVE  Ended /\ AllNull(queue)
  BY <1>2, <1>3 DEF EndInv, Leaving
<1>6. CASE Leaving(r)
  BY <1>6 DEF EndInv
<1>7. CASE Advance(r)
  BY <1>1, <1>4, <1>5, <1>7 DEF Advance
<1>8. CASE ~Leaving(r) /\ ~Advance(r)
  <2>1. CASE UNCHANGED resolver
    BY <2>1, <1>5, <1>8 DEF resolver, Leaving
  <2>2. ASSUME NEW r2 \in Resolvers, Resolver(r2) PROVE FALSE
    <3>1. CASE r2 = r
      BY <3>1, <2>2, <1>1, <1>5, <1>8
         DEF Leaving, Resolver, WaitFull, ResolverLock, Pop, ResolverUnlock, PostEmpty,
             FileLock, WriteName, WriteAddresses, FileUnlock
    <3>2. CASE r2 # r
      BY <3>2, <2>2, <1>1, <1>5, <1>8
         DEF Leaving, Resolver, WaitFull, ResolverLock, Pop, Advance, ResolverUnlock, PostEmpty,
             FileLock, WriteName, WriteAddresses, FileUnlock
    <3> QED BY <3>1, <3>2
  <2> QED BY <2>1, <2>2, Sides
<1> QED BY <1>6, <1>7, <1>8
-----------------------------------------------------------------------------
(* The lines                                                               *)

LEMMA PartSequence ==
  ASSUME TypeInv, NEW x
  PROVE  /\ Len(out) \in Nat /\ DOMAIN out = 1 .. Len(out)
         /\ DOMAIN Append(out, x) = 1 .. Len(out) + 1 /\ Len(Append(out, x)) = Len(out) + 1
         /\ \A i \in 1 .. Len(out) : Append(out, x)[i] = out[i] /\ out[i] \in Part
         /\ Append(out, x)[Len(out) + 1] = x
BY DEF TypeInv

\* A line that leaves a place, or that stays, is still in one place at most.
LEMMA FewerPlaces ==
  ASSUME TypeInv, TypeInv', NEW h \in Host, Once(h),
         Hands(h)' \subseteq Hands(h), Slots(h)' \subseteq Slots(h),
         Works(h)' \subseteq Works(h), Lines(h)' \subseteq Lines(h),
         \A f \in Files : left'[f] <= left[f]
  PROVE  Once(h)'
<1>1. Single(Hands(h)', Slots(h)', Works(h)', Lines(h)')
  BY DEF Once, Single, AtMostOne
<1>2. h[1] \in Files /\ h[2] \in Int
  BY ConstantFacts DEF Host
<1>3. left[h[1]] \in Int /\ left'[h[1]] \in Int /\ left'[h[1]] <= left[h[1]]
  BY <1>2, ConstantFacts DEF TypeInv
<1>4. Hands(h)' \cup Slots(h)' \cup Works(h)' \cup Lines(h)' # {} => left'[h[1]] < h[2]
  BY <1>2, <1>3 DEF Once
<1> QED BY <1>1, <1>4 DEF Once

\* A line that goes from one place to another.
LEMMA MovePlaces ==
  ASSUME NEW h \in Host, Once(h), left' = left,
         \E x : \/ x \in Hands(h) /\ Hands(h)' = Hands(h) \ {x} /\ (\E y : Slots(h)' = Slots(h) \cup {y})
                   /\ Works(h)' = Works(h) /\ Lines(h)' = Lines(h)
                \/ x \in Slots(h) /\ Slots(h)' = Slots(h) \ {x} /\ (\E y : Works(h)' = Works(h) \cup {y})
                   /\ Hands(h)' = Hands(h) /\ Lines(h)' = Lines(h)
                \/ x \in Works(h) /\ Works(h)' = Works(h) \ {x} /\ (\E y : Lines(h)' = Lines(h) \cup {y})
                   /\ Hands(h)' = Hands(h) /\ Slots(h)' = Slots(h)
  PROVE  Once(h)'
<1>1. left[h[1]] < h[2]
  BY DEF Once
<1>2. Single(Hands(h)', Slots(h)', Works(h)', Lines(h)')
  BY DEF Once, Single, AtMostOne
<1> QED BY <1>1, <1>2 DEF Once

LEMMA OnceStep ==
  ASSUME TypeInv, TypeInv', ProducerInv, PlacesConserved, QueueInv, AdvanceInv, OnceInv, [Next]_vars
  PROVE  OnceInv'
<1>1. /\ queue \in Buffer /\ rpc \in [Resolvers -> ResolverState] /\ left \in [Files -> 0 .. MaxLines]
      /\ rbuf \in [Resolvers -> Host \cup {NULL}] /\ pbuf \in [Producers -> Host \cup {NULL}]
      /\ queue.array \in [Index -> Host \cup {NULL}] /\ queue.front \in Index /\ queue.rear \in Index
  BY DEF TypeInv, Buffer
<1>2. Resolvers' = Resolvers /\ NULL \notin Host /\ Files \subseteq Producers /\ Main \notin Files
  BY Frame, ConstantFacts DEF Producers
<1> SUFFICES ASSUME NEW h \in Host
             PROVE  Once(h)'
  BY DEF OnceInv
<1>3. Once(h)
  BY DEF OnceInv
<1>4. left' = left => \A f \in Files : left'[f] <= left[f]
  BY <1>1, ConstantFacts
<1>5. UNCHANGED producer => Hands(h)' = Hands(h) /\ left' = left
  BY DEF producer, Hands
<1>6. UNCHANGED resolver => Works(h)' = Works(h) /\ Lines(h)' = Lines(h)
  BY <1>2 DEF resolver, Works, Lines
<1>7. UNCHANGED queue => Slots(h)' = Slots(h)
  BY DEF Slots
<1>8. UNCHANGED out => Lines(h)' = Lines(h)
  BY DEF Lines
<1>9. CASE UNCHANGED vars
  <2>1. UNCHANGED producer /\ UNCHANGED resolver /\ UNCHANGED queue
    BY <1>9 DEF vars, producer, resolver, shared
  <2> QED BY <2>1, <1>3, <1>4, <1>5, <1>6, <1>7, FewerPlaces
<1>10. ASSUME NEW f \in Files, Requester(f) PROVE Once(h)'
  <2>1. UNCHANGED resolver /\ UNCHANGED queue
    BY <1>10 DEF Requester, OpenFile, OpenFails, ReadLine, resolver, shared
  <2>2. \A g \in Files : left'[g] <= left[g]
    BY <1>1, <1>10, ConstantFacts DEF Requester, OpenFile, OpenFails, ReadLine
  <2>3. CASE Hands(h)' \subseteq Hands(h)
    BY <2>1, <2>2, <2>3, <1>3, <1>6, <1>7, FewerPlaces
  <2>4. CASE ~(Hands(h)' \subseteq Hands(h))
    <3>1. ReadLine(f) /\ left[f] # 0 /\ h = <<f, left[f]>>
      BY <2>4, <1>1, <1>10 DEF Requester, OpenFile, OpenFails, ReadLine, Hands
    <3>2. h[1] = f /\ h[2] = left[f] /\ left[f] \in Int
      BY <3>1, <1>1, ConstantFacts
    <3>3. Hands(h) = {} /\ Slots(h) = {} /\ Works(h) = {} /\ Lines(h) = {}
      BY <3>2, <1>3 DEF Once
    <3>4. Hands(h)' = {f}
      BY <3>1, <3>3, <1>1, <1>2 DEF ReadLine, Hands
    <3>5. left'[f] < left[f]
      BY <3>1, <3>2, <1>1 DEF ReadLine
    <3>6. Single(Hands(h)', Slots(h)', Works(h)', Lines(h)')
      BY <3>3, <3>4, <2>1, <1>6, <1>7 DEF Single, AtMostOne
    <3> QED BY <3>2, <3>5, <3>6 DEF Once
  <2> QED BY <2>3, <2>4
<1>11. CASE MainThread
  <2>1. UNCHANGED resolver /\ UNCHANGED <<left, pbuf>>
    BY <1>11 DEF MainThread, JoinRequesters, NextPill, JoinResolvers
  <2>2. Slots(h)' \subseteq Slots(h)
    <3>1. CASE JoinResolvers
      <4>1. AllNull(queue') /\ queue' \in Buffer
        BY <3>1, <1>1, QueueType DEF JoinResolvers
      <4> QED BY <4>1, <1>2 DEF Slots, AllNull, Buffer
    <3>2. CASE UNCHANGED queue
      BY <3>2, <1>7
    <3> QED BY <1>11, <3>1, <3>2 DEF MainThread, JoinRequesters, NextPill, shared
  <2>3. Hands(h)' = Hands(h)
    BY <2>1 DEF Hands
  <2> QED BY <2>1, <2>2, <2>3, <1>3, <1>4, <1>6, FewerPlaces
<1>12. ASSUME NEW p \in Producers, Producer(p) PROVE Once(h)'
  <2>1. UNCHANGED resolver /\ UNCHANGED left
    BY <1>12 DEF Producer, WaitEmpty, ProducerLock, Push, ProducerUnlock, PostFull
  <2>2. CASE Push(p)
    <3>1. queue' = queue_push(queue, pbuf[p]) /\ pbuf' = [pbuf EXCEPT ![p] = NULL]
          /\ Filled \in 0 .. QUEUE_SIZE - 1
      BY <2>2, PlaceToPush DEF Push
    <3>2. Hands(h)' = Hands(h) \ {p}
      BY <3>1, <1>1, <1>2 DEF Hands
    <3>3. CASE pbuf[p] = h
      <4>1. p \in Files /\ pbuf[p] # NULL /\ pbuf[p] \in Host \cup {NULL} /\ p \in Hands(h)
        BY <3>3, <1>2 DEF ProducerInv, Producers, Hands
      <4>2. ~Ended
        BY <4>1, <2>2 DEF Ended, Push
      <4>3. PICK k \in 0 .. QUEUE_SIZE : Layout(queue, k, Filled) /\ ~(k < Filled)
        BY <4>2 DEF QueueInv
      <4>4. k = Filled
        BY <4>3, <3>1, ConstantFacts DEF Layout
      <4>5. queue'.array = [queue.array EXCEPT ![queue.rear] = h]
        BY <4>1, <4>3, <4>4, <3>1, <3>3, <1>1, PushLayout
      <4>6. Slots(h)' = Slots(h) \cup {queue.rear}
        BY <4>5, <1>1 DEF Slots
      <4> QED BY <4>1, <4>6, <3>2, <2>1, <1>3, <1>6, MovePlaces
    <3>4. CASE pbuf[p] # h
      <4>1. queue'.array = queue.array \/ queue'.array = [queue.array EXCEPT ![queue.rear] = pbuf[p]]
        BY <3>1, <1>1 DEF queue_push, Buffer
      <4>2. Slots(h)' \subseteq Slots(h)
        BY <4>1, <3>4, <1>1 DEF Slots
      <4>3. Hands(h)' \subseteq Hands(h)
        BY <3>2
      <4> QED BY <4>2, <4>3, <2>1, <1>3, <1>4, <1>6, FewerPlaces
    <3> QED BY <3>3, <3>4
  <2>3. CASE UNCHANGED <<pbuf, queue>>
    <3>1. Hands(h)' = Hands(h)
      BY <2>3 DEF Hands
    <3> QED BY <3>1, <2>1, <2>3, <1>3, <1>4, <1>6, <1>7, FewerPlaces
  <2> QED BY <1>12, <2>2, <2>3 DEF Producer, WaitEmpty, ProducerLock, ProducerUnlock, PostFull
<1>13. ASSUME NEW r \in Resolvers, Resolver(r) PROVE Once(h)'
  <2>1. UNCHANGED producer
    BY <1>13 DEF Resolver, WaitFull, ResolverLock, Pop, Advance, ResolverUnlock, PostEmpty,
                 FileLock, WriteName, WriteAddresses, FileUnlock
  <2>2. CASE Advance(r)
    <3>1. queue' = queue_pop(queue) /\ rbuf[r] = Popped(queue) /\ UNCHANGED out
      BY <2>2 DEF Advance, AdvanceInv
    <3>2. CASE rbuf[r] = h
      <4>1. queue.array[queue.front] = h
        BY <3>1, <3>2, <1>2 DEF Popped
      <4>2. ~queue_is_empty(queue)
        BY <4>1, <1>2 DEF queue_is_empty
      <4>3. queue'.array = [queue.array EXCEPT ![queue.front] = NULL]
        BY <4>2, <3>1, <1>1 DEF queue_pop, Buffer
      <4>4. Slots(h)' = Slots(h) \ {queue.front} /\ queue.front \in Slots(h)
        BY <4>1, <4>3, <1>1, <1>2 DEF Slots
      <4>5. Works(h)' = Works(h) \cup {r}
        BY <2>2, <3>2, <1>1, <1>2 DEF Advance, Works
      <4> QED BY <4>4, <4>5, <3>1, <2>1, <1>3, <1>5, <1>8, MovePlaces
    <3>3. CASE rbuf[r] # h
      <4>1. queue'.array = queue.array \/ queue'.array = [queue.array EXCEPT ![queue.front] = NULL]
        BY <3>1, <1>1 DEF queue_pop, Buffer
      <4>2. Slots(h)' \subseteq Slots(h)
        BY <4>1, <1>1, <1>2 DEF Slots
      <4>3. Works(h)' = Works(h)
        BY <2>2, <3>3, <1>1, <1>2 DEF Advance, Works
      <4> QED BY <4>2, <4>3, <3>1, <2>1, <1>3, <1>4, <1>5, <1>8, FewerPlaces
    <3> QED BY <3>2, <3>3
  <2>3. CASE WriteAddresses(r)
    <3>1. UNCHANGED <<queue, rbuf>> /\ out' = Append(out, [host |-> rbuf[r], part |-> "addresses"])
      BY <2>3 DEF WriteAddresses, shared
    <3>2. CASE rbuf[r] = h
      <4>1. r \in Works(h) /\ Works(h)' = Works(h) \ {r}
        BY <2>3, <3>2, <1>1, <1>2 DEF WriteAddresses, Works
      <4>2. Lines(h)' = Lines(h) \cup {Len(out) + 1}
        BY <3>1, <3>2, PartSequence DEF Lines
      <4> QED BY <4>1, <4>2, <3>1, <2>1, <1>3, <1>5, <1>7, MovePlaces
    <3>3. CASE rbuf[r] # h
      <4>1. Works(h)' = Works(h)
        BY <2>3, <3>3, <1>1, <1>2 DEF WriteAddresses, Works
      <4>2. [host |-> rbuf[r], part |-> "addresses"] # [host |-> h, part |-> "addresses"]
        BY <3>3
      <4>3. Lines(h)' = Lines(h)
        BY <3>1, <4>2, PartSequence DEF Lines
      <4> QED BY <4>1, <4>3, <3>1, <2>1, <1>3, <1>4, <1>5, <1>7, FewerPlaces
    <3> QED BY <3>2, <3>3
  <2>4. CASE WriteName(r)
    <3>1. UNCHANGED <<queue, rbuf>> /\ out' = Append(out, [host |-> rbuf[r], part |-> "name"])
      BY <2>4 DEF WriteName, shared
    <3>2. Works(h)' = Works(h)
      BY <2>4, <1>1, <1>2 DEF WriteName, Works
    <3>3. [host |-> rbuf[r], part |-> "name"] # [host |-> h, part |-> "addresses"]
      OBVIOUS
    <3>4. Lines(h)' = Lines(h)
      BY <3>1, <3>3, PartSequence DEF Lines
    <3> QED BY <3>2, <3>4, <3>1, <2>1, <1>3, <1>4, <1>5, <1>7, FewerPlaces
  <2>5. CASE ~Advance(r) /\ ~WriteAddresses(r) /\ ~WriteName(r)
    <3>1. UNCHANGED <<queue, out>>
      BY <1>13, <2>5 DEF Resolver, WaitFull, ResolverLock, Pop, ResolverUnlock, PostEmpty,
                         FileLock, FileUnlock, shared
    <3>2. Works(h)' \subseteq Works(h)
      BY <1>13, <2>5, <1>1, <1>2
         DEF Works, Resolver, WaitFull, ResolverLock, Pop, ResolverUnlock, PostEmpty, FileLock, FileUnlock
    <3> QED BY <3>1, <3>2, <2>1, <1>3, <1>4, <1>5, <1>7, <1>8, FewerPlaces
  <2> QED BY <2>2, <2>3, <2>4, <2>5
<1> QED BY <1>9, <1>10, <1>11, <1>12, <1>13 DEF Next, Terminated

LEMMA WholeStep ==
  ASSUME TypeInv, FileInv, WholeInv, [Next]_vars
  PROVE  WholeInv'
<1>1. Resolvers' = Resolvers /\ rpc \in [Resolvers -> ResolverState]
      /\ rbuf \in [Resolvers -> Host \cup {NULL}]
  BY Frame DEF TypeInv
<1>2. Len(out) \in Nat /\ DOMAIN out = 1 .. Len(out)
  BY PartSequence
<1>3. CASE UNCHANGED resolver
  BY <1>1, <1>3 DEF WholeInv, LinesWhole, resolver
<1>4. ASSUME NEW r \in Resolvers, Resolver(r) PROVE WholeInv'
  <2>1. CASE WriteName(r)
    <3> DEFINE x == [host |-> rbuf[r], part |-> "name"]
               n == Len(out)
    <3>1. out' = Append(out, x) /\ rbuf' = rbuf /\ rpc[r] = "name" /\ rpc' = [rpc EXCEPT ![r] = "addresses"]
      BY <2>1 DEF WriteName
    <3>2. \A r2 \in Resolvers : rpc[r2] # "addresses"
      BY <3>1 DEF FileInv
    <3>3. n % 2 = 0 /\ (n + 1) % 2 = 1
      BY <3>2, <1>2 DEF WholeInv
    <3>4. /\ DOMAIN out' = 1 .. n + 1 /\ Len(out') = n + 1 /\ out'[n + 1] = x
          /\ \A i \in 1 .. n : out'[i] = out[i]
      BY <3>1, PartSequence
    <3>5. x.host = rbuf[r] /\ x.part = "name"
      OBVIOUS
    <3> HIDE DEF x, n
    <3>6. LinesWhole'
      <4> SUFFICES ASSUME NEW i \in 1 .. n + 1
                   PROVE  IF i % 2 = 1 THEN out'[i].part = "name"
                          ELSE out'[i].part = "addresses" /\ out'[i].host = out'[i - 1].host
        BY <3>4 DEF LinesWhole
      <4>1. CASE i = n + 1
        BY <4>1, <3>3, <3>4, <3>5
      <4>2. CASE i # n + 1
        <5>1. i \in 1 .. n /\ i \in DOMAIN out /\ (i % 2 # 1 => i - 1 \in 1 .. n)
          BY <4>2, <1>2 DEF n
        <5> QED BY <5>1, <3>4 DEF WholeInv, LinesWhole
      <4> QED BY <4>1, <4>2
    <3>7. rpc'[r] = "addresses" /\ \A r2 \in Resolvers : rpc'[r2] = "addresses" => r2 = r
      BY <3>1, <3>2, <1>1
    <3>8. \A r2 \in Resolvers : rpc'[r2] = "addresses" => Len(out') % 2 = 1 /\ out'[Len(out')].host = rbuf'[r2]
      BY <3>1, <3>3, <3>4, <3>5, <3>7
    <3> QED BY <3>6, <3>7, <3>8, <1>1 DEF WholeInv
  <2>2. CASE WriteAddresses(r)
    <3> DEFINE x == [host |-> rbuf[r], part |-> "addresses"]
               n == Len(out)
    <3>1. out' = Append(out, x) /\ rbuf' = rbuf /\ rpc[r] = "addresses" /\ rpc' = [rpc EXCEPT ![r] = "file_unlock"]
      BY <2>2 DEF WriteAddresses
    <3>2. \A r2 \in Resolvers : rpc'[r2] # "addresses"
      BY <3>1, <1>1 DEF FileInv
    <3>3. n % 2 = 1 /\ (n + 1) % 2 = 0 /\ out[n].host = rbuf[r] /\ n \in 1 .. n
      BY <3>1, <1>2 DEF WholeInv
    <3>4. /\ DOMAIN out' = 1 .. n + 1 /\ Len(out') = n + 1 /\ out'[n + 1] = x
          /\ \A i \in 1 .. n : out'[i] = out[i]
      BY <3>1, PartSequence
    <3>5. x.host = rbuf[r] /\ x.part = "addresses"
      OBVIOUS
    <3> HIDE DEF x
    <3>6. LinesWhole'
      <4> SUFFICES ASSUME NEW i \in 1 .. n + 1
                   PROVE  IF i % 2 = 1 THEN out'[i].part = "name"
                          ELSE out'[i].part = "addresses" /\ out'[i].host = out'[i - 1].host
        BY <3>4 DEF LinesWhole
      <4>1. CASE i = n + 1
        BY <4>1, <3>3, <3>4, <3>5, <1>2
      <4>2. CASE i # n + 1
        <5>1. i \in 1 .. n /\ i \in DOMAIN out /\ (i % 2 # 1 => i - 1 \in 1 .. n)
          BY <4>2, <1>2
        <5> QED BY <5>1, <3>4 DEF WholeInv, LinesWhole
      <4> QED BY <4>1, <4>2
    <3> QED BY <3>2, <3>3, <3>4, <3>6, <1>1 DEF WholeInv
  <2>3. CASE ~WriteName(r) /\ ~WriteAddresses(r)
    <3>1. UNCHANGED out
      BY <1>4, <2>3 DEF Resolver, WaitFull, ResolverLock, Pop, Advance, ResolverUnlock, PostEmpty, FileLock, FileUnlock
    <3>2. \A r2 \in Resolvers : rpc'[r2] = "addresses" <=> rpc[r2] = "addresses"
      BY <1>1, <1>4, <2>3
         DEF Resolver, WaitFull, ResolverLock, Pop, Advance, ResolverUnlock, PostEmpty, FileLock, FileUnlock
    <3>3. \A r2 \in Resolvers : rpc[r2] = "addresses" => rbuf'[r2] = rbuf[r2]
      BY <1>1, <1>4, <2>3
         DEF Resolver, WaitFull, ResolverLock, Pop, Advance, ResolverUnlock, PostEmpty, FileLock, FileUnlock
    <3> QED BY <3>1, <3>2, <3>3, <1>1 DEF WholeInv, LinesWhole
  <2> QED BY <2>1, <2>2, <2>3
<1> QED BY <1>3, <1>4, Sides
-----------------------------------------------------------------------------
(* The theorems                                                            *)

LEMMA InvInit == Init => IInv
<1> SUFFICES ASSUME Init PROVE IInv
  OBVIOUS
<1>1. TypeInv
  BY TypeInit
<1>2. /\ \A p \in Producers : ppc[p] = IF p = Main THEN "join_requesters" ELSE "open"
      /\ \A p \in Producers : pbuf[p] = NULL
      /\ \A r \in Resolvers : rpc[r] = "sem_wait" /\ rbuf[r] = NULL
      /\ pills = 0 /\ out = <<>> /\ empty = QUEUE_SIZE /\ full = 0 /\ Files \subseteq Producers
  BY DEF Init, Producers
<1>3. \A S : /\ "open" \notin S /\ "join_requesters" \notin S => In(ppc, Producers, S) = 0
             /\ "sem_wait" \notin S => In(rpc, Resolvers, S) = 0
  <2> SUFFICES ASSUME NEW S
               PROVE  /\ "open" \notin S /\ "join_requesters" \notin S => In(ppc, Producers, S) = 0
                      /\ "sem_wait" \notin S => In(rpc, Resolvers, S) = 0
    OBVIOUS
  <2>1. "open" \notin S /\ "join_requesters" \notin S => {x \in Producers : ppc[x] \in S} = {}
    BY <1>2
  <2>2. "sem_wait" \notin S => {x \in Resolvers : rpc[x] \in S} = {}
    BY <1>2
  <2> QED BY <2>1, <2>2, FS_EmptySet DEF In
<1>4. ProducerInv
  BY <1>2, ConstantFacts, ResolverFacts, <1>1 DEF ProducerInv
<1>5. ResolverInv /\ MutexInv /\ FileInv /\ AdvanceInv /\ EndInv
  BY <1>2 DEF ResolverInv, MutexInv, FileInv, AdvanceInv, EndInv, Leaving
<1>6. In(ppc, Producers, ProducerHolds) = 0 /\ In(rpc, Resolvers, ResolverHolds) = 0 /\ Filled = 0
  BY <1>2, <1>3 DEF Filled, ProducerHolds, ResolverHolds, ProducerPut, ResolverDue
<1>7. PlacesConserved
  BY <1>2, <1>6, PlacesCount, ConstantFacts
<1>8. \A i \in DOMAIN queue.array : queue.array[i] = NULL
  BY DEF Init, queue_init
<1>9. QueueInv
  <2>1. queue \in Buffer /\ queue.front = 0 /\ queue.rear = 0
    BY <1>1 DEF TypeInv, Init, queue_init
  <2>2. AllNull(queue)
    BY <1>8, <2>1 DEF AllNull, Buffer
  <2>3. queue.rear = Slot(queue, 0)
    BY <2>1, LayoutFront
  <2>4. \A j \in Index : Slot(queue, j) \in Index /\ ~(j < 0)
    BY <2>1, SlotValue, ConstantFacts DEF Index
  <2>5. Layout(queue, 0, 0)
    <3>1. \A j \in Index : queue.array[Slot(queue, j)] = NULL /\ ~(j < 0)
      BY <2>2, <2>4 DEF AllNull
    <3>2. 0 \in 0 .. 0 /\ 0 \in 0 .. QUEUE_SIZE
      BY ConstantFacts
    <3> QED BY <3>1, <3>2, <2>3 DEF Layout
  <2> QED BY <2>5, <1>6, ConstantFacts DEF QueueInv
<1>10. OnceInv
  <2> SUFFICES ASSUME NEW h \in Host PROVE Once(h)
    BY DEF OnceInv
  <2>1. Hands(h) = {} /\ Slots(h) = {} /\ Works(h) = {} /\ Lines(h) = {}
    BY <1>2, <1>8, ConstantFacts DEF Hands, Slots, Works, Lines
  <2> QED BY <2>1 DEF Once, Single, AtMostOne
<1>11. WholeInv
  BY <1>2 DEF WholeInv, LinesWhole
<1> QED BY <1>1, <1>4, <1>5, <1>7, <1>9, <1>10, <1>11 DEF IInv

LEMMA InvStep == IInv /\ [Next]_vars => IInv'
<1> SUFFICES ASSUME IInv, [Next]_vars PROVE IInv'
  OBVIOUS
<1>1. TypeInv' /\ ProducerInv' /\ ResolverInv' /\ MutexInv' /\ FileInv'
  BY TypeStep, ProducerStep, ResolverStep, MutexStep, FileStep DEF IInv
<1>2. PlacesConserved'
  BY CountStep DEF IInv
<1>3. QueueInv' /\ AdvanceInv' /\ EndInv'
  BY QueueStep, AdvanceStep, EndStep DEF IInv
<1>4. OnceInv' /\ WholeInv'
  BY <1>1, OnceStep, WholeStep DEF IInv
<1> QED BY <1>1, <1>2, <1>3, <1>4 DEF IInv

\* The inductive invariant of the program.
THEOREM Invariance == Spec => []IInv
<1>1. Init => IInv
  BY InvInit
<1>2. IInv /\ [Next]_vars => IInv'
  BY InvStep
<1> QED BY <1>1, <1>2, PTL DEF Spec

\* Threads, payloads and semaphores stay in their ranges: no semaphore exceeds
\* the size of the queue, no index leaves the array.
THEOREM TypeCorrect == Spec => []TypeOK
<1>1. IInv => TypeOK
  <2> SUFFICES ASSUME IInv PROVE TypeOK
    OBVIOUS
  <2>1. empty + full + In(ppc, Producers, ProducerHolds) + In(rpc, Resolvers, ResolverHolds) = QUEUE_SIZE
    BY PlacesCount DEF IInv
  <2>2. In(ppc, Producers, ProducerHolds) \in Nat /\ In(rpc, Resolvers, ResolverHolds) \in Nat
        /\ empty \in Nat /\ full \in Nat
    BY CountTypes DEF IInv, TypeInv
  <2>3. empty \in 0 .. QUEUE_SIZE /\ full \in 0 .. QUEUE_SIZE
    BY <2>1, <2>2, ConstantFacts
  <2>4. pills \in 0 .. resolver_count
    BY ResolverFacts DEF IInv, TypeInv, ProducerInv
  <2>5. /\ queue.array \in [0 .. QUEUE_SIZE - 1 -> Host \cup {NULL}]
        /\ queue.front \in 0 .. QUEUE_SIZE - 1 /\ queue.rear \in 0 .. QUEUE_SIZE - 1
        /\ queue.maxSize = QUEUE_SIZE
    BY DEF IInv, TypeInv, Buffer, Index
  <2> QED BY <2>3, <2>4, <2>5 DEF IInv, TypeInv, TypeOK, ProducerState, ResolverState, Part
<1> QED BY <1>1, Invariance, PTL

\* No push finds the queue full, so none is lost although its result is ignored.
THEOREM PushCorrect == Spec => []PushNeverFails
<1>1. IInv => PushNeverFails
  <2> SUFFICES ASSUME IInv, NEW p \in Producers, ppc[p] = "push"
               PROVE  ~queue_is_full(queue)
    BY DEF PushNeverFails
  <2>1. Filled \in 0 .. QUEUE_SIZE - 1 /\ queue \in Buffer
    BY PlaceToPush DEF IInv, TypeInv
  <2>2. CASE AllNull(queue)
    BY <2>1, <2>2, AllNullQueue
  <2>3. ASSUME NEW k \in 0 .. QUEUE_SIZE, Layout(queue, k, Filled)
        PROVE  ~queue_is_full(queue)
    BY <2>1, <2>3, PushLayout
  <2> QED BY <2>2, <2>3 DEF IInv, QueueInv
<1> QED BY <1>1, Invariance, PTL

\* Every place of the queue is free, filled, or held by one thread.
THEOREM PlacesCorrect == Spec => []PlacesConserved
<1>1. IInv => PlacesConserved
  BY DEF IInv
<1> QED BY <1>1, Invariance, PTL

\* A resolver that takes a NULL leaves no host behind.
THEOREM NullCorrect == Spec => []NullMeansEnd
<1>1. IInv => NullMeansEnd
  <2>1. IInv => DOMAIN queue.array = Index
    BY DEF IInv, TypeInv, Buffer
  <2> QED BY <2>1 DEF IInv, EndInv, Leaving, NullMeansEnd, Ended, AllNull
<1> QED BY <1>1, Invariance, PTL

\* The output is made of whole lines, whichever resolvers write.
THEOREM WholeCorrect == Spec => []LinesWhole
<1>1. IInv => LinesWhole
  BY DEF IInv, WholeInv
<1> QED BY <1>1, Invariance, PTL

LEMMA SizeOfOne ==
  ASSUME NEW S, AtMostOne(S)
  PROVE  Cardinality(S) = IF S = {} THEN 0 ELSE 1
<1>1. CASE S = {}
  BY <1>1, FS_EmptySet
<1>2. ASSUME NEW x \in S PROVE Cardinality(S) = 1
  <2>1. S = {x}
    BY DEF AtMostOne
  <2> QED BY <2>1, FS_Singleton
<1> QED BY <1>1, <1>2

\* No line is lost, doubled or resolved twice.
THEOREM LinesCorrect == Spec => []LinesConserved
<1>1. IInv => LinesConserved
  <2> SUFFICES ASSUME IInv, NEW h \in Host
               PROVE  Places(h) <= 1 /\ (Places(h) = 1 => left[h[1]] < h[2])
    BY DEF LinesConserved
  <2>1. Once(h)
    BY DEF IInv, OnceInv
  <2>2. /\ Cardinality(Hands(h)) = IF Hands(h) = {} THEN 0 ELSE 1
        /\ Cardinality(Slots(h)) = IF Slots(h) = {} THEN 0 ELSE 1
        /\ Cardinality(Works(h)) = IF Works(h) = {} THEN 0 ELSE 1
        /\ Cardinality(Lines(h)) = IF Lines(h) = {} THEN 0 ELSE 1
    BY <2>1, SizeOfOne DEF Once, Single
  <2>3. Places(h) = Cardinality(Hands(h)) + Cardinality(Slots(h)) + Cardinality(Works(h)) + Cardinality(Lines(h))
    BY DEF Places, Hands, Slots, Works, Lines
  <2>4. CASE Hands(h) = {} /\ Slots(h) = {} /\ Works(h) = {} /\ Lines(h) = {}
    BY <2>2, <2>3, <2>4
  <2>5. CASE ~(Hands(h) = {} /\ Slots(h) = {} /\ Works(h) = {} /\ Lines(h) = {})
    <3>1. left[h[1]] < h[2]
      BY <2>1, <2>5 DEF Once
    <3>2. Places(h) = 1
      BY <2>1, <2>2, <2>3, <2>5 DEF Once, Single
    <3> QED BY <3>1, <3>2
  <2> QED BY <2>4, <2>5
<1> QED BY <1>1, Invariance, PTL
-----------------------------------------------------------------------------
(* The program implements the lookup service                               *)

\* The variables of the service.
Unopened == {f \in Files : ppc[f] = "open"}
Untaken == [f \in Files |-> left[f] + IF pbuf[f] = NULL THEN 0 ELSE 1]
Busy    == {rbuf[r] : r \in {s \in Resolvers : rbuf[s] # NULL /\ rpc[s] \notin {"advance", "file_unlock"}}}
Printed == {out[i].host : i \in {j \in DOMAIN out : out[j].part = "addresses"}}

LEMMA ContentsElements ==
  ASSUME NEW q \in Buffer, NEW k, NEW n, Layout(q, k, n)
  PROVE  /\ Contents(q) \in Seq(Host) /\ Len(Contents(q)) = k /\ k \in Nat
         /\ \A j \in 1 .. k : Contents(q)[j] = q.array[Slot(q, j - 1)]
<1>1. Contents(q) = [j \in 1 .. k |-> q.array[Slot(q, j - 1)]] /\ k \in 0 .. QUEUE_SIZE
  <2>1. k \in 0 .. QUEUE_SIZE
    BY ConstantFacts DEF Layout
  <2> QED BY <2>1, ContentsLayout
<1>2. ASSUME NEW j \in 1 .. k PROVE q.array[Slot(q, j - 1)] \in Host
  <2>1. j - 1 \in Index /\ j - 1 \in 0 .. QUEUE_SIZE /\ j - 1 < k
    BY <1>1, ConstantFacts DEF Index
  <2>2. q.array[Slot(q, j - 1)] # NULL
    BY <2>1 DEF Layout
  <2>3. Slot(q, j - 1) \in Index
    BY <2>1, SlotValue
  <2> QED BY <2>2, <2>3 DEF Buffer
<1>3. k \in Nat /\ Contents(q) \in [1 .. k -> Host]
  BY <1>1, <1>2, ConstantFacts
<1>4. Contents(q) \in Seq(Host)
  BY <1>3, SeqDef
<1>5. Len(Contents(q)) = k
  BY <1>3, <1>4
<1> QED BY <1>1, <1>3, <1>4, <1>5

LEMMA ContentsPush ==
  ASSUME NEW q \in Buffer, NEW k, NEW n \in 0 .. QUEUE_SIZE - 1, Layout(q, k, n),
         NEW payload \in Host \cup {NULL}, payload # NULL => k = n
  PROVE  /\ payload = NULL => Contents(queue_push(q, payload)) = Contents(q)
         /\ payload # NULL => /\ Contents(queue_push(q, payload)) = Append(Contents(q), payload)
                              /\ Len(Contents(q)) < QUEUE_SIZE
<1> DEFINE q2 == queue_push(q, payload)
           k2 == IF payload = NULL THEN k ELSE k + 1
           c == Contents(q)
           c2 == Contents(q2)
<1>1. /\ q2 \in Buffer /\ Layout(q2, k2, n + 1) /\ q2.front = q.front
      /\ q2.array = [q.array EXCEPT ![q.rear] = payload] /\ q.array[q.rear] = NULL
  BY PushLayout
<1>2. c \in Seq(Host) /\ Len(c) = k /\ k \in Nat /\ \A j \in 1 .. k : c[j] = q.array[Slot(q, j - 1)]
  BY ContentsElements
<1>3. c2 \in Seq(Host) /\ Len(c2) = k2 /\ \A j \in 1 .. k2 : c2[j] = q2.array[Slot(q2, j - 1)]
  BY <1>1, ContentsElements
<1>4. \A j \in Int : Slot(q2, j) = Slot(q, j)
  BY <1>1 DEF Slot, Buffer
<1>5. k <= n /\ n \in Index /\ q.rear = Slot(q, n) /\ q.array \in [Index -> Host \cup {NULL}]
  BY ConstantFacts DEF Layout, Index, Buffer
<1>6. ASSUME NEW j \in 1 .. k PROVE c2[j] = c[j]
  <2>1. j - 1 \in Index /\ j - 1 # n /\ j - 1 \in 0 .. QUEUE_SIZE /\ j - 1 \in Int /\ j \in 1 .. k2
    BY <1>2, <1>5, ConstantFacts DEF Index
  <2>2. Slot(q, j - 1) # q.rear
    BY <2>1, <1>5, SlotOnce
  <2>3. Slot(q, j - 1) \in Index
    BY <2>1, SlotValue
  <2>4. q2.array[Slot(q, j - 1)] = q.array[Slot(q, j - 1)]
    BY <2>2, <2>3, <1>1, <1>5
  <2>5. c2[j] = q2.array[Slot(q, j - 1)]
    BY <2>1, <1>3, <1>4
  <2> QED BY <2>4, <2>5, <1>2
<1> HIDE DEF q2, c, c2
<1>7. CASE payload = NULL
  <2>1. c2 = c
    BY <1>2, <1>3, <1>6, <1>7, SeqEqual
  <2> QED BY <2>1, <1>7 DEF c, c2, q2
<1>8. CASE payload # NULL
  <2>1. k2 = k + 1 /\ k = n /\ payload \in Host
    BY <1>8
  <2>2. c2[k + 1] = q2.array[Slot(q, k)]
    <3>1. k + 1 \in 1 .. k2 /\ (k + 1) - 1 = k /\ k \in Int
      BY <2>1, <1>2
    <3> QED BY <3>1, <1>3, <1>4
  <2>3. c2[k + 1] = payload
    BY <2>1, <2>2, <1>1, <1>5, LayoutFront, SlotValue DEF Buffer
  <2>4. Append(c, payload) \in Seq(Host) /\ Len(Append(c, payload)) = k + 1
        /\ \A j \in 1 .. k + 1 : Append(c, payload)[j] = IF j = k + 1 THEN payload ELSE c[j]
    BY <2>1, <1>2
  <2>5. \A j \in 1 .. k + 1 : c2[j] = Append(c, payload)[j]
    BY <2>3, <2>4, <1>2, <1>6
  <2>6. c2 = Append(c, payload)
    BY <2>1, <2>4, <2>5, <1>3, SeqEqual
  <2>7. Len(c) < QUEUE_SIZE
    BY <2>1, <1>2, ConstantFacts
  <2> QED BY <2>6, <2>7, <1>8 DEF c, c2, q2
<1> QED BY <1>7, <1>8

LEMMA ContentsPop ==
  ASSUME NEW q \in Buffer, NEW k, NEW n, Layout(q, k, n), k > 0
  PROVE  /\ Contents(q) # <<>> /\ Head(Contents(q)) = Popped(q)
         /\ Contents(queue_pop(q)) = Tail(Contents(q))
<1> DEFINE q2 == queue_pop(q)
           c == Contents(q)
           c2 == Contents(q2)
<1>1. /\ q2 \in Buffer /\ Layout(q2, k - 1, n - 1) /\ Popped(q) = q.array[q.front]
      /\ q2.array = [q.array EXCEPT ![q.front] = NULL]
      /\ \A j \in 0 .. QUEUE_SIZE - 1 : Slot(q2, j) = Slot(q, j + 1)
  BY PopLayout
<1>2. c \in Seq(Host) /\ Len(c) = k /\ k \in Nat /\ \A j \in 1 .. k : c[j] = q.array[Slot(q, j - 1)]
  BY ContentsElements
<1>3. c2 \in Seq(Host) /\ Len(c2) = k - 1 /\ \A j \in 1 .. k - 1 : c2[j] = q2.array[Slot(q2, j - 1)]
  BY <1>1, ContentsElements
<1>4. k <= QUEUE_SIZE /\ q.array \in [Index -> Host \cup {NULL}]
  BY ConstantFacts DEF Layout, Buffer
<1> HIDE DEF c
<1>5. c # <<>> /\ Head(c) = c[1]
  BY <1>2
<1>6. Head(c) = Popped(q)
  <2>1. 1 \in 1 .. k /\ c[1] = q.array[Slot(q, 1 - 1)]
    BY <1>2
  <2> QED BY <2>1, <1>1, <1>5, LayoutFront
<1>7. Tail(c) \in Seq(Host) /\ Len(Tail(c)) = k - 1 /\ \A i \in 1 .. k - 1 : Tail(c)[i] = c[i + 1]
  BY <1>2, <1>5, HeadTailProperties
<1>8. ASSUME NEW i \in 1 .. k - 1 PROVE c2[i] = Tail(c)[i]
  <2>1. /\ i \in Index /\ i # 0 /\ i \in 0 .. QUEUE_SIZE /\ i + 1 \in 1 .. k /\ (i + 1) - 1 = i
        /\ i - 1 \in 0 .. QUEUE_SIZE - 1 /\ (i - 1) + 1 = i
    BY <1>2, <1>4, ConstantFacts DEF Index
  <2>2. Slot(q, i) # q.front /\ Slot(q, i) \in Index
    BY <2>1, SlotOnce, SlotValue, LayoutFront, ConstantFacts
  <2>3. q2.array[Slot(q, i)] = q.array[Slot(q, i)]
    BY <2>2, <1>1, <1>4
  <2>4. Slot(q2, i - 1) = Slot(q, i)
    BY <2>1, <1>1
  <2>5. c2[i] = q.array[Slot(q, i)]
    BY <2>3, <2>4, <1>3
  <2>6. c[i + 1] = q.array[Slot(q, i)]
    BY <2>1, <1>2
  <2> QED BY <2>5, <2>6, <1>7
<1> HIDE DEF c2
<1>9. c2 = Tail(c)
  BY <1>3, <1>7, <1>8, SeqEqual
<1> QED BY <1>5, <1>6, <1>9 DEF c, c2, q2

\* Busy and Printed by the places of the lines.
LEMMA BusyPrinted ==
  ASSUME TypeInv
  PROVE  /\ Busy \subseteq Host /\ Printed \subseteq Host
         /\ \A h \in Host : /\ h \in Busy <=> Works(h) # {}
                            /\ h \in Printed <=> Lines(h) # {}
<1>1. rbuf \in [Resolvers -> Host \cup {NULL}] /\ NULL \notin Host
  BY ConstantFacts DEF TypeInv
<1>2. \A i \in DOMAIN out : out[i] \in Part
  BY PartSequence
<1>3. Busy \subseteq Host /\ \A h \in Host : h \in Busy <=> Works(h) # {}
  BY <1>1 DEF Busy, Works
<1>4. \A x \in Part, h \in Host : x = [host |-> h, part |-> "addresses"] <=> x.part = "addresses" /\ x.host = h
  BY DEF Part
<1>5. Printed \subseteq Host
  BY <1>2 DEF Printed, Part
<1>6. \A h \in Host : h \in Printed <=> Lines(h) # {}
  BY <1>2, <1>4 DEF Printed, Lines
<1> QED BY <1>3, <1>5, <1>6

LEMMA SideValues ==
  ASSUME [Next]_vars
  PROVE  /\ UNCHANGED <<left, pbuf>> => Untaken' = Untaken
         /\ UNCHANGED resolver => Busy' = Busy /\ Printed' = Printed
         /\ UNCHANGED out => Printed' = Printed
         /\ UNCHANGED queue => Contents(queue') = Contents(queue)
<1>1. Resolvers' = Resolvers
  BY Frame
<1> QED BY <1>1 DEF Untaken, Busy, Printed, resolver

\* A requester that takes in a line: Accept.
LEMMA PushAccepts ==
  ASSUME IInv, NEW f \in Files, Push(f)
  PROVE  /\ Untaken[f] > 0 /\ Len(Contents(queue)) < QUEUE_SIZE
         /\ Contents(queue') = Append(Contents(queue), <<f, Untaken[f]>>)
         /\ Untaken' = [Untaken EXCEPT ![f] = @ - 1]
<1>1. /\ TypeInv /\ ProducerInv /\ PlacesConserved /\ QueueInv /\ queue \in Buffer
      /\ left \in [Files -> 0 .. MaxLines] /\ pbuf \in [Producers -> Host \cup {NULL}]
      /\ f \in Producers /\ Files \subseteq Producers /\ NULL \notin Host
  BY ConstantFacts DEF IInv, TypeInv, Producers
<1>2. /\ ppc[f] = "push" /\ queue' = queue_push(queue, pbuf[f]) /\ pbuf' = [pbuf EXCEPT ![f] = NULL] /\ left' = left
  BY DEF Push
<1>3. pbuf[f] # NULL /\ pbuf[f] = <<f, left[f] + 1>> /\ pbuf[f] \in Host \cup {NULL}
  BY <1>1, <1>2 DEF ProducerInv
<1>4. left[f] \in Nat /\ Untaken[f] = left[f] + 1
  BY <1>1, <1>3, ConstantFacts DEF Untaken
<1>5. Filled \in 0 .. QUEUE_SIZE - 1
  BY <1>1, <1>2, PlaceToPush
<1>6. PICK k \in 0 .. QUEUE_SIZE : Layout(queue, k, Filled) /\ ~(k < Filled)
  BY <1>1, <1>2 DEF QueueInv, Ended
<1>7. k = Filled
  BY <1>5, <1>6, ConstantFacts DEF Layout
<1>8. /\ Contents(queue') = Append(Contents(queue), <<f, Untaken[f]>>)
      /\ Len(Contents(queue)) < QUEUE_SIZE
  BY <1>1, <1>2, <1>3, <1>4, <1>5, <1>6, <1>7, ContentsPush
<1>9. Untaken' = [Untaken EXCEPT ![f] = @ - 1]
  <2>1. ASSUME NEW g \in Files PROVE Untaken'[g] = IF g = f THEN Untaken[f] - 1 ELSE Untaken[g]
    BY <1>1, <1>2, <1>3, <1>4 DEF Untaken
  <2> QED BY <2>1 DEF Untaken
<1> QED BY <1>4, <1>8, <1>9

\* An end value does not show.
LEMMA EndValueHidden ==
  ASSUME IInv, Push(Main)
  PROVE  Contents(queue') = Contents(queue)
<1>1. /\ TypeInv /\ ProducerInv /\ PlacesConserved /\ QueueInv /\ queue \in Buffer /\ Main \in Producers
  BY ConstantFacts DEF IInv, TypeInv
<1>2. queue' = queue_push(queue, NULL)
  BY <1>1 DEF Push, ProducerInv
<1>3. Filled \in 0 .. QUEUE_SIZE - 1
  BY <1>1, PlaceToPush DEF Push
<1>4. CASE AllNull(queue)
  BY <1>1, <1>2, <1>4, AllNullQueue, ContentsNull
<1>5. ASSUME NEW k \in 0 .. QUEUE_SIZE, Layout(queue, k, Filled)
      PROVE  Contents(queue') = Contents(queue)
  BY <1>1, <1>2, <1>3, <1>5, ContentsPush
<1> QED BY <1>1, <1>4, <1>5 DEF QueueInv

\* A resolver that takes a line: Start.
LEMMA AdvanceStarts ==
  ASSUME IInv, NEW r \in Resolvers, Advance(r), Resolvers' = Resolvers
  PROVE  \/ /\ Contents(queue) # <<>>
            /\ Busy' = Busy \cup {Head(Contents(queue))}
            /\ Contents(queue') = Tail(Contents(queue))
         \/ Busy' = Busy /\ Contents(queue') = Contents(queue)
<1>1. /\ TypeInv /\ QueueInv /\ queue \in Buffer /\ NULL \notin Host
      /\ rpc \in [Resolvers -> ResolverState] /\ rbuf \in [Resolvers -> Host \cup {NULL}]
  BY ConstantFacts DEF IInv, TypeInv
<1>2. /\ queue' = queue_pop(queue) /\ rbuf[r] = Popped(queue) /\ rbuf' = rbuf
      /\ rpc[r] = "advance" /\ rpc' = [rpc EXCEPT ![r] = "unlock"]
  BY DEF Advance, IInv, AdvanceInv
<1>3. Busy' = IF rbuf[r] = NULL THEN Busy ELSE Busy \cup {rbuf[r]}
  BY <1>1, <1>2 DEF Busy
<1>4. CASE AllNull(queue)
  BY <1>1, <1>2, <1>3, <1>4, AllNullQueue, ContentsNull
<1>5. ASSUME NEW k \in 0 .. QUEUE_SIZE, Layout(queue, k, Filled), ~AllNull(queue)
      PROVE  /\ Contents(queue) # <<>>
             /\ Busy' = Busy \cup {Head(Contents(queue))}
             /\ Contents(queue') = Tail(Contents(queue))
  <2>1. k > 0
    BY <1>1, <1>5, LayoutNull, ConstantFacts
  <2>2. Popped(queue) # NULL
    BY <2>1, <1>1, <1>5, PopLayout
  <2> QED BY <2>1, <2>2, <1>1, <1>2, <1>3, <1>5, ContentsPop
<1> QED BY <1>1, <1>4, <1>5 DEF QueueInv

\* A resolver that has printed a line: Finish.
LEMMA WriteFinishes ==
  ASSUME IInv, NEW r \in Resolvers, WriteAddresses(r), Resolvers' = Resolvers
  PROVE  /\ rbuf[r] \in Busy /\ rbuf[r] \notin Printed
         /\ Busy' = Busy \ {rbuf[r]} /\ Printed' = Printed \cup {rbuf[r]}
<1>1. /\ TypeInv /\ NULL \notin Host
      /\ rpc \in [Resolvers -> ResolverState] /\ rbuf \in [Resolvers -> Host \cup {NULL}]
  BY ConstantFacts DEF IInv, TypeInv
<1>2. /\ rbuf' = rbuf /\ out' = Append(out, [host |-> rbuf[r], part |-> "addresses"])
      /\ rpc[r] = "addresses" /\ rpc' = [rpc EXCEPT ![r] = "file_unlock"]
  BY DEF WriteAddresses
<1>3. rbuf[r] \in Host /\ r \in Works(rbuf[r])
  BY <1>1, <1>2 DEF IInv, ResolverInv, Works
<1>4. Lines(rbuf[r]) = {} /\ \A r2 \in Works(rbuf[r]) : r2 = r
  BY <1>3 DEF IInv, OnceInv, Once, Single, AtMostOne
<1>5. rbuf[r] \in Busy /\ rbuf[r] \notin Printed
  BY <1>1, <1>3, <1>4, BusyPrinted
<1>6. Busy' = Busy \ {rbuf[r]}
  <2>1. \A s \in Resolvers : rbuf[s] = rbuf[r] /\ rpc[s] \notin {"advance", "file_unlock"} => s = r
    BY <1>4 DEF Works
  <2> QED BY <2>1, <1>1, <1>2 DEF Busy
<1>7. Printed' = Printed \cup {rbuf[r]}
  <2> DEFINE x == [host |-> rbuf[r], part |-> "addresses"]
  <2>1. x.host = rbuf[r] /\ x.part = "addresses" /\ out' = Append(out, x)
    BY <1>2
  <2> HIDE DEF x
  <2>2. /\ DOMAIN out = 1 .. Len(out) /\ DOMAIN out' = 1 .. Len(out) + 1 /\ Len(out) \in Nat
        /\ \A i \in 1 .. Len(out) : out'[i] = out[i]
        /\ out'[Len(out) + 1] = x
    BY <2>1, <1>1, PartSequence
  <2> QED BY <2>1, <2>2 DEF Printed
<1> QED BY <1>5, <1>6, <1>7

\* The other steps of a resolver do not show.
LEMMA ResolverHidden ==
  ASSUME IInv, NEW r \in Resolvers, Resolver(r), ~Advance(r), ~WriteAddresses(r), Resolvers' = Resolvers
  PROVE  Busy' = Busy /\ Printed' = Printed /\ queue' = queue
<1>1. /\ NULL \notin Host /\ rpc \in [Resolvers -> ResolverState] /\ rbuf \in [Resolvers -> Host \cup {NULL}]
      /\ rpc[r] = "pop" => rbuf[r] = NULL
  BY ConstantFacts DEF IInv, TypeInv, ResolverInv
<1>2. queue' = queue
  BY DEF Resolver, WaitFull, ResolverLock, Pop, ResolverUnlock, PostEmpty, FileLock, WriteName, FileUnlock, shared
<1>3. Busy' = Busy
  <2>1. CASE Pop(r)
    BY <2>1, <1>1 DEF Pop, Busy
  <2>2. CASE FileUnlock(r)
    BY <2>2, <1>1 DEF FileUnlock, Busy
  <2>3. CASE ~Pop(r) /\ ~FileUnlock(r)
    <3>1. rbuf' = rbuf
      BY <2>3 DEF Resolver, WaitFull, ResolverLock, ResolverUnlock, PostEmpty, FileLock, WriteName
    <3>2. \A s \in Resolvers : rpc'[s] \in {"advance", "file_unlock"} <=> rpc[s] \in {"advance", "file_unlock"}
      BY <2>3, <1>1 DEF Resolver, WaitFull, ResolverLock, ResolverUnlock, PostEmpty, FileLock, WriteName
    <3> QED BY <3>1, <3>2 DEF Busy
  <2> QED BY <2>1, <2>2, <2>3
<1>4. Printed' = Printed
  <2>1. CASE WriteName(r)
    <3> DEFINE x == [host |-> rbuf[r], part |-> "name"]
    <3>1. x.part = "name" /\ out' = Append(out, x)
      BY <2>1 DEF WriteName
    <3> HIDE DEF x
    <3>2. /\ DOMAIN out = 1 .. Len(out) /\ DOMAIN out' = 1 .. Len(out) + 1 /\ Len(out) \in Nat
          /\ \A i \in 1 .. Len(out) : out'[i] = out[i]
          /\ out'[Len(out) + 1] = x
      BY <3>1, PartSequence DEF IInv
    <3> QED BY <3>1, <3>2 DEF Printed
  <2>2. CASE ~WriteName(r)
    BY <2>2 DEF Printed, Resolver, WaitFull, ResolverLock, Pop, ResolverUnlock, PostEmpty, FileLock, FileUnlock
  <2> QED BY <2>1, <2>2
<1> QED BY <1>2, <1>3, <1>4

\* A requester opens its file, or gives it up before it has read a line.
LEMMA RequesterHidden ==
  ASSUME IInv, NEW f \in Files, Requester(f)
  PROVE  /\ UNCHANGED resolver /\ queue' = queue
         /\ \/ Unopened' = Unopened /\ Untaken' = Untaken
            \/ /\ f \in Unopened /\ Unopened' = Unopened \ {f}
               /\ Untaken' = Untaken \/ Untaken' = [Untaken EXCEPT ![f] = 0]
<1>1. /\ ppc \in [Producers -> ProducerState]
      /\ left \in [Files -> 0 .. MaxLines] /\ pbuf \in [Producers -> Host \cup {NULL}]
      /\ Files \subseteq Producers /\ NULL \notin Host
      /\ ppc[f] \in {"open", "read"} => pbuf[f] = NULL
  BY ConstantFacts DEF IInv, TypeInv, ProducerInv, Producers
<1>2. UNCHANGED resolver /\ queue' = queue
  BY DEF Requester, OpenFile, OpenFails, ReadLine, resolver, shared
<1>3. CASE OpenFile(f)
  BY <1>1, <1>2, <1>3 DEF OpenFile, Untaken, Unopened
<1>4. CASE OpenFails(f)
  <2>1. pbuf[f] = NULL /\ left[f] \in Nat /\ Untaken[f] = left[f] /\ pbuf' = pbuf /\ left' = [left EXCEPT ![f] = 0]
    BY <1>1, <1>4, ConstantFacts DEF OpenFails, Untaken
  <2>2. ASSUME NEW g \in Files PROVE Untaken'[g] = IF g = f THEN 0 ELSE Untaken[g]
    BY <2>1, <1>1 DEF Untaken
  <2>3. Untaken' = [Untaken EXCEPT ![f] = 0]
    BY <2>2 DEF Untaken
  <2>4. f \in Unopened /\ Unopened' = Unopened \ {f}
    BY <1>1, <1>4 DEF OpenFails, Unopened
  <2> QED BY <2>3, <2>4, <1>2
<1>5. CASE ReadLine(f)
  <2>0. Unopened' = Unopened
    BY <1>1, <1>5 DEF ReadLine, Unopened
  <2>1. CASE left[f] = 0
    BY <1>2, <1>5, <2>0, <2>1 DEF ReadLine, Untaken
  <2>2. CASE left[f] # 0
    <3>1. /\ pbuf[f] = NULL /\ pbuf' = [pbuf EXCEPT ![f] = <<f, left[f]>>]
          /\ left' = [left EXCEPT ![f] = @ - 1] /\ left[f] \in 1 .. MaxLines
      BY <1>1, <1>5, <2>2, ConstantFacts DEF ReadLine
    <3>2. <<f, left[f]>> # NULL
      BY <3>1, <1>1 DEF Host
    <3>3. \A g \in Files : Untaken'[g] = Untaken[g]
      BY <3>1, <3>2, <1>1, ConstantFacts DEF Untaken
    <3>4. Untaken' = Untaken
      BY <3>3 DEF Untaken
    <3> QED BY <3>4, <2>0, <1>2
  <2> QED BY <2>1, <2>2
<1> QED BY <1>3, <1>4, <1>5 DEF Requester

\* Nobody else opens a file.
LEMMA UnopenedSame ==
  ASSUME TypeInv,
         \/ MainThread
         \/ \E p \in Producers : Producer(p)
         \/ \E r \in Resolvers : Resolver(r)
         \/ UNCHANGED vars
  PROVE  Unopened' = Unopened
<1> SUFFICES \A f \in Files : ppc'[f] = "open" <=> ppc[f] = "open"
  BY DEF Unopened
<1>1. ppc \in [Producers -> ProducerState] /\ Main \notin Files /\ Files \subseteq Producers
  BY ConstantFacts DEF TypeInv, Producers
<1>2. CASE MainThread
  BY <1>1, <1>2 DEF MainThread, JoinRequesters, NextPill, JoinResolvers
<1>3. ASSUME NEW p \in Producers, Producer(p), NEW f \in Files
      PROVE  ppc'[f] = "open" <=> ppc[f] = "open"
  BY <1>1, <1>3 DEF Producer, WaitEmpty, ProducerLock, Push, ProducerUnlock, PostFull
<1>4. ASSUME NEW r \in Resolvers, Resolver(r)
      PROVE  ppc' = ppc
  BY <1>4 DEF Resolver, WaitFull, ResolverLock, Pop, Advance, ResolverUnlock, PostEmpty,
              FileLock, WriteName, WriteAddresses, FileUnlock, producer
<1>5. CASE UNCHANGED vars
  BY <1>5 DEF vars, producer
<1> QED BY <1>2, <1>3, <1>4, <1>5

LEMMA ServiceStep ==
  ASSUME IInv, [Next]_vars
  PROVE  [Service!Next]_(Service!vars)
<1> DEFINE Same == Unopened' = Unopened /\ Untaken' = Untaken /\ Contents(queue') = Contents(queue) /\ Busy' = Busy /\ Printed' = Printed
<1>1. ASSUME Same PROVE UNCHANGED Service!vars
  BY <1>1 DEF Service!vars, Unopened, Untaken, Busy, Printed
<1>2. ASSUME NEW f \in Files, f \in Unopened, Unopened' = Unopened \ {f},
             Untaken' = Untaken \/ Untaken' = [Untaken EXCEPT ![f] = 0],
             Contents(queue') = Contents(queue), Busy' = Busy, Printed' = Printed
      PROVE  Service!Next
  BY <1>2 DEF Service!Next, Service!Open, Service!Skip, Unopened, Untaken, Busy, Printed
<1>3. ASSUME NEW f \in Files, f \notin Unopened, Unopened' = Unopened, Untaken[f] > 0, Len(Contents(queue)) < QUEUE_SIZE,
             Contents(queue') = Append(Contents(queue), <<f, Untaken[f]>>),
             Untaken' = [Untaken EXCEPT ![f] = @ - 1], Busy' = Busy, Printed' = Printed
      PROVE  Service!Next
  BY <1>3 DEF Service!Next, Service!Accept, Unopened, Untaken, Busy, Printed
<1>4. ASSUME Contents(queue) # <<>>, Busy' = Busy \cup {Head(Contents(queue))},
             Contents(queue') = Tail(Contents(queue)), Untaken' = Untaken, Printed' = Printed,
             Unopened' = Unopened
      PROVE  Service!Next
  BY <1>4 DEF Service!Next, Service!Start, Unopened, Untaken, Busy, Printed
<1>5. ASSUME NEW line \in Busy, line \notin Printed, Busy' = Busy \ {line}, Printed' = Printed \cup {line},
             Untaken' = Untaken, Contents(queue') = Contents(queue), Unopened' = Unopened
      PROVE  Service!Next
  BY <1>5 DEF Service!Next, Service!Finish, Unopened, Untaken, Busy, Printed
<1> HIDE DEF Same
<1>6. CASE UNCHANGED vars
  <2>1. UNCHANGED <<left, pbuf>> /\ UNCHANGED resolver /\ UNCHANGED queue
    BY <1>6 DEF vars, producer, resolver, shared
  <2> QED BY <2>1, <1>1, <1>6, SideValues, UnopenedSame DEF Same, IInv
<1>7. ASSUME NEW f \in Files, Requester(f) PROVE [Service!Next]_(Service!vars)
  <2>1. /\ Contents(queue') = Contents(queue) /\ Busy' = Busy /\ Printed' = Printed
        /\ \/ Unopened' = Unopened /\ Untaken' = Untaken
           \/ /\ f \in Unopened /\ Unopened' = Unopened \ {f}
              /\ Untaken' = Untaken \/ Untaken' = [Untaken EXCEPT ![f] = 0]
    BY <1>7, RequesterHidden, SideValues
  <2> QED BY <2>1, <1>1, <1>2 DEF Same
<1>8. CASE MainThread
  <2>1. UNCHANGED <<left, pbuf>> /\ UNCHANGED resolver /\ Unopened' = Unopened
    BY <1>8, UnopenedSame DEF MainThread, JoinRequesters, NextPill, JoinResolvers, IInv
  <2>2. CASE UNCHANGED queue
    BY <2>1, <2>2, <1>1, SideValues DEF Same
  <2>3. CASE JoinResolvers
    <3>1. \E r \in Resolvers : Leaving(r)
      BY <2>3, ResolverFacts DEF JoinResolvers, Leaving, IInv
    <3>2. queue \in Buffer /\ AllNull(queue) /\ queue' = queue_cleanup(queue)
      BY <3>1, <2>3 DEF JoinResolvers, IInv, TypeInv, EndInv
    <3>3. queue' \in Buffer /\ AllNull(queue')
      BY <3>2, QueueType
    <3>4. Contents(queue') = Contents(queue)
      BY <3>2, <3>3, ContentsNull
    <3> QED BY <3>4, <2>1, <1>1, SideValues DEF Same
  <2> QED BY <1>8, <2>2, <2>3 DEF MainThread, JoinRequesters, NextPill, shared
<1>9. ASSUME NEW p \in Producers, Producer(p) PROVE [Service!Next]_(Service!vars)
  <2>1. UNCHANGED resolver /\ UNCHANGED left /\ Unopened' = Unopened
    BY <1>9, UnopenedSame DEF Producer, WaitEmpty, ProducerLock, Push, ProducerUnlock, PostFull, IInv
  <2>2. CASE Push(p) /\ p \in Files
    <3>1. p \notin Unopened
      BY <2>2 DEF Push, Unopened
    <3> QED BY <2>1, <2>2, <3>1, <1>3, PushAccepts, SideValues
  <2>3. CASE Push(p) /\ p = Main
    <3>1. Contents(queue') = Contents(queue)
      BY <2>3, EndValueHidden
    <3>2. Untaken' = Untaken
      BY <2>1, <2>3, ConstantFacts DEF Push, Untaken, IInv, TypeInv, Producers
    <3> QED BY <3>1, <3>2, <2>1, <1>1, SideValues DEF Same
  <2>4. CASE UNCHANGED <<pbuf, queue>>
    BY <2>1, <2>4, <1>1, SideValues DEF Same
  <2> QED BY <1>9, <2>2, <2>3, <2>4
          DEF Producer, WaitEmpty, ProducerLock, ProducerUnlock, PostFull, Producers
<1>10. ASSUME NEW r \in Resolvers, Resolver(r) PROVE [Service!Next]_(Service!vars)
  <2>1. Untaken' = Untaken /\ Unopened' = Unopened /\ Resolvers' = Resolvers
    <3>1. UNCHANGED <<left, pbuf>>
      BY <1>10 DEF Resolver, WaitFull, ResolverLock, Pop, Advance, ResolverUnlock, PostEmpty,
                   FileLock, WriteName, WriteAddresses, FileUnlock, producer
    <3>2. Unopened' = Unopened
      BY <1>10, UnopenedSame DEF IInv
    <3> QED BY <3>1, <3>2, SideValues, Frame
  <2>2. CASE Advance(r)
    <3>1. Printed' = Printed
      BY <2>2, SideValues DEF Advance
    <3> QED BY <2>1, <2>2, <3>1, <1>1, <1>4, AdvanceStarts DEF Same
  <2>3. CASE WriteAddresses(r)
    <3>1. Contents(queue') = Contents(queue)
      BY <2>3, SideValues DEF WriteAddresses, shared
    <3> QED BY <2>1, <2>3, <3>1, <1>5, WriteFinishes
  <2>4. CASE ~Advance(r) /\ ~WriteAddresses(r)
    <3>1. Busy' = Busy /\ Printed' = Printed /\ queue' = queue
      BY <1>10, <2>1, <2>4, ResolverHidden
    <3> QED BY <2>1, <3>1, <1>1, SideValues DEF Same
  <2> QED BY <2>2, <2>3, <2>4
<1> QED BY <1>6, <1>7, <1>8, <1>9, <1>10 DEF Next, Terminated

LEMMA ServiceInit == Init => Service!Init
<1> SUFFICES ASSUME Init PROVE Service!Init
  OBVIOUS
<1>1. IInv
  BY InvInit
<1>2. left \in [Files -> 0 .. MaxLines] /\ \A f \in Files : f \in Producers /\ pbuf[f] = NULL
  BY DEF Init, Producers
<1>3. \A f \in Files : Untaken[f] = left[f]
  BY <1>2, ConstantFacts DEF Untaken
<1>4. Untaken \in [Files -> 0 .. MaxLines]
  BY <1>2, <1>3 DEF Untaken
<1>5. queue \in Buffer /\ AllNull(queue)
  BY <1>1 DEF IInv, TypeInv, Init, queue_init, AllNull, Buffer
<1>6. Contents(queue) = <<>>
  BY <1>5, ContentsNull
<1>7. Busy = {} /\ Printed = {}
  BY DEF Init, Busy, Printed
<1>8. Unopened = Files
  BY ConstantFacts DEF Init, Unopened, Producers
<1> QED BY <1>4, <1>6, <1>7, <1>8 DEF Service!Init, Unopened, Untaken, Busy, Printed

\* Whoever runs when, lines are taken in, resolved and printed as the service
\* promises: in the order of arrival, each at most once, and none is dropped
\* but with its whole file, before the first line, when fopen fails.
THEOREM ImplementsService == Spec => Service!Safety
<1>1. Init => Service!Init
  BY ServiceInit
<1>2. IInv /\ [Next]_vars => [Service!Next]_(Service!vars)
  BY ServiceStep
<1> QED BY <1>1, <1>2, Invariance, PTL DEF Spec, Service!Safety
=============================================================================
