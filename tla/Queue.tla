------------------------------- MODULE Queue -------------------------------
(***************************************************************************)
(* The circular buffer of lab4 (queue.c) as operators on its fields.  A    *)
(* slot that holds the NULL payload counts as free, so the buffer cannot   *)
(* tell a queued NULL from an empty slot when front and rear meet.         *)
(***************************************************************************)
EXTENDS Integers, Sequences

CONSTANTS NULL,          \* the null pointer: an end value, or no payload
          QUEUEMAXSIZE   \* size used when none is asked for

queue_init(size) ==
  LET maxSize == IF size > 0 THEN size ELSE QUEUEMAXSIZE
  IN  [array   |-> [i \in 0 .. maxSize - 1 |-> NULL],
       front   |-> 0,
       rear    |-> 0,
       maxSize |-> maxSize]

queue_is_empty(q) == q.front = q.rear /\ q.array[q.front] = NULL
queue_is_full(q)  == q.front = q.rear /\ q.array[q.front] # NULL

\* What queue_pop returns: NULL when there is nothing to take.
Popped(q) == IF queue_is_empty(q) THEN NULL ELSE q.array[q.front]

\* Mutant: the front index does not wrap.
BugPopNoWrap(q) ==
  IF queue_is_empty(q)
  THEN q
  ELSE [q EXCEPT !.array[q.front] = NULL, !.front = q.front + 1]

\* What queue_pop leaves.
queue_pop(q) ==
  IF queue_is_empty(q)
  THEN q
  ELSE [q EXCEPT !.array[q.front] = NULL, !.front = (q.front + 1) % q.maxSize]

\* Mutant: queue_push puts the payload in front of the others.
BugPushInFront(q, new_payload) ==
  IF queue_is_full(q)
  THEN q
  ELSE LET slot == (q.front - 1) % q.maxSize
       IN  [q EXCEPT !.array[slot] = new_payload, !.front = slot]

\* What queue_push leaves: on a full buffer it fails and changes nothing.
queue_push(q, new_payload) ==
  IF queue_is_full(q)
  THEN q
  ELSE [q EXCEPT !.array[q.rear] = new_payload, !.rear = (q.rear + 1) % q.maxSize]

\* queue_cleanup pops until the buffer is empty, then frees it.
queue_cleanup(q) ==
  [q EXCEPT !.array = [i \in DOMAIN q.array |-> NULL], !.front = q.rear]

\* The slot n places behind the front.
Slot(q, n) == (q.front + n) % q.maxSize

\* The payloads in the buffer, oldest first: those in front of the first NULL.
Contents(q) ==
  LET n == CHOOSE m \in 0 .. q.maxSize :
             /\ \A k \in 0 .. m - 1 : q.array[Slot(q, k)] # NULL
             /\ m < q.maxSize => q.array[Slot(q, m)] = NULL
  IN  [k \in 1 .. n |-> q.array[Slot(q, k - 1)]]
=============================================================================
