--------------------------- MODULE LookupService ---------------------------
(***************************************************************************)
(* What multi-lookup promises: once an input file is open, every one of    *)
(* its lines is taken in, resolved and printed once.  Lines wait in a      *)
(* bounded buffer and are taken in the order they came; they are printed   *)
(* in any order.                                                           *)
(***************************************************************************)
EXTENDS Integers, Sequences

CONSTANTS Files,       \* the input files
          MaxLines,    \* bound: lines of a file
          BufferSize   \* lines that may wait at the same time

VARIABLES unopened,  \* files that nobody has tried to open
          left,      \* for each file, how many of its lines are not taken in
          waiting,   \* lines taken in, in order of arrival
          busy,      \* lines being resolved
          printed    \* lines in the output

vars == <<unopened, left, waiting, busy, printed>>

\* A line is named by its file and its distance from the end of the file.
Init ==
  /\ unopened = Files
  /\ left \in [Files -> 0 .. MaxLines]
  /\ waiting = <<>> /\ busy = {} /\ printed = {}

Open(f) ==
  /\ f \in unopened
  /\ unopened' = unopened \ {f}
  /\ UNCHANGED <<left, waiting, busy, printed>>

\* A file that cannot be opened contributes nothing: the only way to lose a line.
Skip(f) ==
  /\ f \in unopened
  /\ unopened' = unopened \ {f}
  /\ left' = [left EXCEPT ![f] = 0]
  /\ UNCHANGED <<waiting, busy, printed>>

Accept(f) ==
  /\ f \notin unopened
  /\ left[f] > 0 /\ Len(waiting) < BufferSize
  /\ waiting' = Append(waiting, <<f, left[f]>>)
  /\ left' = [left EXCEPT ![f] = @ - 1]
  /\ UNCHANGED <<unopened, busy, printed>>

Start ==
  /\ waiting # <<>>
  /\ busy' = busy \cup {Head(waiting)}
  /\ waiting' = Tail(waiting)
  /\ UNCHANGED <<unopened, left, printed>>

Finish ==
  \E line \in busy :
    /\ line \notin printed
    /\ busy' = busy \ {line}
    /\ printed' = printed \cup {line}
    /\ UNCHANGED <<unopened, left, waiting>>

Next == Start \/ Finish \/ \E f \in Files : Open(f) \/ Skip(f) \/ Accept(f)

Safety == Init /\ [][Next]_vars

\* As long as there is a file to open or a line left, something happens.
Spec == Safety /\ WF_vars(Next)
=============================================================================
