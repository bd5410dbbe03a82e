------------------------------ MODULE IpcProof ------------------------------
(***************************************************************************)
(* The benchmark implements PingPong, for any number of trips and of keys. *)
(***************************************************************************)
EXTENDS Ipc, TLAPS

Asked    == trips["parent"] + (IF Waiting THEN 1 ELSE 0)
Answered == trips["child"] - (IF pc["child"] = "done" THEN 1 ELSE 0)

\* Where the two processes are; what each mode uses.
PlacesInv ==
  /\ pc["child"] \in {"none", "run", "done"}
  /\ pc["parent"] \in {"start", "fork", "test", "ask", "wait", "join", "done", "failed"}
  /\ pc["child"] = "none" <=> pc["parent"] \in {"start", "fork", "failed"}
  /\ pc["parent"] = "done" => pc["child"] = "done"
  /\ pc["parent"] \in {"ask", "wait"} => trips["parent"] < numtests
  /\ pc["parent"] \in {"join", "done"} => trips["parent"] = numtests
  /\ pc["child"] = "none" => trips["parent"] = 0 /\ trips["child"] = 0 /\ fd1 = <<>> /\ fd2 = <<>>
  /\ pc["child"] # "run" => pending["child"] = {} /\ ~answering
  /\ mode = "pipe" => /\ pc["parent"] # "ask"
                      /\ \A p \in Proc : pending[p] \subseteq {"SIGINT"}
  /\ mode = "signal" => fd1 = <<>> /\ fd2 = <<>>

\* The child answers what it was asked and no more, even after a ctrl-c.
LegsInv ==
  /\ Answered <= Asked
  /\ Request => Answered < Asked
  /\ ~Disturbed => Answered = trips["parent"] + (IF Waiting /\ ~Request THEN 1 ELSE 0)

\* The child is told to leave at the end and not before.
QuitInv == ~Disturbed =>
  /\ pc["child"] = "done" \/ fd1 = <<"q">> => pc["parent"] \in {"join", "done"}
  /\ mode = "signal" =>
       /\ "SIGINT" \notin pending["parent"]
       /\ pc["parent"] = "fork" => state["parent"] = 1
       /\ pc["child"] = "run" /\ ("SIGINT" \in pending["child"] \/ state["child"] = 0) =>
            pc["parent"] \in {"join", "done"}

IInv == TypeOK /\ Handshake /\ PlacesInv /\ LegsInv /\ QuitInv
-----------------------------------------------------------------------------
\* A pipe that was empty, and one with a byte in it.
LEMMA PipeFacts ==
  /\ Append(<<>>, "1") = <<"1">> /\ Append(<<>>, "2") = <<"2">> /\ Append(<<>>, "q") = <<"q">>
  /\ Tail(<<"1">>) = <<>> /\ Tail(<<"2">>) = <<>> /\ Tail(<<"q">>) = <<>>
  /\ Head(<<"2">>) = "2" /\ Head(<<"q">>) = "q"
  /\ <<"1">> # <<>> /\ <<"2">> # <<>> /\ <<"q">> # <<>> /\ <<"2">> # <<"q">>
OBVIOUS

LEMMA InitIInv == Init => IInv
<1> SUFFICES ASSUME Init PROVE IInv
  OBVIOUS
<1>1. TypeOK
  <2>1. numtests \in Nat /\ 0 \in 0 .. MaxKeys
    BY IpcAssumption DEF Init
  <2>2. pc \in [Proc -> {"start", "fork", "test", "ask", "wait", "join", "done", "failed", "none", "run"}]
    BY DEF Init
  <2>3. /\ state \in [Proc -> {0, 1}] /\ trips \in [Proc -> Nat] /\ trips["parent"] = 0
        /\ pending \in [Proc -> SUBSET Signal]
    BY DEF Init, Proc
  <2>4. trips["parent"] <= numtests
    BY <2>1, <2>3
  <2>5. keys \in 0 .. MaxKeys /\ answering \in BOOLEAN
    BY <2>1 DEF Init
  <2> QED BY <2>1, <2>2, <2>3, <2>4, <2>5 DEF Init, TypeOK
<1>2. /\ pc["parent"] = "start" /\ pc["child"] = "none" /\ trips["parent"] = 0 /\ trips["child"] = 0
      /\ pending["parent"] = {} /\ pending["child"] = {} /\ answering = FALSE /\ fd1 = <<>> /\ fd2 = <<>>
  BY DEF Init, Proc
<1>3. Handshake
  BY <1>2 DEF Handshake, Waiting, Request, Reply
<1>4. PlacesInv
  BY <1>2 DEF PlacesInv, Proc
<1>5. LegsInv
  BY <1>2 DEF LegsInv, Answered, Asked, Waiting, Request
<1>6. QuitInv
  BY <1>2 DEF QuitInv
<1> QED BY <1>1, <1>3, <1>4, <1>5, <1>6 DEF IInv

LEMMA StartIInv ==
  ASSUME IInv, Start
  PROVE  IInv'
BY IpcAssumption
   DEF Start, Goes, args, pipes,
       IInv, TypeOK, Handshake, PlacesInv, LegsInv, QuitInv, Proc, Signal,
       Waiting, Disturbed, Request, Reply, Held, Asked, Answered

LEMMA ForkIInv ==
  ASSUME IInv, Fork
  PROVE  IInv'
<1>1. /\ pc["parent"] = "fork" /\ pc["child"] = "none" /\ fd1 = <<>> /\ fd2 = <<>> /\ ~answering
      /\ pending["child"] = {} /\ trips["parent"] = 0 /\ trips["child"] = 0
  BY IpcAssumption, PipeFacts DEF Fork, Proc, IInv, TypeOK, Proc, Handshake, PlacesInv, LegsInv, QuitInv, Waiting, Disturbed, Request, Reply, Held, Asked, Answered
<1>2. /\ pc' = [p \in Proc |-> IF p = "parent" THEN "test" ELSE "run"]
      /\ pc'["parent"] = "test" /\ pc'["child"] = "run"
      /\ state' = [p \in Proc |-> state["parent"]]
      /\ UNCHANGED <<mode, numtests, pending, answering, fd1, fd2, trips, keys>>
  BY <1>1, PipeFacts DEF Fork, Proc, args, pipes
<1>3. TypeOK'
  BY <1>1, <1>2 DEF TypeOK, IInv, Proc
<1>4. Handshake'
  BY <1>1, <1>2, PipeFacts DEF Handshake, Waiting, Disturbed, Request, Reply, Held, IInv, TypeOK, Proc
<1>5. PlacesInv'
  BY <1>1, <1>2, PipeFacts DEF PlacesInv, IInv, TypeOK, Proc
<1>6. LegsInv'
  BY <1>1, <1>2, PipeFacts DEF LegsInv, Answered, Asked, Waiting, Disturbed, Request, IInv, TypeOK, Proc
<1>7. QuitInv'
  BY <1>1, <1>2, PipeFacts DEF QuitInv, Disturbed, IInv, TypeOK, Proc
<1> QED BY <1>3, <1>4, <1>5, <1>6, <1>7 DEF IInv

LEMMA FailsIInv ==
  ASSUME IInv, Fails
  PROVE  IInv'
BY IpcAssumption
   DEF Fails, Goes, args, pipes,
       IInv, TypeOK, Handshake, PlacesInv, LegsInv, QuitInv, Proc, Signal,
       Waiting, Disturbed, Request, Reply, Held, Asked, Answered

LEMMA PipeAskIInv ==
  ASSUME IInv, PipeAsk
  PROVE  IInv'
<1>1. /\ mode = "pipe" /\ pc["parent"] = "test" /\ ~Waiting /\ ~Disturbed
      /\ fd1 = <<>> /\ fd2 = <<>> /\ ~answering /\ trips["parent"] < numtests
      /\ Answered = trips["parent"]
  BY IpcAssumption, PipeFacts DEF PipeAsk, Goes, IInv, TypeOK, Proc, Handshake, PlacesInv, LegsInv, QuitInv, Waiting, Disturbed, Request, Reply, Held, Asked, Answered
<1>2. /\ pc' = [pc EXCEPT !["parent"] = "wait"] /\ fd1' = <<"2">>
      /\ UNCHANGED <<mode, numtests, state, pending, answering, fd2, trips, keys>>
  BY <1>1, PipeFacts DEF PipeAsk, Goes, args, pipes
<1>3. TypeOK'
  BY <1>1, <1>2 DEF TypeOK, IInv, Proc
<1>4. Handshake'
  BY <1>1, <1>2, PipeFacts DEF Handshake, Waiting, Disturbed, Request, Reply, Held, IInv, TypeOK, Proc
<1>5. PlacesInv'
  BY <1>1, <1>2, PipeFacts DEF PlacesInv, IInv, TypeOK, Proc
<1>6. LegsInv'
  BY <1>1, <1>2, PipeFacts DEF LegsInv, Answered, Asked, Waiting, Disturbed, Request, IInv, TypeOK, Proc
<1>7. QuitInv'
  BY <1>1, <1>2, PipeFacts DEF QuitInv, Disturbed, IInv, TypeOK, Proc
<1> QED BY <1>3, <1>4, <1>5, <1>6, <1>7 DEF IInv

LEMMA PipeCountIInv ==
  ASSUME IInv, PipeCount
  PROVE  IInv'
<1>1. /\ mode = "pipe" /\ "SIGUSR1" \notin pending["parent"] /\ "SIGUSR2" \notin pending["child"]
      /\ pc["parent"] = "wait" /\ ~Disturbed /\ pc["child"] = "run"
      /\ fd1 = <<>> /\ fd2 = <<"1">> /\ ~answering /\ trips["parent"] < numtests
      /\ trips["child"] = trips["parent"] + 1
  BY IpcAssumption, PipeFacts DEF PipeCount, Goes, Measure, IInv, TypeOK, Proc, Handshake, PlacesInv, LegsInv, QuitInv, Waiting, Disturbed, Request, Reply, Held, Asked, Answered
<1>2. /\ pc' = [pc EXCEPT !["parent"] = "test"] /\ fd2' = <<>>
      /\ trips' = [trips EXCEPT !["parent"] = @ + 1]
      /\ UNCHANGED <<mode, numtests, state, pending, answering, fd1, keys>>
  BY <1>1, PipeFacts DEF PipeCount, Goes, Measure, args, pipes
<1>3. TypeOK'
  BY <1>1, <1>2, IpcAssumption DEF TypeOK, IInv, Proc
<1>4. Handshake'
  BY <1>1, <1>2, PipeFacts DEF Handshake, Waiting, Disturbed, Request, Reply, Held, IInv, TypeOK, Proc
<1>5. PlacesInv'
  BY <1>1, <1>2, PipeFacts DEF PlacesInv, IInv, TypeOK, Proc
<1>6. LegsInv'
  BY <1>1, <1>2, PipeFacts DEF LegsInv, Answered, Asked, Waiting, Disturbed, Request, IInv, TypeOK, Proc
<1>7. QuitInv'
  BY <1>1, <1>2, PipeFacts DEF QuitInv, Disturbed, IInv, TypeOK, Proc
<1> QED BY <1>3, <1>4, <1>5, <1>6, <1>7 DEF IInv

LEMMA PipeQuitIInv ==
  ASSUME IInv, PipeQuit
  PROVE  IInv'
<1>1. /\ mode = "pipe" /\ pc["parent"] = "test" /\ ~Disturbed
      /\ fd1 = <<>> /\ fd2 = <<>> /\ ~answering /\ trips["parent"] = numtests
  BY IpcAssumption, PipeFacts DEF PipeQuit, Goes, IInv, TypeOK, Proc, Handshake, PlacesInv, LegsInv, QuitInv, Waiting, Disturbed, Request, Reply, Held, Asked, Answered
<1>2. /\ pc' = [pc EXCEPT !["parent"] = "join"] /\ fd1' = <<"q">>
      /\ UNCHANGED <<mode, numtests, state, pending, answering, fd2, trips, keys>>
  BY <1>1, PipeFacts DEF PipeQuit, Goes, args, pipes
<1>3. TypeOK'
  BY <1>1, <1>2 DEF TypeOK, IInv, Proc
<1>4. Handshake'
  BY <1>1, <1>2, PipeFacts DEF Handshake, Waiting, Disturbed, Request, Reply, Held, IInv, TypeOK, Proc
<1>5. PlacesInv'
  BY <1>1, <1>2, PipeFacts DEF PlacesInv, IInv, TypeOK, Proc
<1>6. LegsInv'
  BY <1>1, <1>2, PipeFacts DEF LegsInv, Answered, Asked, Waiting, Disturbed, Request, IInv, TypeOK, Proc
<1>7. QuitInv'
  BY <1>1, <1>2, PipeFacts DEF QuitInv, Disturbed, IInv, TypeOK, Proc
<1> QED BY <1>3, <1>4, <1>5, <1>6, <1>7 DEF IInv

LEMMA PipeReadIInv ==
  ASSUME IInv, PipeRead
  PROVE  IInv'
<1>1. /\ mode = "pipe" /\ "SIGUSR1" \notin pending["parent"] /\ "SIGUSR2" \notin pending["child"]
      /\ pc["parent"] = "wait" /\ ~Disturbed /\ pc["child"] = "run"
      /\ fd1 = <<"2">> /\ fd2 = <<>> /\ ~answering /\ trips["child"] = trips["parent"]
  BY IpcAssumption, PipeFacts DEF PipeRead, Measure, IInv, TypeOK, Proc, Handshake, PlacesInv, LegsInv, QuitInv, Waiting, Disturbed, Request, Reply, Held, Asked, Answered
<1>2. /\ fd1' = <<>> /\ answering' = TRUE
      /\ trips' = [trips EXCEPT !["child"] = @ + 1]
      /\ UNCHANGED <<mode, numtests, pc, state, pending, fd2, keys>>
  BY <1>1, PipeFacts DEF PipeRead, Measure, args, pipes
<1>3. TypeOK'
  BY <1>1, <1>2, IpcAssumption DEF TypeOK, IInv, Proc
<1>4. Handshake'
  BY <1>1, <1>2, PipeFacts DEF Handshake, Waiting, Disturbed, Request, Reply, Held, IInv, TypeOK, Proc
<1>5. PlacesInv'
  BY <1>1, <1>2, PipeFacts DEF PlacesInv, IInv, TypeOK, Proc
<1>6. LegsInv'
  BY <1>1, <1>2, PipeFacts DEF LegsInv, Answered, Asked, Waiting, Disturbed, Request, IInv, TypeOK, Proc
<1>7. QuitInv'
  BY <1>1, <1>2, PipeFacts DEF QuitInv, Disturbed, IInv, TypeOK, Proc
<1> QED BY <1>3, <1>4, <1>5, <1>6, <1>7 DEF IInv

LEMMA PipeAnswerIInv ==
  ASSUME IInv, PipeAnswer
  PROVE  IInv'
BY IpcAssumption, PipeFacts
   DEF PipeAnswer, args, pipes,
       IInv, TypeOK, Handshake, PlacesInv, LegsInv, QuitInv, Proc, Signal,
       Waiting, Disturbed, Request, Reply, Held, Asked, Answered

LEMMA PipeLeaveIInv ==
  ASSUME IInv, PipeLeave
  PROVE  IInv'
<1>1. /\ mode = "pipe" /\ pc["parent"] = "join" /\ ~Disturbed /\ pc["child"] = "run"
      /\ fd1 = <<"q">> /\ fd2 = <<>> /\ ~answering
  BY IpcAssumption, PipeFacts DEF PipeLeave, Goes, Measure, IInv, TypeOK, Proc, Handshake, PlacesInv, LegsInv, QuitInv, Waiting, Disturbed, Request, Reply, Held, Asked, Answered
<1>2. /\ fd1' = <<>> /\ pc' = [pc EXCEPT !["child"] = "done"]
      /\ trips' = [trips EXCEPT !["child"] = @ + 1] /\ pending' = [pending EXCEPT !["child"] = {}]
      /\ UNCHANGED <<mode, numtests, state, answering, fd2, keys>>
  BY <1>1, PipeFacts DEF PipeLeave, Goes, Measure, args, pipes
<1>3. TypeOK'
  BY <1>1, <1>2 DEF TypeOK, IInv, Proc
<1>4. Handshake'
  BY <1>1, <1>2, PipeFacts DEF Handshake, Waiting, Disturbed, Request, Reply, Held, IInv, TypeOK, Proc
<1>5. PlacesInv'
  BY <1>1, <1>2, PipeFacts DEF PlacesInv, IInv, TypeOK, Proc
<1>6. LegsInv'
  BY <1>1, <1>2, PipeFacts DEF LegsInv, Answered, Asked, Waiting, Disturbed, Request, IInv, TypeOK, Proc
<1>7. QuitInv'
  BY <1>1, <1>2, PipeFacts DEF QuitInv, Disturbed, IInv, TypeOK, Proc
<1> QED BY <1>3, <1>4, <1>5, <1>6, <1>7 DEF IInv

LEMMA SetStateIInv ==
  ASSUME IInv, SetState
  PROVE  IInv'
BY IpcAssumption
   DEF SetState, Goes, args, pipes,
       IInv, TypeOK, Handshake, PlacesInv, LegsInv, QuitInv, Proc, Signal,
       Waiting, Disturbed, Request, Reply, Held, Asked, Answered

LEMMA SignalAskIInv ==
  ASSUME IInv, SignalAsk
  PROVE  IInv'
BY IpcAssumption
   DEF SignalAsk, Goes, kill, Alive, args, pipes,
       IInv, TypeOK, Handshake, PlacesInv, LegsInv, QuitInv, Proc, Signal,
       Waiting, Disturbed, Request, Reply, Held, Asked, Answered

LEMMA SignalCountIInv ==
  ASSUME IInv, SignalCount
  PROVE  IInv'
BY IpcAssumption
   DEF SignalCount, Goes, Measure, args, pipes,
       IInv, TypeOK, Handshake, PlacesInv, LegsInv, QuitInv, Proc, Signal,
       Waiting, Disturbed, Request, Reply, Held, Asked, Answered

LEMMA SignalQuitIInv ==
  ASSUME IInv, SignalQuit
  PROVE  IInv'
BY IpcAssumption
   DEF SignalQuit, Goes, kill, Alive, args, pipes,
       IInv, TypeOK, Handshake, PlacesInv, LegsInv, QuitInv, Proc, Signal,
       Waiting, Disturbed, Request, Reply, Held, Asked, Answered

LEMMA SignalAnswerIInv ==
  ASSUME IInv, SignalAnswer
  PROVE  IInv'
BY IpcAssumption
   DEF SignalAnswer, kill, Alive, args, pipes,
       IInv, TypeOK, Handshake, PlacesInv, LegsInv, QuitInv, Proc, Signal,
       Waiting, Disturbed, Request, Reply, Held, Asked, Answered

LEMMA SignalLeaveIInv ==
  ASSUME IInv, SignalLeave
  PROVE  IInv'
BY IpcAssumption
   DEF SignalLeave, Goes, Measure, args, pipes,
       IInv, TypeOK, Handshake, PlacesInv, LegsInv, QuitInv, Proc, Signal,
       Waiting, Disturbed, Request, Reply, Held, Asked, Answered

LEMMA KeyIntIInv ==
  ASSUME IInv, KeyInt
  PROVE  IInv'
BY IpcAssumption
   DEF KeyInt, Alive, args, pipes,
       IInv, TypeOK, Handshake, PlacesInv, LegsInv, QuitInv, Proc, Signal,
       Waiting, Disturbed, Request, Reply, Held, Asked, Answered

LEMMA JoinIInv ==
  ASSUME IInv, Join
  PROVE  IInv'
BY IpcAssumption
   DEF Join, Goes, args, pipes,
       IInv, TypeOK, Handshake, PlacesInv, LegsInv, QuitInv, Proc, Signal,
       Waiting, Disturbed, Request, Reply, Held, Asked, Answered

LEMMA Sigusr2IInv ==
  ASSUME IInv, sigusr2_handler
  PROVE  IInv'
<1>1. /\ mode = "signal" /\ pc["child"] = "run" /\ ~answering /\ "SIGUSR2" \in pending["child"]
      /\ fd1 = <<>> /\ fd2 = <<>> /\ Request
  BY IpcAssumption, PipeFacts DEF sigusr2_handler, Alive, Measure, IInv, TypeOK, Proc, Handshake, PlacesInv, LegsInv, QuitInv, Waiting, Disturbed, Request, Reply, Held, Asked, Answered
<1>2. /\ pending' = [pending EXCEPT !["child"] = @ \ {"SIGUSR2"}] /\ answering' = TRUE
      /\ trips' = [trips EXCEPT !["child"] = @ + 1]
      /\ UNCHANGED <<mode, numtests, pc, state, fd1, fd2, keys>>
  BY <1>1, PipeFacts DEF sigusr2_handler, Alive, Measure, args, pipes
<1>3. TypeOK'
  BY <1>1, <1>2 DEF TypeOK, IInv, Proc
<1>4. Handshake'
  BY <1>1, <1>2, PipeFacts DEF Handshake, Waiting, Disturbed, Request, Reply, Held, IInv, TypeOK, Proc
<1>5. PlacesInv'
  BY <1>1, <1>2, PipeFacts DEF PlacesInv, IInv, TypeOK, Proc
<1>6. LegsInv'
  BY <1>1, <1>2, PipeFacts DEF LegsInv, Answered, Asked, Waiting, Disturbed, Request, IInv, TypeOK, Proc
<1>7. QuitInv'
  BY <1>1, <1>2, PipeFacts DEF QuitInv, Disturbed, IInv, TypeOK, Proc
<1> QED BY <1>3, <1>4, <1>5, <1>6, <1>7 DEF IInv

LEMMA Sigusr1IInv ==
  ASSUME IInv, sigusr1_handler
  PROVE  IInv'
BY IpcAssumption
   DEF sigusr1_handler, ClearState, Alive, args, pipes,
       IInv, TypeOK, Handshake, PlacesInv, LegsInv, QuitInv, Proc, Signal,
       Waiting, Disturbed, Request, Reply, Held, Asked, Answered

LEMMA SigintIInv ==
  ASSUME IInv, NEW p \in Proc, sigint_handler(p)
  PROVE  IInv'
BY IpcAssumption
   DEF sigint_handler, ClearState, Alive, args, pipes,
       IInv, TypeOK, Handshake, PlacesInv, LegsInv, QuitInv, Proc, Signal,
       Waiting, Disturbed, Request, Reply, Held, Asked, Answered

LEMMA StutterIInv == IInv /\ UNCHANGED vars => IInv'
BY DEF vars, IInv, TypeOK, Handshake, PlacesInv, LegsInv, QuitInv,
       Waiting, Disturbed, Request, Reply, Held, Asked, Answered

LEMMA NextIInv == IInv /\ [Next]_vars => IInv'
<1> SUFFICES ASSUME IInv, Next PROVE IInv'
  BY StutterIInv
<1>1. CASE Parent
  BY <1>1, StartIInv, ForkIInv, FailsIInv, JoinIInv, PipeAskIInv, PipeCountIInv, PipeQuitIInv,
     SetStateIInv, SignalAskIInv, SignalCountIInv, SignalQuitIInv DEF Parent
<1>2. CASE Child
  BY <1>2, PipeReadIInv, PipeAnswerIInv, PipeLeaveIInv, SignalAnswerIInv, SignalLeaveIInv DEF Child
<1>3. CASE Handler
  BY <1>3, Sigusr1IInv, Sigusr2IInv, SigintIInv DEF Handler
<1>4. CASE (\E p \in Proc : Spin(p)) \/ Terminated
  BY <1>4, StutterIInv DEF Spin, Terminated
<1> QED BY <1>1, <1>2, <1>3, <1>4, KeyIntIInv DEF Next
-----------------------------------------------------------------------------
(* The theorems                                                            *)

\* The inductive invariant holds in every reachable state.
THEOREM Invariance == Spec => []IInv
BY InitIInv, NextIInv, PTL DEF Spec

\* While no ctrl-c disturbs the signals there is one thing under way at a time: a
\* request, an answer in the making, an answer, or a state that is cleared.
THEOREM HandshakeCorrect == Spec => []Handshake
<1>1. IInv => Handshake
  BY DEF IInv
<1> QED BY <1>1, Invariance, PTL

\* A pipe holds a byte at most, and the loop counts no more than numtests trips.
THEOREM TypeCorrect == Spec => []TypeOK
<1>1. IInv => TypeOK
  BY DEF IInv
<1> QED BY <1>1, Invariance, PTL
-----------------------------------------------------------------------------
(* The refinement: each action is one of PingPong, or none.                *)

\* A step that PingPong does not see.
LEMMA AbstractStutter ==
  ASSUME IInv, UNCHANGED <<mode, numtests, trips, keys>>,
         Waiting' <=> Waiting, pc'["child"] = "done" <=> pc["child"] = "done",
         pc'["parent"] = "done" <=> pc["parent"] = "done"
  PROVE  UNCHANGED PP!vars
BY DEF PP!vars, Waiting, Disturbed

LEMMA AbstractInit == Init => PP!Init
BY IpcAssumption DEF Init, PP!Init, Waiting, Disturbed, Proc

LEMMA AbstractNext ==
  ASSUME IInv, Next
  PROVE  [PP!Next]_(PP!vars)
<1>1. CASE SignalAsk
  <2>1. PP!Ask
    BY <1>1 DEF SignalAsk, Goes, PP!Ask, args, pipes, Waiting, Disturbed, IInv, TypeOK, PlacesInv, Proc, PP!vars
  <2> QED BY <2>1 DEF PP!Next
<1>2. CASE PipeAsk
  <2>1. PP!Ask
    BY <1>2 DEF PipeAsk, Goes, PP!Ask, args, pipes, Waiting, Disturbed, IInv, TypeOK, PlacesInv, Proc, PP!vars
  <2> QED BY <2>1 DEF PP!Next
<1>3. CASE sigusr2_handler
  <2>1. PP!Answer
    BY <1>3 DEF sigusr2_handler, Alive, Measure, LegsInv, Answered, Asked, Request, PP!Answer, args, pipes, Waiting, Disturbed, IInv, TypeOK, PlacesInv, Proc, PP!vars
  <2> QED BY <2>1 DEF PP!Next
<1>4. CASE PipeRead
  <2>1. PP!Answer
    BY <1>4, PipeFacts DEF PipeRead, Measure, LegsInv, Answered, Asked, Request, PP!Answer, args, pipes, Waiting, Disturbed, IInv, TypeOK, PlacesInv, Proc, PP!vars
  <2> QED BY <2>1 DEF PP!Next
<1>5. CASE SignalCount
  <2>1. PP!Count
    BY <1>5 DEF SignalCount, Goes, Measure, LegsInv, Answered, Asked, Request, Handshake, Held, PP!Count, args, pipes, Waiting, Disturbed, IInv, TypeOK, PlacesInv, Proc, PP!vars
  <2> QED BY <2>1 DEF PP!Next
<1>6. CASE PipeCount
  <2>1. PP!Count
    BY <1>6, PipeFacts DEF PipeCount, Goes, Measure, LegsInv, Answered, Asked, Request, Reply, Handshake, Held, PP!Count, args, pipes, Waiting, Disturbed, IInv, TypeOK, PlacesInv, Proc, PP!vars
  <2> QED BY <2>1 DEF PP!Next
<1>7. CASE SignalLeave
  <2>1. PP!Leave
    BY <1>7 DEF SignalLeave, Goes, Measure, QuitInv, PP!Leave, args, pipes, Waiting, Disturbed, IInv, TypeOK, PlacesInv, Proc, PP!vars
  <2> QED BY <2>1 DEF PP!Next
<1>8. CASE PipeLeave
  <2>1. PP!Leave
    BY <1>8, PipeFacts DEF PipeLeave, Goes, Measure, QuitInv, PP!Leave, args, pipes, Waiting, Disturbed, IInv, TypeOK, PlacesInv, Proc, PP!vars
  <2> QED BY <2>1 DEF PP!Next
<1>9. CASE Join
  <2>1. PP!End
    BY <1>9 DEF Join, Goes, PP!End, args, pipes, Waiting, Disturbed, IInv, TypeOK, PlacesInv, Proc, PP!vars
  <2> QED BY <2>1 DEF PP!Next
<1>10. CASE KeyInt
  <2>1. CASE mode = "signal"
    <3>1. PP!Disturb
      BY <1>10, <2>1, IpcAssumption DEF KeyInt, PP!Disturb, args, pipes, Waiting, Disturbed, IInv, TypeOK, PlacesInv, Proc, PP!vars
    <3> QED BY <3>1 DEF PP!Next
  <2>2. CASE mode = "pipe"
    BY <1>10, <2>2 DEF KeyInt, args, pipes, Waiting, Disturbed, IInv, TypeOK, PlacesInv, Proc, PP!vars
  <2> QED BY <2>1, <2>2 DEF IInv, TypeOK
<1>11. CASE Start \/ Fork \/ Fails \/ PipeQuit \/ SetState \/ SignalQuit
  BY <1>11, AbstractStutter
     DEF Start, Fork, Fails, PipeQuit, SetState, SignalQuit, Goes, args, Waiting, IInv, TypeOK, PlacesInv, Proc
<1>12. CASE PipeAnswer \/ SignalAnswer \/ sigusr1_handler \/ \E p \in Proc : sigint_handler(p)
  BY <1>12, AbstractStutter
     DEF PipeAnswer, SignalAnswer, sigusr1_handler, sigint_handler, ClearState, args, Waiting
<1>13. CASE (\E p \in Proc : Spin(p)) \/ Terminated
  BY <1>13, AbstractStutter DEF Spin, Terminated, vars, Waiting
<1> QED BY <1>1, <1>2, <1>3, <1>4, <1>5, <1>6, <1>7, <1>8, <1>9, <1>10, <1>11, <1>12, <1>13
        DEF Next, Parent, Child, Handler

\* The benchmark plays ping-pong: each trip is asked for, answered and counted in
\* turn, and the child leaves last thing, at any speed and for any number of trips;
\* only by signals and after a ctrl-c are trips counted that nobody answered.
THEOREM ImplementsPingPong == Spec => PingPongSpec
<1>1. IInv /\ [Next]_vars => [PP!Next]_(PP!vars)
  <2> SUFFICES ASSUME IInv, UNCHANGED vars PROVE UNCHANGED PP!vars
    BY AbstractNext
  <2> QED BY AbstractStutter DEF vars, Waiting
<1> QED BY <1>1, AbstractInit, Invariance, PTL DEF Spec, PingPongSpec, PP!Spec
=============================================================================
