---------------------------- MODULE FlowGraph_proofs ----------------------------
(***************************************************************************)
(* Proofs about FlowGraph, for every graph and every size: no buffer       *)
(* overflows, every reader gets every sample, and a finished flow graph    *)
(* leaves no process behind; and for every graph without joins, that it    *)
(* ends naturally unless it is stopped.                                    *)
(***************************************************************************)
EXTENDS FlowGraph, WellFoundedInduction, TLAPS

(* The blocks that are not forked yet. *)
NotForked == \A i \in DOMAIN Order : i > forked => pc[Order[i]] = "unborn"

BlockActions(b) ==
  \/ CloseOthers(b) \/ Produce(b) \/ ProduceNoMore(b) \/ ReadEof(b) \/ Read(b)
  \/ ReadShutdown(b) \/ WriteSome(b) \/ WriteNext(b) \/ WriteEof(b) \/ WriteDone(b) \/ Die(b)

-------------------------------------------------------------------------------
(* Pipes. *)

LEMMA ConstantTypes ==
  /\ Order \in Seq(Blocks) /\ Len(Order) \in Nat
  /\ PipeSize \in Nat /\ BufferSize \in Nat /\ Chunk \in Nat
<1>1. Order \in Seq(Blocks)
  BY FlowGraphAssumption
<1>2. PipeSize \in Nat /\ BufferSize \in Nat /\ Chunk \in Nat
  BY FlowGraphAssumption
<1> QED
  BY <1>1, <1>2

LEMMA BlockTypes ==
  ASSUME NEW b \in Blocks
  PROVE  Outs[b] \in Seq(Blocks) /\ Len(Outs[b]) \in Nat /\ Delay[b] \in Nat
<1>1. Outs \in [Blocks -> Seq(Blocks)]
  BY FlowGraphAssumption
<1>2. Delay \in [Blocks -> Nat]
  BY FlowGraphAssumption
<1> QED
  BY <1>1, <1>2

LEMMA PipeEnds == \A p \in Pipes : p[1] \in Blocks /\ p[2] \in Blocks /\ p = <<p[1], p[2]>>
  BY DEF Pipes

\* No pipe leads from a block to itself.
LEMMA NoLoop == \A p \in Pipes : p[1] # p[2]
<1> SUFFICES ASSUME NEW p \in Pipes, p[1] = p[2] PROVE FALSE
  OBVIOUS
<1>1. PICK i \in DOMAIN Order : Order[i] = p[1]
  BY PipeEnds DEF Blocks
<1>2. <<Order[i], Order[i]>> \in Pipes
  BY <1>1, PipeEnds
<1>3. i < i
  <2>1. \A k \in DOMAIN Order, j \in DOMAIN Order : <<Order[k], Order[j]>> \in Pipes => k < j
    BY FlowGraphAssumption
  <2> QED
    BY <1>2, <2>1
<1>4. i \in Nat
  BY ConstantTypes
<1> QED
  BY <1>3, <1>4, SMT

LEMMA PositionType ==
  ASSUME NEW p \in Pipes
  PROVE  /\ Position(p) \in DOMAIN Outs[p[1]] /\ Position(p) \in 1 .. Len(Outs[p[1]])
         /\ Outs[p[1]][Position(p)] = p[2]
<1>1. \E i \in DOMAIN Outs[p[1]] : Outs[p[1]][i] = p[2]
  BY DEF Pipes
<1>2. Outs[p[1]] \in Seq(Blocks)
  BY PipeEnds, BlockTypes
<1> QED
  BY <1>1, <1>2 DEF Position

LEMMA TargetPipeType ==
  ASSUME NEW b \in Blocks, target[b] \in DOMAIN Outs[b]
  PROVE  /\ TargetPipe(b) \in Pipes /\ TargetPipe(b)[1] = b
         /\ Position(TargetPipe(b)) = target[b]
         /\ \A p \in Pipes : p[1] = b /\ Position(p) = target[b] => p = TargetPipe(b)
<1> DEFINE t == TargetPipe(b)
<1>1. Outs[b] \in Seq(Blocks) /\ Outs[b][target[b]] \in Blocks
  BY BlockTypes
<1>2. t \in Pipes /\ t[1] = b /\ t[2] = Outs[b][target[b]]
  BY <1>1 DEF Pipes, TargetPipe
<1>3. Position(t) = target[b]
  BY <1>2, PositionType, FlowGraphAssumption
<1>4. ASSUME NEW p \in Pipes, p[1] = b, Position(p) = target[b] PROVE p = t
  BY <1>2, <1>4, PositionType, PipeEnds
<1> QED
  BY <1>2, <1>3, <1>4

(* What a read takes out of the socket fits into the buffer. *)
LEMMA MovedType ==
  ASSUME TypeOK, NEW p \in Pipes
  PROVE  /\ Moved(p) \in 0 .. queue[p] /\ Held(p) \in 0 .. BufferSize
         /\ Held(p) = buffer[p] + Moved(p)
<1>1. queue[p] \in 0 .. PipeSize /\ buffer[p] \in 0 .. BufferSize
  BY DEF TypeOK
<1>2. BufferSize \in Nat /\ PipeSize \in Nat
  BY ConstantTypes
<1> QED
  BY <1>1, <1>2, SMT DEF Moved, Held, Lesser

LEMMA MadeOfType ==
  ASSUME NEW b \in Blocks, NEW m \in Nat, NEW n \in Nat
  PROVE  MadeOf(b, m + n) - MadeOf(b, m) \in Nat
  BY BlockTypes, SMT DEF MadeOf

-------------------------------------------------------------------------------
(* Types. *)

LEMMA InitType == Init => TypeOK
<1> SUFFICES ASSUME Init PROVE TypeOK
  OBVIOUS
<1>1. \A b \in Blocks : 1 \in 1 .. Len(Outs[b]) + 1
  BY BlockTypes, SMT
<1>2. 0 \in 0 .. PipeSize /\ 0 \in 0 .. BufferSize /\ 0 \in 0 .. Len(Order)
  BY ConstantTypes, SMT
<1>3. /\ pc \in [Blocks -> States]
      /\ queue \in [Pipes -> 0 .. PipeSize] /\ buffer \in [Pipes -> 0 .. BufferSize]
      /\ taken \in [Pipes -> Nat]
  BY <1>2 DEF Init, States
<1>4. /\ made \in [Blocks -> Nat] /\ vector \in [Blocks -> Nat] /\ written \in [Blocks -> Nat]
      /\ target \in [Blocks -> Nat]
  BY DEF Init
<1>5. \A b \in Blocks : target[b] \in 1 .. Len(Outs[b]) + 1 /\ written[b] <= vector[b]
  BY <1>1, SMT DEF Init
<1>6. /\ parent \in ParentStates /\ forked \in 0 .. Len(Order)
      /\ {stopped, timedOut} \subseteq BOOLEAN
      /\ pending \subseteq {"SIGINT", "SIGCHLD"}
      /\ reaped \subseteq Blocks /\ terminated \subseteq Blocks
  BY <1>2 DEF Init, ParentStates
<1> QED
  BY <1>3, <1>4, <1>5, <1>6 DEF TypeOK

LEMMA ExitType ==
  ASSUME TypeOK, NEW b \in Blocks, NEW why \in Ends, Exit(b, why), UNCHANGED host
  PROVE  TypeOK'
  BY DEF TypeOK, Exit, Ends, States, host

LEMMA GiveType ==
  ASSUME TypeOK, NEW b \in Blocks, NEW n \in Nat, Give(b, n)
  PROVE  /\ pc' \in [Blocks -> States]
         /\ made' \in [Blocks -> Nat] /\ vector' \in [Blocks -> Nat] /\ written' \in [Blocks -> Nat]
      /\ target' \in [Blocks -> Nat]
         /\ target' \in [Blocks -> Nat]
         /\ \A c \in Blocks : target'[c] \in 1 .. Len(Outs[c]) + 1 /\ written'[c] <= vector'[c]
<1>1. Len(Outs[b]) \in Nat
  BY BlockTypes
<1>2. pc' \in [Blocks -> States] /\ made' \in [Blocks -> Nat]
      /\ vector' \in [Blocks -> Nat] /\ written' \in [Blocks -> Nat]
      /\ target' \in [Blocks -> Nat]
  BY SMT DEF Give, TypeOK, States
<1>3. ASSUME NEW c \in Blocks
      PROVE  target'[c] \in 1 .. Len(Outs[c]) + 1 /\ written'[c] <= vector'[c]
  BY <1>1, SMT DEF Give, TypeOK
<1> QED
  BY <1>2, <1>3

LEMMA ReadType ==
  ASSUME TypeOK, NEW b \in Blocks, Read(b), UNCHANGED host
  PROVE  TypeOK'
<1>1. PICK n \in 0 .. BufferSize :
        /\ Available(b, n)
        /\ queue' = [p \in Pipes |-> IF p \in Ins(b) THEN queue[p] - Moved(p) ELSE queue[p]]
        /\ buffer' = [p \in Pipes |-> IF p \in Ins(b) THEN Held(p) - n ELSE buffer[p]]
        /\ taken' = [p \in Pipes |-> IF p \in Ins(b) THEN taken[p] + n ELSE taken[p]]
        /\ \/ n = 0 /\ UNCHANGED <<pc, made, target, vector, written>>
           \/ n > 0 /\ \E p \in Ins(b) : Give(b, MadeOf(b, taken[p] + n) - MadeOf(b, taken[p]))
  BY DEF Read
<1>2. n \in Nat /\ BufferSize \in Nat /\ PipeSize \in Nat
  BY ConstantTypes, SMT
<1>3. queue' \in [Pipes -> 0 .. PipeSize]
  <2>1. ASSUME NEW p \in Pipes PROVE queue[p] - Moved(p) \in 0 .. PipeSize /\ queue[p] \in 0 .. PipeSize
    <3>1. queue[p] \in 0 .. PipeSize
      BY DEF TypeOK
    <3>2. Moved(p) \in 0 .. queue[p]
      BY MovedType
    <3> QED
      BY <1>2, <3>1, <3>2, SMT
  <2> QED
    BY <1>1, <2>1
<1>4. buffer' \in [Pipes -> 0 .. BufferSize]
  <2>1. ASSUME NEW p \in Pipes, p \in Ins(b) PROVE Held(p) - n \in 0 .. BufferSize
    BY <1>1, <1>2, <2>1, MovedType, SMT DEF Available
  <2> QED
    BY <1>1, <2>1 DEF TypeOK
<1>5. taken' \in [Pipes -> Nat]
  BY <1>1, <1>2, SMT DEF TypeOK
<1>6. /\ pc' \in [Blocks -> States]
      /\ made' \in [Blocks -> Nat] /\ vector' \in [Blocks -> Nat] /\ written' \in [Blocks -> Nat]
      /\ target' \in [Blocks -> Nat]
      /\ \A c \in Blocks : target'[c] \in 1 .. Len(Outs[c]) + 1 /\ written'[c] <= vector'[c]
  <2>1. CASE n = 0
    BY <1>1, <2>1 DEF TypeOK
  <2>2. CASE n # 0
    <3>1. PICK p \in Ins(b) : Give(b, MadeOf(b, taken[p] + n) - MadeOf(b, taken[p]))
      BY <1>1, <2>2
    <3>2. taken[p] \in Nat
      BY DEF TypeOK, Ins
    <3>3. MadeOf(b, taken[p] + n) - MadeOf(b, taken[p]) \in Nat
      BY <1>2, <3>2, MadeOfType
    <3> QED
      BY <3>1, <3>3, GiveType
  <2> QED
    BY <2>1, <2>2
<1>7. UNCHANGED <<pending, host>>
  BY DEF Read
<1> QED
  BY <1>3, <1>4, <1>5, <1>6, <1>7 DEF TypeOK, host

LEMMA WriteSomeType ==
  ASSUME TypeOK, NEW b \in Blocks, WriteSome(b), UNCHANGED host
  PROVE  TypeOK'
<1> DEFINE t == TargetPipe(b)
           n == Lesser(vector[b] - written[b], PipeSize - queue[t])
<1>1. t \in Pipes
  BY TargetPipeType DEF WriteSome, Writing
<1>2. /\ n > 0 /\ written[b] < vector[b]
      /\ queue' = [queue EXCEPT ![t] = @ + n]
      /\ written' = [written EXCEPT ![b] = @ + n]
      /\ UNCHANGED <<pc, buffer, taken, made, target, vector, pending>>
  BY DEF WriteSome
<1>3. queue[t] \in 0 .. PipeSize /\ PipeSize \in Nat /\ written[b] \in Nat /\ vector[b] \in Nat
  BY <1>1, ConstantTypes DEF TypeOK
<1>4. queue[t] + n \in 0 .. PipeSize /\ written[b] + n \in Nat /\ written[b] + n <= vector[b]
  BY <1>2, <1>3, SMT DEF Lesser
<1> HIDE DEF t, n
<1>5. queue' \in [Pipes -> 0 .. PipeSize] /\ written' \in [Blocks -> Nat]
  BY <1>2, <1>4 DEF TypeOK
<1>6. \A c \in Blocks : target'[c] \in 1 .. Len(Outs[c]) + 1 /\ written'[c] <= vector'[c]
  BY <1>2, <1>4 DEF TypeOK
<1> QED
  BY <1>2, <1>5, <1>6 DEF TypeOK, host

LEMMA BlockType ==
  ASSUME TypeOK, NEW b \in Blocks, BlockActions(b), UNCHANGED host
  PROVE  TypeOK'
<1>1. CASE CloseOthers(b)
  BY <1>1 DEF TypeOK, CloseOthers, States, host
<1>2. CASE Produce(b)
  <2>1. PICK n \in 1 .. Chunk : Give(b, n)
    BY <1>2 DEF Produce
  <2>2. n \in Nat
    BY ConstantTypes, SMT
  <2>3. UNCHANGED <<queue, buffer, taken, pending>>
    BY <1>2 DEF Produce
  <2> QED
    BY <2>1, <2>2, <2>3, GiveType DEF TypeOK, host
<1>3. CASE ProduceNoMore(b)
  BY <1>3, ExitType DEF ProduceNoMore, Ends
<1>4. CASE ReadEof(b)
  BY <1>4, ExitType DEF ReadEof, Ends
<1>5. CASE Read(b)
  BY <1>5, ReadType
<1>6. CASE ReadShutdown(b)
  BY <1>6, ExitType DEF ReadShutdown, Ends
<1>7. CASE WriteSome(b)
  BY <1>7, WriteSomeType
<1>8. CASE WriteNext(b)
  <2>1. /\ target' = [target EXCEPT ![b] = @ + 1] /\ written' = [written EXCEPT ![b] = 0]
        /\ UNCHANGED <<pc, queue, buffer, taken, made, vector, pending>>
    BY <1>8 DEF WriteNext
  <2>2. target[b] + 1 \in 1 .. Len(Outs[b]) + 1
    <3>1. target[b] \in 1 .. Len(Outs[b]) /\ Len(Outs[b]) \in Nat
      BY <1>8, BlockTypes DEF WriteNext, Writing
    <3> QED
      BY <3>1, SMT
  <2>3. written' \in [Blocks -> Nat] /\ vector[b] \in Nat /\ target' \in [Blocks -> Nat]
    BY <2>1, SMT DEF TypeOK
  <2>4. \A c \in Blocks : target'[c] \in 1 .. Len(Outs[c]) + 1 /\ written'[c] <= vector'[c]
    BY <2>1, <2>2, <2>3, SMT DEF TypeOK
  <2> QED
    BY <2>1, <2>3, <2>4 DEF TypeOK, host
<1>9. CASE WriteEof(b)
  BY <1>9, ExitType DEF WriteEof, Ends
<1>10. CASE WriteDone(b)
  <2>1. CASE Exit(b, "shutdown")
    BY <2>1, ExitType DEF Ends
  <2>2. CASE pc' = [pc EXCEPT ![b] = "read"]
             /\ UNCHANGED <<queue, buffer, taken, made, target, vector, written, pending>>
    BY <2>2 DEF TypeOK, States, host
  <2> QED
    BY <1>10, <2>1, <2>2 DEF WriteDone
<1>11. CASE Die(b)
  BY <1>11, ExitType DEF Die, Ends
<1> QED
  BY <1>1, <1>2, <1>3, <1>4, <1>5, <1>6, <1>7, <1>8, <1>9, <1>10, <1>11 DEF BlockActions

(* What else may happen. *)
HostActions ==
  Started \/ Wait \/ Interrupted \/ ChildExited \/ Reap \/ NextExited \/ TimeOut
    \/ CallStop \/ CallStatus \/ PressInterrupt

LEMMA ForkedBlock ==
  ASSUME Fork, TypeOK
  PROVE  /\ forked + 1 \in DOMAIN Order /\ Order[forked + 1] \in Blocks
         /\ forked' \in 0 .. Len(Order) /\ forked \in Nat
<1>1. Order \in Seq(Blocks) /\ forked \in 0 .. Len(Order) /\ forked < Len(Order)
      /\ forked' = forked + 1
  BY ConstantTypes DEF Fork, TypeOK
<1> QED
  BY <1>1, SMT

LEMMA ForkType == ASSUME TypeOK, Fork PROVE TypeOK'
  BY ForkedBlock DEF Fork, TypeOK, States

LEMMA CollectType == ASSUME TypeOK, CollectSome PROVE reaped' \subseteq Blocks
  BY DEF CollectSome, TypeOK

LEMMA HostType == ASSUME TypeOK, HostActions PROVE TypeOK'
<1>1. CASE Started
  BY <1>1 DEF Started, TypeOK, ParentStates, block
<1>2. CASE Wait
  BY <1>2, CollectType DEF Wait, TypeOK, ParentStates, block
<1>3. CASE Interrupted
  BY <1>3 DEF Interrupted, Stop, TypeOK, ParentStates, block
<1>4. CASE ChildExited
  BY <1>4 DEF ChildExited, TypeOK, ParentStates, block
<1>5. CASE Reap
  BY <1>5 DEF Reap, TypeOK, ParentStates, block
<1>6. CASE NextExited
  BY <1>6 DEF NextExited, TypeOK, ParentStates, block
<1>7. CASE TimeOut
  BY <1>7 DEF TimeOut, TypeOK, ParentStates, block
<1>8. CASE CallStop
  BY <1>8 DEF CallStop, Stop, TypeOK, ParentStates, block
<1>9. CASE CallStatus
  BY <1>9, CollectType DEF CallStatus, TypeOK, ParentStates, block
<1>10. CASE PressInterrupt
  BY <1>10 DEF PressInterrupt, TypeOK, ParentStates, block, host
<1> QED
  BY <1>1, <1>2, <1>3, <1>4, <1>5, <1>6, <1>7, <1>8, <1>9, <1>10 DEF HostActions

LEMMA NextSplit ==
  ASSUME [Next]_vars
  PROVE  \/ \E b \in Blocks : BlockActions(b) /\ UNCHANGED host
         \/ Fork \/ HostActions \/ UNCHANGED vars
  BY DEF Next, BlockStep, BlockActions, ParentStep, HostActions

LEMMA NextType == ASSUME TypeOK, [Next]_vars PROVE TypeOK'
<1>1. CASE UNCHANGED vars
  BY <1>1 DEF TypeOK, vars, block, host
<1> QED
  BY <1>1, NextSplit, BlockType, ForkType, HostType

(* No socket and no buffer ever holds more than its size, and every variable has
   its type. *)
THEOREM TypeCorrect == Spec => []TypeOK
<1>1. Init => TypeOK
  BY InitType
<1>2. TypeOK /\ [Next]_vars => TypeOK'
  BY NextType
<1> QED
  BY <1>1, <1>2, PTL DEF Spec

-------------------------------------------------------------------------------
(* Nothing is left behind. *)

\* A block steps only while it runs, and touches no other block's state.
LEMMA BlockRuns ==
  ASSUME TypeOK, NEW b \in Blocks, BlockActions(b)
  PROVE  Alive(b) /\ \A c \in Blocks \ {b} : pc'[c] = pc[c]
<1>1. CASE CloseOthers(b)
  BY <1>1 DEF CloseOthers, Alive, TypeOK
<1>2. CASE Produce(b)
  BY <1>2 DEF Produce, Give, Alive, TypeOK
<1>3. CASE ProduceNoMore(b) \/ ReadEof(b) \/ ReadShutdown(b) \/ WriteEof(b) \/ Die(b)
  BY <1>3 DEF ProduceNoMore, ReadEof, ReadShutdown, WriteEof, Die, Writing, Exit, Alive, TypeOK
<1>4. CASE Read(b)
  BY <1>4 DEF Read, Give, Alive, TypeOK
<1>5. CASE WriteSome(b) \/ WriteNext(b)
  BY <1>5 DEF WriteSome, WriteNext, Writing, Alive
<1>6. CASE WriteDone(b)
  BY <1>6 DEF WriteDone, Exit, Alive, TypeOK
<1> QED
  BY <1>1, <1>2, <1>3, <1>4, <1>5, <1>6 DEF BlockActions

LEMMA NextNothingLeft ==
  ASSUME TypeOK, NothingLeft, [Next]_vars
  PROVE  NothingLeft'
<1>1. CASE UNCHANGED vars
  BY <1>1 DEF NothingLeft, AllExited, Exited, vars, block, host
<1>2. ASSUME NEW b \in Blocks, BlockActions(b), UNCHANGED host PROVE NothingLeft'
  BY <1>2, BlockRuns DEF NothingLeft, AllExited, Exited, Alive, Ends, host
<1>3. CASE Fork
  BY <1>3 DEF Fork, NothingLeft
<1>4. CASE Reap
  BY <1>4 DEF Reap, NothingLeft, AllExited, Exited, block, TypeOK
<1>5. CASE Started \/ Wait \/ Interrupted \/ ChildExited \/ NextExited \/ TimeOut \/ CallStop
  BY <1>5 DEF Started, Wait, Interrupted, ChildExited, NextExited, TimeOut, CallStop, Stop, NothingLeft
<1>6. CASE CallStatus
  BY <1>6 DEF CallStatus, NothingLeft
<1>7. CASE PressInterrupt
  BY <1>7 DEF PressInterrupt, NothingLeft, AllExited, Exited, block, host
<1> QED
  BY <1>1, <1>2, <1>3, <1>4, <1>5, <1>6, <1>7, NextSplit DEF HostActions

(* Whatever way a flow graph ends, the parent has collected all its processes. *)
THEOREM NothingLeftAlways == Spec => []NothingLeft
<1>1. Init => TypeOK /\ NothingLeft
  BY InitType DEF Init, NothingLeft
<1>2. TypeOK /\ NothingLeft /\ [Next]_vars => (TypeOK /\ NothingLeft)'
  BY NextType, NextNothingLeft
<1> QED
  BY <1>1, <1>2, PTL DEF Spec

-------------------------------------------------------------------------------
(* Every reader gets every sample. *)

Running == {"unborn", "born", "read", "write", "own", "eof"}
Kept(p) == pc[p[1]] \in Running => made[p[1]] = taken[p] + buffer[p] + queue[p] + Unwritten(p)

LEMMA KeptDef == EverySampleKept <=> \A p \in Pipes : Kept(p)
  BY DEF EverySampleKept, Kept, Running

\* What is unwritten depends on the writer alone.
LEMMA UnwrittenSame ==
  ASSUME NEW p \in Pipes, pc'[p[1]] = pc[p[1]], target'[p[1]] = target[p[1]],
         vector'[p[1]] = vector[p[1]], written'[p[1]] = written[p[1]]
  PROVE  Unwritten(p)' = Unwritten(p)
  BY DEF Unwritten, Writing, Position

LEMMA UnwrittenType ==
  ASSUME TypeOK, NEW p \in Pipes
  PROVE  Unwritten(p) \in Nat /\ (pc[p[1]] # "write" => Unwritten(p) = 0)
<1>1. /\ vector[p[1]] \in Nat /\ written[p[1]] \in Nat /\ written[p[1]] <= vector[p[1]]
  BY PipeEnds DEF TypeOK
<1> QED
  BY <1>1, SMT DEF Unwritten, Writing

\* A block that ends, with nothing unwritten or without a promise.
LEMMA ExitKept ==
  ASSUME TypeOK, EverySampleKept, NEW b \in Blocks, NEW why \in Ends, Exit(b, why),
         Alive(b), pc[b] # "write" \/ why \notin Running
  PROVE  EverySampleKept'
<1> SUFFICES ASSUME NEW p \in Pipes PROVE Kept(p)'
  BY KeptDef DEF EverySampleKept, Kept, Running
<1>1. Kept(p)
  BY KeptDef
<1>2. /\ pc' = [pc EXCEPT ![b] = why] /\ pc \in [Blocks -> States]
      /\ UNCHANGED <<queue, buffer, taken, made, target, vector, written>>
  BY DEF Exit, TypeOK
<1>3. CASE p[1] # b
  <2>1. pc'[p[1]] = pc[p[1]] /\ Unwritten(p)' = Unwritten(p)
    BY <1>2, <1>3, UnwrittenSame
  <2> QED
    BY <1>1, <1>2, <2>1 DEF Kept
<1>4. CASE p[1] = b /\ why \notin Running
  BY <1>2, <1>4 DEF Kept
<1>5. CASE p[1] = b /\ pc[b] # "write" /\ why \in Running
  <2>1. Unwritten(p) = 0
    BY <1>5, UnwrittenType
  <2>2. Unwritten(p)' = 0
    BY <1>2, <1>5 DEF Unwritten, Writing, Ends
  <2>3. pc[b] \in Running
    BY DEF Alive, Running
  <2> QED
    BY <1>1, <1>2, <1>5, <2>1, <2>2, <2>3 DEF Kept, Running
<1> QED
  BY <1>3, <1>4, <1>5

\* A vector that is given to the pipes is still to be written to each of them.
LEMMA GiveKept ==
  ASSUME TypeOK, NEW b \in Blocks, NEW n \in Nat, Give(b, n), pc[b] = "read",
         NEW p \in Pipes, Kept(p), taken[p] + buffer[p] + queue[p] \in Nat,
         (taken[p] + buffer[p] + queue[p])' = taken[p] + buffer[p] + queue[p]
  PROVE  Kept(p)'
<1>1. /\ pc' = [pc EXCEPT ![b] = "write"] /\ made' = [made EXCEPT ![b] = @ + n]
      /\ target' = [target EXCEPT ![b] = 1] /\ vector' = [vector EXCEPT ![b] = n]
      /\ written' = [written EXCEPT ![b] = 0]
      /\ pc \in [Blocks -> States] /\ made \in [Blocks -> Nat]
      /\ target \in [Blocks -> Nat]
      /\ vector \in [Blocks -> Nat] /\ written \in [Blocks -> Nat]
  BY DEF Give, TypeOK
<1>2. CASE p[1] # b
  BY <1>1, <1>2, UnwrittenSame DEF Kept
<1>3. CASE p[1] = b
  <2>1. Position(p) \in Nat /\ Position(p) >= 1
    BY PositionType, PipeEnds, BlockTypes, SMT
  <2>2. Position(p)' = Position(p)
    BY DEF Position
  <2>3. 1 \in DOMAIN Outs[b]
    BY <1>3, <2>1, PositionType, BlockTypes, SMT
  <2>4. Unwritten(p)' = n
    BY <1>1, <1>3, <2>1, <2>2, <2>3, SMT DEF Unwritten, Writing
  <2>5. made[b] = taken[p] + buffer[p] + queue[p]
    <3>1. Unwritten(p) = 0 /\ pc[b] \in Running
      BY <1>3, UnwrittenType DEF Running
    <3> QED
      BY <1>3, <3>1, SMT DEF Kept
  <2>6. made'[b] = made[b] + n
    BY <1>1
  <2> QED
    BY <1>3, <2>4, <2>5, <2>6 DEF Kept
<1> QED
  BY <1>2, <1>3

LEMMA SumType ==
  ASSUME TypeOK, NEW p \in Pipes
  PROVE  /\ taken[p] \in Nat /\ buffer[p] \in Nat /\ queue[p] \in Nat
         /\ taken[p] + buffer[p] + queue[p] \in Nat
<1>1. taken[p] \in Nat /\ buffer[p] \in Nat /\ queue[p] \in Nat
  BY ConstantTypes, SMT DEF TypeOK
<1> QED
  BY <1>1, SMT

\* A read moves samples of its inputs, and gives what it makes to its readers.
LEMMA ReadKept ==
  ASSUME TypeOK, EverySampleKept, NEW b \in Blocks, Read(b)
  PROVE  EverySampleKept'
<1> SUFFICES ASSUME NEW p \in Pipes PROVE Kept(p)'
  BY KeptDef DEF EverySampleKept, Kept, Running
<1>1. PICK n \in 0 .. BufferSize :
        /\ queue' = [q \in Pipes |-> IF q \in Ins(b) THEN queue[q] - Moved(q) ELSE queue[q]]
        /\ buffer' = [q \in Pipes |-> IF q \in Ins(b) THEN Held(q) - n ELSE buffer[q]]
        /\ taken' = [q \in Pipes |-> IF q \in Ins(b) THEN taken[q] + n ELSE taken[q]]
        /\ \/ n = 0 /\ UNCHANGED <<pc, made, target, vector, written>>
           \/ n > 0 /\ \E q \in Ins(b) : Give(b, MadeOf(b, taken[q] + n) - MadeOf(b, taken[q]))
  BY DEF Read
<1>2. n \in Nat
  BY ConstantTypes, SMT
<1>3. Kept(p) /\ pc[b] = "read"
  BY KeptDef DEF Read
<1>4. (taken[p] + buffer[p] + queue[p])' = taken[p] + buffer[p] + queue[p]
  <2>1. CASE p \in Ins(b)
    <3>1. taken'[p] = taken[p] + n /\ buffer'[p] = Held(p) - n /\ queue'[p] = queue[p] - Moved(p)
      BY <1>1, <2>1
    <3>2. Held(p) = buffer[p] + Moved(p) /\ Moved(p) \in Int
      BY MovedType, SumType, SMT
    <3> QED
      BY <1>2, <3>1, <3>2, SumType, SMT
  <2>2. CASE p \notin Ins(b)
    BY <1>1, <2>2
  <2> QED
    BY <2>1, <2>2
<1>5. CASE n = 0
  <2>1. UNCHANGED <<pc, made, target, vector, written>>
    BY <1>1, <1>5
  <2>2. Unwritten(p)' = Unwritten(p)
    BY <2>1, UnwrittenSame
  <2> QED
    BY <1>3, <1>4, <2>1, <2>2 DEF Kept
<1>6. CASE n # 0
  <2>1. PICK q \in Ins(b) : Give(b, MadeOf(b, taken[q] + n) - MadeOf(b, taken[q]))
    BY <1>1, <1>6
  <2>2. MadeOf(b, taken[q] + n) - MadeOf(b, taken[q]) \in Nat
    BY <1>2, SumType, MadeOfType DEF Ins
  <2> QED
    BY <1>3, <1>4, <2>1, <2>2, SumType, GiveKept
<1> QED
  BY <1>5, <1>6

LEMMA WriteSomeKept ==
  ASSUME TypeOK, EverySampleKept, NEW b \in Blocks, WriteSome(b)
  PROVE  EverySampleKept'
<1> SUFFICES ASSUME NEW p \in Pipes PROVE Kept(p)'
  BY KeptDef DEF EverySampleKept, Kept, Running
<1> DEFINE t == TargetPipe(b)
           n == Lesser(vector[b] - written[b], PipeSize - queue[t])
<1>1. t \in Pipes /\ t[1] = b /\ Position(t) = target[b] /\ target[b] \in DOMAIN Outs[b]
      /\ \A q \in Pipes : q[1] = b /\ Position(q) = target[b] => q = t
  BY TargetPipeType DEF WriteSome, Writing
<1>2. /\ pc[b] = "write"
      /\ queue' = [queue EXCEPT ![t] = @ + n]
      /\ written' = [written EXCEPT ![b] = @ + n]
      /\ UNCHANGED <<pc, buffer, taken, made, target, vector, pending>>
  BY DEF WriteSome, Writing
<1>3. n \in Int
  <2>1. vector[b] \in Nat /\ written[b] \in Nat /\ queue[t] \in Nat /\ PipeSize \in Nat
    BY <1>1, ConstantTypes, SumType DEF TypeOK
  <2> QED
    BY <2>1, SMT DEF Lesser
<1> HIDE DEF n, t
<1>4. Kept(p) /\ queue \in [Pipes -> 0 .. PipeSize] /\ written \in [Blocks -> Nat]
  BY KeptDef DEF TypeOK
<1>5. CASE p = t
  <2>1. queue'[p] = queue[p] + n /\ written'[b] = written[b] + n
    BY <1>1, <1>2, <1>4, <1>5
  <2>2. Unwritten(p) = vector[b] - written[b] /\ Unwritten(p)' = vector[b] - written'[b]
    <3>1. Position(p) = target[b] /\ Position(p)' = Position(p) /\ p[1] = b
      BY <1>1, <1>5 DEF Position
    <3>2. target[b] \in Nat /\ Writing(b) /\ Writing(b)'
      BY <1>1, <1>2 DEF TypeOK, Writing
    <3>3. vector[b] \in Nat /\ written[b] \in Nat /\ target'[b] = target[b] /\ vector'[b] = vector[b]
      BY <1>2 DEF TypeOK
    <3> QED
      BY <3>1, <3>2, <3>3, SMT DEF Unwritten
  <2>3. vector[b] \in Nat /\ written[b] \in Nat /\ made[b] \in Nat
    BY DEF TypeOK
  <2>4. made[b] = taken[p] + buffer[p] + queue[p] + Unwritten(p)
    BY <1>1, <1>2, <1>4, <1>5 DEF Kept, Running
  <2>5. made'[b] = taken'[p] + buffer'[p] + queue'[p] + Unwritten(p)'
    BY <1>2, <1>3, <2>1, <2>2, <2>3, <2>4, SumType, SMT
  <2> QED
    BY <1>1, <1>5, <2>5 DEF Kept
<1>6. CASE p # t
  <2>1. queue'[p] = queue[p]
    BY <1>2, <1>4, <1>6
  <2>2. Unwritten(p)' = Unwritten(p)
    <3>1. CASE p[1] # b
      BY <1>2, <1>4, <3>1, UnwrittenSame
    <3>2. CASE p[1] = b
      <4>1. Position(p) # target[b] /\ Position(p)' = Position(p)
        BY <1>1, <1>6, <3>2 DEF Position
      <4> QED
        BY <1>2, <3>2, <4>1 DEF Unwritten, Writing
    <3> QED
      BY <3>1, <3>2
  <2> QED
    BY <1>2, <1>4, <2>1, <2>2 DEF Kept
<1> QED
  BY <1>5, <1>6

LEMMA WriteNextKept ==
  ASSUME TypeOK, EverySampleKept, NEW b \in Blocks, WriteNext(b)
  PROVE  EverySampleKept'
<1> SUFFICES ASSUME NEW p \in Pipes PROVE Kept(p)'
  BY KeptDef DEF EverySampleKept, Kept, Running
<1>1. /\ pc[b] = "write" /\ target[b] \in DOMAIN Outs[b] /\ written[b] = vector[b]
      /\ target' = [target EXCEPT ![b] = @ + 1] /\ written' = [written EXCEPT ![b] = 0]
      /\ UNCHANGED <<pc, queue, buffer, taken, made, vector, pending>>
  BY DEF WriteNext, Writing
<1>2. Kept(p) /\ target \in [Blocks -> Nat] /\ written \in [Blocks -> Nat]
      /\ vector \in [Blocks -> Nat]
  BY KeptDef DEF TypeOK
<1>3. Unwritten(p)' = Unwritten(p)
  <2>1. CASE p[1] # b
    BY <1>1, <1>2, <2>1, UnwrittenSame
  <2>2. CASE p[1] = b
    <3>1. Position(p)' = Position(p) /\ Position(p) \in 1 .. Len(Outs[b])
          /\ Len(Outs[b]) \in Nat /\ DOMAIN Outs[b] = 1 .. Len(Outs[b])
      <4>1. Position(p)' = Position(p)
        BY DEF Position
      <4>2. Outs[b] \in Seq(Blocks)
        BY BlockTypes
      <4> QED
        BY <2>2, <4>1, <4>2, PositionType
    <3>2. target'[b] = target[b] + 1 /\ written'[b] = 0 /\ vector'[b] = vector[b] /\ pc'[b] = pc[b]
          /\ target[b] \in Nat /\ vector[b] \in Nat /\ written[b] = vector[b] /\ pc[b] = "write"
      BY <1>1, <1>2
    <3>3. Writing(b) /\ (Writing(b)' <=> target'[b] \in DOMAIN Outs[b])
      BY <1>1, <3>2 DEF Writing
    <3>4. CASE Position(p) <= target[b]
      <4>1. Unwritten(p)' = 0
        BY <2>2, <3>1, <3>2, <3>4, SMT DEF Unwritten
      <4>2. Unwritten(p) = 0
        BY <2>2, <3>1, <3>2, <3>3, <3>4, SMT DEF Unwritten
      <4> QED
        BY <4>1, <4>2
    <3>5. CASE Position(p) > target[b]
      <4>1. Writing(b)'
        BY <3>1, <3>2, <3>3, <3>5, SMT
      <4>2. Unwritten(p) = vector[b]
        BY <2>2, <3>1, <3>2, <3>3, <3>5, SMT DEF Unwritten
      <4>3. Unwritten(p)' = vector[b]
        BY <2>2, <3>1, <3>2, <3>5, <4>1, SMT DEF Unwritten
      <4> QED
        BY <4>2, <4>3
    <3> QED
      BY <3>1, <3>2, <3>4, <3>5, SMT
  <2> QED
    BY <2>1, <2>2
<1> QED
  BY <1>1, <1>2, <1>3 DEF Kept

LEMMA BlockKept ==
  ASSUME TypeOK, EverySampleKept, NEW b \in Blocks, BlockActions(b)
  PROVE  EverySampleKept'
<1> USE DEF Running, Ends
<1>0. Alive(b)
  BY BlockRuns
<1>1. CASE CloseOthers(b) \/ (WriteDone(b) /\ ~Exit(b, "shutdown"))
  <2> SUFFICES ASSUME NEW p \in Pipes PROVE Kept(p)'
    BY KeptDef DEF EverySampleKept, Kept
  <2>1. /\ pc' = [pc EXCEPT ![b] = "read"] /\ pc \in [Blocks -> States]
        /\ UNCHANGED <<queue, buffer, taken, made, target, vector, written>>
        /\ ~Writing(b) /\ pc[b] \in {"born", "write"}
    BY <1>1 DEF CloseOthers, WriteDone, Writing, TypeOK
  <2>2. Kept(p)
    BY KeptDef
  <2>3. CASE p[1] # b
    <3>1. pc'[p[1]] = pc[p[1]] /\ Unwritten(p)' = Unwritten(p)
      BY <2>1, <2>3, UnwrittenSame
    <3> QED
      BY <2>1, <2>2, <3>1 DEF Kept
  <2>4. CASE p[1] = b
    <3>1. Unwritten(p) = 0 /\ Unwritten(p)' = 0
      BY <2>1, <2>4 DEF Unwritten, Writing
    <3> QED
      BY <2>1, <2>2, <2>4, <3>1 DEF Kept
  <2> QED
    BY <2>3, <2>4
<1>2. CASE Produce(b)
  <2> SUFFICES ASSUME NEW p \in Pipes PROVE Kept(p)'
    BY KeptDef DEF EverySampleKept, Kept
  <2>1. PICK n \in 1 .. Chunk : Give(b, n)
    BY <1>2 DEF Produce
  <2>2. n \in Nat
    BY ConstantTypes, SMT
  <2>3. UNCHANGED <<queue, buffer, taken>> /\ pc[b] = "read"
    BY <1>2 DEF Produce
  <2>4. Kept(p)
    BY KeptDef
  <2> QED
    BY <2>1, <2>2, <2>3, <2>4, SumType, GiveKept
<1>3. CASE ProduceNoMore(b) \/ ReadEof(b) \/ ReadShutdown(b)
  <2>1. PICK why \in {"own", "eof", "shutdown"} : Exit(b, why) /\ pc[b] = "read"
    BY <1>3 DEF ProduceNoMore, ReadEof, ReadShutdown
  <2> QED
    BY <1>0, <2>1, ExitKept
<1>4. CASE Read(b)
  BY <1>4, ReadKept
<1>5. CASE WriteSome(b)
  BY <1>5, WriteSomeKept
<1>6. CASE WriteNext(b)
  BY <1>6, WriteNextKept
<1>7. CASE WriteEof(b) \/ Die(b) \/ Exit(b, "shutdown")
  <2>1. PICK why \in {"downstream", "shutdown", "killed"} : Exit(b, why)
    BY <1>7 DEF WriteEof, Die
  <2> QED
    BY <1>0, <2>1, ExitKept
<1> QED
  BY <1>1, <1>2, <1>3, <1>4, <1>5, <1>6, <1>7 DEF BlockActions

\* The block that is forked has not run before.
LEMMA ForkKept ==
  ASSUME TypeOK, NotForked, EverySampleKept, Fork
  PROVE  EverySampleKept' /\ NotForked'
<1>1. /\ pc' = [pc EXCEPT ![Order[forked + 1]] = "born"] /\ pc \in [Blocks -> States]
      /\ forked' = forked + 1 /\ forked \in Nat
      /\ forked + 1 \in DOMAIN Order /\ Order[forked + 1] \in Blocks
      /\ UNCHANGED <<queue, buffer, taken, made, target, vector, written>>
  BY ForkedBlock DEF Fork, TypeOK
<1>2. forked + 1 > forked
  BY <1>1, SMT
<1>3. pc[Order[forked + 1]] = "unborn"
  BY <1>1, <1>2 DEF NotForked
<1>4. NotForked'
  <2> SUFFICES ASSUME NEW i \in DOMAIN Order, i > forked + 1 PROVE pc'[Order[i]] = "unborn"
    BY <1>1 DEF NotForked
  <2>1. i > forked /\ i # forked + 1
    BY <1>1, ConstantTypes, SMT
  <2>2. Order[i] # Order[forked + 1]
    <3>1. \A k \in DOMAIN Order, j \in DOMAIN Order : Order[k] = Order[j] => k = j
      BY FlowGraphAssumption
    <3> QED
      BY <1>1, <2>1, <3>1
  <2>3. pc[Order[i]] = "unborn" /\ Order[i] \in Blocks
    BY <2>1 DEF NotForked, Blocks
  <2> QED
    BY <1>1, <2>2, <2>3
<1>5. EverySampleKept'
  <2> SUFFICES ASSUME NEW p \in Pipes PROVE Kept(p)'
    BY KeptDef DEF EverySampleKept, Kept, Running
  <2>1. Kept(p)
    BY KeptDef
  <2>2. CASE p[1] # Order[forked + 1]
    <3>1. pc'[p[1]] = pc[p[1]] /\ Unwritten(p)' = Unwritten(p)
      BY <1>1, <2>2, UnwrittenSame
    <3> QED
      BY <1>1, <2>1, <3>1 DEF Kept
  <2>3. CASE p[1] = Order[forked + 1]
    <3>1. Unwritten(p) = 0 /\ Unwritten(p)' = 0
      BY <1>1, <1>3, <2>3 DEF Unwritten, Writing
    <3> QED
      BY <1>1, <1>3, <2>1, <2>3, <3>1 DEF Kept, Running
  <2> QED
    BY <2>2, <2>3
<1> QED
  BY <1>4, <1>5

LEMMA SameKept ==
  ASSUME NotForked, EverySampleKept, UNCHANGED <<block, forked>>
  PROVE  EverySampleKept' /\ NotForked'
<1>1. UNCHANGED <<pc, queue, buffer, taken, made, target, vector, written, forked>>
  BY DEF block
<1>2. \A p \in Pipes : Unwritten(p)' = Unwritten(p)
  BY <1>1, UnwrittenSame
<1>3. EverySampleKept'
  BY <1>1, <1>2 DEF EverySampleKept
<1>4. NotForked'
  BY <1>1 DEF NotForked
<1> QED
  BY <1>3, <1>4

LEMMA NextKept ==
  ASSUME TypeOK, NotForked, EverySampleKept, [Next]_vars
  PROVE  EverySampleKept' /\ NotForked'
<1>1. ASSUME NEW b \in Blocks, BlockActions(b), UNCHANGED host
      PROVE  EverySampleKept' /\ NotForked'
  <2>1. NotForked'
    <3> SUFFICES ASSUME NEW i \in DOMAIN Order, i > forked PROVE pc'[Order[i]] = "unborn"
      BY <1>1 DEF NotForked, host
    <3>1. pc[Order[i]] = "unborn" /\ Order[i] \in Blocks
      BY DEF NotForked, Blocks
    <3> QED
      BY <1>1, <3>1, BlockRuns DEF Alive
  <2> QED
    BY <1>1, <2>1, BlockKept
<1>2. CASE HostActions \/ UNCHANGED vars
  <2>1. UNCHANGED <<block, forked>>
    BY <1>2 DEF HostActions, Started, Wait, Interrupted, ChildExited, Reap, NextExited, TimeOut,
                CallStop, CallStatus, PressInterrupt, Stop, vars, host
  <2> QED
    BY <2>1, SameKept
<1> QED
  BY <1>1, <1>2, ForkKept, NextSplit

LEMMA InitKept == Init => NotForked /\ EverySampleKept
<1> SUFFICES ASSUME Init PROVE NotForked /\ EverySampleKept
  OBVIOUS
<1>1. NotForked
  BY DEF Init, NotForked, Blocks
<1>2. ASSUME NEW p \in Pipes PROVE Kept(p)
  <2>1. Unwritten(p) = 0 /\ made[p[1]] = 0 /\ taken[p] = 0 /\ buffer[p] = 0 /\ queue[p] = 0
    BY PipeEnds DEF Init, Unwritten, Writing
  <2> QED
    BY <2>1, SMT DEF Kept
<1> QED
  BY <1>1, <1>2, KeptDef

(* In every graph, whatever the sizes and however its processes are scheduled,
   each reader of a block gets every sample that the block makes. *)
THEOREM SamplesKept == Spec => []EverySampleKept
<1>1. Init => TypeOK /\ NotForked /\ EverySampleKept
  BY InitType, InitKept
<1>2. TypeOK /\ NotForked /\ EverySampleKept /\ [Next]_vars
        => (TypeOK /\ NotForked /\ EverySampleKept)'
  BY NextType, NextKept
<1> QED
  BY <1>1, <1>2, PTL DEF Spec

-------------------------------------------------------------------------------
(* A graph without joins ends naturally. *)

(***************************************************************************)
(* No block reads from two others, and the sources end by themselves unless *)
(* there is only one. In other graphs a block may starve: a join of two     *)
(* branches, of which one holds back more samples than the pipes of the     *)
(* other hold, waits for ever, and one endless source keeps its branch from *)
(* ending with the others.                                                  *)
(***************************************************************************)
Joinless ==
  /\ \A p, q \in Pipes : p[2] = q[2] => p = q
  /\ Endless = {} \/ \A a, b \in Sources : a = b

(* A block processes all that it reads. A graph that is not stopped ends from its
   sources on: a block that has ended has read all that came, and so did those before
   it; none is killed, since the parent's wait times out only when all have ended. *)
Drained(p) ==
  /\ buffer[p] = 0
  /\ ~stopped /\ Exited(p[2]) => Exited(p[1]) /\ taken[p] = made[p[1]]

Natural ==
  /\ endless \subseteq Endless
  /\ parent # "fork" => forked = Len(Order)
  /\ \A i \in DOMAIN Order : i <= forked => pc[Order[i]] # "unborn"
  /\ \A p \in Pipes : Drained(p)
  /\ "SIGCHLD" \in pending => \E b \in Blocks : Exited(b)
  /\ \A b \in Blocks : pc[b] = "eof" => b \notin Sources
  /\ ~stopped =>
       /\ \A b \in Blocks : Exited(b) => pc[b] \in {"own", "eof"}
       /\ terminated = {}
       /\ timedOut => AllExited
       /\ parent \in {"reap", "timed"} => AllExited \/ \E b \in Blocks : Exited(b)

LEMMA Least ==
  ASSUME NEW T, T \subseteq Nat, T # {}
  PROVE  \E x \in T : \A y \in T : x <= y
<1> DEFINE R == OpToRel(<, Nat)
<1>1. IsWellFoundedOn(R, Nat)
  BY NatLessThanWellFounded
<1>2. \A x, y \in Nat : x < y => <<x, y>> \in R
  BY DEF OpToRel
<1> HIDE DEF R
<1>3. PICK x \in T : \A y \in T : ~(<<y, x>> \in R)
  BY <1>1, WFMin
<1>4. \A y \in T : y \in Nat
  OBVIOUS
<1>5. \A y \in T : ~(y < x)
  BY <1>2, <1>3, <1>4
<1> QED
  BY <1>4, <1>5

LEMMA Greatest ==
  ASSUME NEW n \in Nat, NEW T, T \subseteq 1 .. n, T # {}
  PROVE  \E x \in T : \A y \in T : y <= x
<1> DEFINE U == {n - x : x \in T}
<1>1. \A x \in T : x \in 1 .. n /\ n - x \in Nat
  OBVIOUS
<1>2. U \subseteq Nat /\ U # {}
  BY <1>1
<1> HIDE DEF U
<1>3. PICK u \in U : \A v \in U : u <= v
  BY <1>2, Least
<1>4. PICK x \in T : u = n - x
  BY <1>3 DEF U
<1>5. ASSUME NEW y \in T PROVE y <= x
  <2>1. n - y \in U
    BY DEF U
  <2> QED
    BY <1>1, <1>3, <1>4, <2>1
<1> QED
  BY <1>5

\* A writer comes before its readers.
LEMMA PipesForward ==
  ASSUME NEW p \in Pipes
  PROVE  \E i, j \in DOMAIN Order : p[1] = Order[i] /\ p[2] = Order[j] /\ i < j
<1>1. PICK i \in DOMAIN Order : Order[i] = p[1]
  BY PipeEnds DEF Blocks
<1>2. PICK j \in DOMAIN Order : Order[j] = p[2]
  BY PipeEnds DEF Blocks
<1>3. <<Order[i], Order[j]>> \in Pipes
  BY <1>1, <1>2, PipeEnds
<1>4. \A k \in DOMAIN Order, l \in DOMAIN Order : <<Order[k], Order[l]>> \in Pipes => k < l
  BY FlowGraphAssumption
<1> QED
  BY <1>1, <1>2, <1>3, <1>4

LEMMA OneIndex ==
  ASSUME NEW i \in DOMAIN Order, NEW j \in DOMAIN Order, Order[i] = Order[j]
  PROVE  i = j
<1>1. \A k \in DOMAIN Order, l \in DOMAIN Order : Order[k] = Order[l] => k = l
  BY FlowGraphAssumption
<1> QED
  BY <1>1

LEMMA OrderDomain == DOMAIN Order = 1 .. Len(Order) /\ Len(Order) \in Nat
  BY ConstantTypes

\* Nobody can go on, but one block has ended: then all have.
LEMMA NoDeadlock ==
  ASSUME TypeOK, Natural, Joinless, ~stopped, parent # "fork",
         NEW e \in Blocks, Exited(e), \A b \in Blocks : ~CanGoOn(b)
  PROVE  AllExited
<1> SUFFICES ASSUME ~AllExited PROVE FALSE
  OBVIOUS
<1>1. \A b \in Blocks : pc[b] # "unborn" /\ pc[b] # "born"
  <2> SUFFICES ASSUME NEW b \in Blocks PROVE pc[b] # "unborn" /\ pc[b] # "born"
    OBVIOUS
  <2>1. PICK i \in DOMAIN Order : b = Order[i]
    BY DEF Blocks
  <2>2. i <= forked
    BY <2>1, OrderDomain DEF Natural
  <2> QED
    BY <2>1, <2>2 DEF Natural, CanGoOn
<1>2. \A b \in Blocks : Alive(b) \/ Exited(b)
  BY <1>1 DEF TypeOK, States, Alive, Exited
<1>3. ~HeldByOthers /\ ~Shutdown /\ terminated = {}
  BY <1>1 DEF HeldByOthers, Shutdown, Natural
<1>4. ASSUME NEW p \in Pipes
      PROVE  /\ buffer[p] = 0 /\ queue[p] \in Nat /\ Moved(p) \in Nat /\ Held(p) = Moved(p)
             /\ Moved(p) = 0 <=> queue[p] = 0
  <2>1. buffer[p] = 0 /\ queue[p] \in Nat /\ BufferSize \in Nat /\ BufferSize > 0
    <3>1. BufferSize \in Nat \ {0} /\ PipeSize \in Nat
      BY FlowGraphAssumption
    <3>2. queue[p] \in 0 .. PipeSize
      BY DEF TypeOK
    <3> QED
      BY <3>1, <3>2 DEF Natural, Drained
  <2>2. BufferSize - buffer[p] = BufferSize /\ BufferSize # 0
    BY <2>1
  <2>3. Moved(p) = IF queue[p] <= BufferSize THEN queue[p] ELSE BufferSize
    BY <2>2 DEF Moved, Lesser
  <2> QED
    BY <2>1, <2>2, <2>3 DEF Held
\* A block that waits to write waits for one that waits to write.
<1>5. ASSUME NEW b \in Blocks, pc[b] = "write"
      PROVE  \E p \in Pipes : p[1] = b /\ pc[p[2]] = "write"
  <2>1. Writing(b) /\ written[b] # vector[b]
    BY <1>5 DEF CanGoOn
  <2> DEFINE p == TargetPipe(b)
  <2>2. p \in Pipes /\ p[1] = b
    BY <2>1, TargetPipeType DEF Writing
  <2>3. ~ReaderEnded(p) /\ ~(queue[p] < PipeSize)
    BY <2>1 DEF CanGoOn
  <2> HIDE DEF p
  <2>4. queue[p] > 0
    <3>1. PipeSize \in Nat /\ PipeSize # 0
      BY FlowGraphAssumption
    <3> QED
      BY <1>4, <2>2, <2>3, <3>1
  <2>5. p[2] \in Blocks /\ Alive(p[2]) /\ pc[p[2]] # "born"
    BY <1>1, <1>2, <1>3, <2>2, <2>3, PipeEnds DEF ReaderEnded
  <2>6. pc[p[2]] # "read"
    <3>1. p \in Ins(p[2]) /\ p[2] \notin Sources
      BY <2>2 DEF Ins, Sources
    <3>2. Moved(p) > 0
      BY <1>4, <2>2, <2>4
    <3> QED
      BY <2>5, <3>1, <3>2 DEF CanGoOn
  <2> QED
    BY <2>2, <2>5, <2>6 DEF Alive
<1>6. \A b \in Blocks : pc[b] # "write"
  <2> DEFINE T == {i \in DOMAIN Order : pc[Order[i]] = "write"}
  <2> SUFFICES ASSUME T # {} PROVE FALSE
    BY DEF Blocks
  <2>1. PICK m \in T : \A i \in T : i <= m
    BY OrderDomain, Greatest
  <2>2. PICK p \in Pipes : p[1] = Order[m] /\ pc[p[2]] = "write"
    BY <1>5 DEF Blocks
  <2>3. PICK i, j \in DOMAIN Order : p[1] = Order[i] /\ p[2] = Order[j] /\ i < j
    BY PipesForward
  <2>4. i = m /\ j \in T
    BY <2>2, <2>3, OneIndex
  <2> QED
    BY <2>1, <2>3, <2>4, OrderDomain
\* The first block that has not ended would wait for one that has.
<1>7. PICK f \in DOMAIN Order : Alive(Order[f])
                               /\ \A i \in DOMAIN Order : Alive(Order[i]) => f <= i
  <2> DEFINE T == {i \in DOMAIN Order : Alive(Order[i])}
  <2>1. T # {} /\ T \subseteq Nat
    BY <1>2, OrderDomain DEF AllExited, Blocks
  <2> QED
    BY <2>1, Least
<1> DEFINE b == Order[f]
<1>8. b \in Blocks /\ pc[b] = "read"
  BY <1>1, <1>6, <1>7 DEF Alive, Blocks
<1>9. CASE b \notin Sources
  <2>1. PICK p \in Pipes : p[2] = b
    BY <1>8, <1>9 DEF Sources, Ins
  <2>2. PICK i, j \in DOMAIN Order : p[1] = Order[i] /\ p[2] = Order[j] /\ i < j
    BY PipesForward
  <2>3. j = f
    BY <2>1, <2>2, OneIndex
  <2>4. ~Alive(p[1]) /\ p[1] \in Blocks
    BY <1>7, <2>2, <2>3, OrderDomain, PipeEnds
  <2>5. WriterEnded(p)
    BY <1>2, <1>3, <2>4 DEF WriterEnded
  <2>6. p \in Ins(b)
    BY <2>1 DEF Ins
  <2>7. ~AtEof(p) /\ ~(Moved(p) > 0)
    BY <1>8, <1>9, <2>6 DEF CanGoOn
  <2> QED
    BY <1>4, <2>5, <2>7 DEF AtEof
<1>10. CASE b \in Sources
  <2>1. b \in endless
    BY <1>8, <1>10 DEF CanGoOn
  <2>2. \A a, c \in Sources : a = c
    BY <2>1 DEF Natural, Joinless
  <2>3. PICK g \in DOMAIN Order : Exited(Order[g])
                                  /\ \A i \in DOMAIN Order : Exited(Order[i]) => g <= i
    <3> DEFINE T == {i \in DOMAIN Order : Exited(Order[i])}
    <3>1. T # {} /\ T \subseteq Nat
      BY OrderDomain DEF Blocks
    <3> QED
      BY <3>1, Least
  <2>4. Order[g] \in Blocks /\ Order[g] \notin Sources
    BY <1>8, <1>10, <2>2, <2>3 DEF Blocks, Exited, Ends
  <2>5. PICK p \in Pipes : p[2] = Order[g]
    BY <2>4 DEF Sources, Ins
  <2>6. Exited(p[1])
    BY <2>3, <2>5 DEF Natural, Drained
  <2>7. PICK i, j \in DOMAIN Order : p[1] = Order[i] /\ p[2] = Order[j] /\ i < j
    BY PipesForward
  <2>8. j = g /\ g <= i
    BY <2>3, <2>5, <2>6, <2>7, OneIndex
  <2> QED
    BY <2>7, <2>8, OrderDomain
<1> QED
  BY <1>9, <1>10

\* What a step of b leaves alone.
LEMMA BlockData ==
  ASSUME TypeOK, Joinless, NEW b \in Blocks, BlockActions(b)
  PROVE  /\ \A p \in Pipes : p[2] # b => taken'[p] = taken[p]
         /\ \A p \in Pipes : buffer[p] = 0 => buffer'[p] = 0
         /\ \A c \in Blocks \ {b} : made'[c] = made[c]
         /\ pc'[b] \in Ends => UNCHANGED <<taken, made>>
         /\ "SIGCHLD" \in pending' => "SIGCHLD" \in pending \/ pc'[b] \in Ends
         /\ pc'[b] # "unborn"
<1>1. CASE CloseOthers(b)
  BY <1>1 DEF CloseOthers, TypeOK
<1>2. CASE Produce(b)
  BY <1>2 DEF Produce, Give, TypeOK, Ends
<1>3. CASE ProduceNoMore(b) \/ ReadEof(b) \/ ReadShutdown(b) \/ WriteEof(b) \/ Die(b)
  <2>1. \E why \in Ends : Exit(b, why)
    BY <1>3 DEF ProduceNoMore, ReadEof, ReadShutdown, WriteEof, Die, Ends
  <2> QED
    BY <2>1 DEF Exit, TypeOK, Ends
<1>4. CASE Read(b)
  <2>1. PICK n \in 0 .. BufferSize :
          /\ Available(b, n)
          /\ buffer' = [p \in Pipes |-> IF p \in Ins(b) THEN Held(p) - n ELSE buffer[p]]
          /\ taken' = [p \in Pipes |-> IF p \in Ins(b) THEN taken[p] + n ELSE taken[p]]
          /\ \/ n = 0 /\ UNCHANGED <<pc, made, target, vector, written>>
             \/ n > 0 /\ \E p \in Ins(b) : Give(b, MadeOf(b, taken[p] + n) - MadeOf(b, taken[p]))
    BY <1>4 DEF Read
  <2>2. \A p \in Ins(b) : Held(p) = n /\ Held(p) \in Nat
    <3>1. PICK q \in Ins(b) : n = Held(q)
      BY <2>1 DEF Available
    <3>2. \A p \in Ins(b) : p = q
      BY DEF Joinless, Ins
    <3> QED
      BY <2>1, <3>1, <3>2
  <2>3. \A p \in Pipes : buffer[p] = 0 => buffer'[p] = 0
    BY <2>1, <2>2
  <2>4. \A p \in Pipes : p[2] # b => taken'[p] = taken[p]
    BY <2>1 DEF Ins
  <2>5. /\ \A c \in Blocks \ {b} : made'[c] = made[c]
        /\ pc'[b] \in {"read", "write"}
    BY <1>4, <2>1 DEF Read, Give, TypeOK
  <2>6. pending' = pending
    BY <1>4 DEF Read
  <2> QED
    BY <2>3, <2>4, <2>5, <2>6 DEF Ends
<1>5. CASE WriteSome(b) \/ WriteNext(b)
  BY <1>5 DEF WriteSome, WriteNext, Writing, Ends
<1>6. CASE WriteDone(b)
  <2>1. CASE Exit(b, "shutdown")
    BY <2>1 DEF Exit, TypeOK, Ends
  <2>2. CASE /\ pc' = [pc EXCEPT ![b] = "read"]
             /\ UNCHANGED <<queue, buffer, taken, made, target, vector, written, pending>>
    BY <2>2 DEF TypeOK, Ends
  <2> QED
    BY <1>6, <2>1, <2>2 DEF WriteDone
<1> QED
  BY <1>1, <1>2, <1>3, <1>4, <1>5, <1>6 DEF BlockActions

\* Why a block of a graph that is not stopped ends.
LEMMA BlockEnds ==
  ASSUME TypeOK, EverySampleKept, Natural, ~stopped, NEW b \in Blocks, BlockActions(b),
         pc'[b] \in Ends
  PROVE  /\ pc'[b] \in {"own", "eof"}
         /\ \A p \in Ins(b) : Joinless => Exited(p[1]) /\ taken[p] = made[p[1]]
<1>1. CASE ProduceNoMore(b)
  BY <1>1 DEF ProduceNoMore, Exit, TypeOK, Sources
<1>2. CASE ReadEof(b)
  <2>1. pc'[b] = "eof"
    BY <1>2 DEF ReadEof, Exit, TypeOK
  <2>2. PICK q \in Ins(b) : AtEof(q)
    BY <1>2 DEF ReadEof
  <2>3. q \in Pipes /\ q[1] \in Blocks /\ Exited(q[1])
    BY <2>2, PipeEnds DEF AtEof, WriterEnded, Ins
  <2>4. pc[q[1]] \in {"own", "eof"}
    BY <2>3 DEF Natural
  <2>5. made[q[1]] = taken[q] + buffer[q] + queue[q] + Unwritten(q)
    BY <2>3, <2>4 DEF EverySampleKept
  <2>6. Unwritten(q) = 0
    BY <2>3, <2>4, UnwrittenType
  <2>7. buffer[q] = 0 /\ queue[q] = 0
    <3>1. buffer[q] \in 0 .. BufferSize /\ queue[q] \in 0 .. PipeSize
      BY <2>3 DEF TypeOK
    <3>2. BufferSize \in Nat \ {0} /\ PipeSize \in Nat
      BY FlowGraphAssumption
    <3>3. Held(q) = 0 /\ Held(q) = buffer[q] + Moved(q) /\ Moved(q) \in 0 .. queue[q]
      BY <2>2, <2>3, MovedType DEF AtEof
    <3>4. buffer[q] = 0 /\ Moved(q) = 0
      BY <3>1, <3>2, <3>3
    <3> QED
      BY <3>1, <3>2, <3>4 DEF Moved, Lesser
  <2>8. taken[q] = made[q[1]]
    <3>1. taken[q] \in Nat
      BY <2>3 DEF TypeOK
    <3> QED
      BY <2>5, <2>6, <2>7, <3>1
  <2>9. Joinless => \A p \in Ins(b) : p = q
    BY DEF Joinless, Ins
  <2> QED
    BY <2>1, <2>3, <2>8, <2>9
<1>3. CASE ReadShutdown(b)
  BY <1>3 DEF ReadShutdown, Shutdown
<1>4. CASE WriteEof(b)
  <2>1. Alive(b) /\ target[b] \in DOMAIN Outs[b] /\ ReaderEnded(TargetPipe(b))
    BY <1>4 DEF WriteEof, Writing, Alive
  <2>2. TargetPipe(b) \in Pipes /\ TargetPipe(b)[1] = b
    BY <2>1, TargetPipeType
  <2>3. Exited(b)
    BY <2>1, <2>2 DEF ReaderEnded, Natural, Drained
  <2> QED
    BY <2>1, <2>3 DEF Alive, Exited, Ends
<1>5. CASE WriteDone(b)
  BY <1>5 DEF WriteDone, Shutdown, TypeOK, Ends
<1>6. CASE Die(b)
  BY <1>6 DEF Die, Natural
<1>7. CASE CloseOthers(b) \/ WriteSome(b) \/ WriteNext(b)
  BY <1>7 DEF CloseOthers, WriteSome, WriteNext, Writing, TypeOK, Ends
<1>8. CASE Produce(b)
  BY <1>8 DEF Produce, Give, TypeOK, Ends
<1>9. CASE Read(b)
  <2>1. pc'[b] \in {"read", "write"}
    <3>1. \/ UNCHANGED pc
          \/ pc' = [pc EXCEPT ![b] = "write"]
      BY <1>9 DEF Read, Give
    <3> QED
      BY <1>9, <3>1 DEF Read, TypeOK
  <2> QED
    BY <2>1 DEF Ends
<1> QED
  BY <1>1, <1>2, <1>3, <1>4, <1>5, <1>6, <1>7, <1>8, <1>9 DEF BlockActions

\* A source never ends for want of input.
LEMMA SourceEnds ==
  ASSUME TypeOK, NEW b \in Sources, BlockActions(b)
  PROVE  pc'[b] # "eof"
<1>1. b \in Blocks /\ Ins(b) = {}
  BY DEF Sources
<1>2. CASE Produce(b) \/ Read(b)
  BY <1>1, <1>2 DEF Produce, Read, Give, TypeOK
<1>3. CASE ProduceNoMore(b) \/ ReadEof(b) \/ ReadShutdown(b) \/ Die(b)
  BY <1>1, <1>3 DEF ProduceNoMore, ReadEof, ReadShutdown, Die, Exit, TypeOK
<1>4. CASE WriteEof(b) \/ WriteDone(b)
  BY <1>1, <1>4 DEF WriteEof, WriteDone, Exit, TypeOK
<1>5. CASE CloseOthers(b) \/ WriteSome(b) \/ WriteNext(b)
  BY <1>1, <1>5 DEF CloseOthers, WriteSome, WriteNext, Writing, TypeOK
<1> QED
  BY <1>2, <1>3, <1>4, <1>5 DEF BlockActions

LEMMA BlockNatural ==
  ASSUME TypeOK, EverySampleKept, Natural, Joinless, NEW b \in Blocks, BlockActions(b),
         UNCHANGED host
  PROVE  Natural'
<1>1. /\ Alive(b) /\ ~Exited(b)
      /\ \A c \in Blocks \ {b} : pc'[c] = pc[c]
  BY BlockRuns DEF Alive, Exited, Ends
<1>2. /\ \A p \in Pipes : p[2] # b => taken'[p] = taken[p]
      /\ \A p \in Pipes : buffer[p] = 0 => buffer'[p] = 0
      /\ \A c \in Blocks \ {b} : made'[c] = made[c]
      /\ pc'[b] \in Ends => UNCHANGED <<taken, made>>
      /\ "SIGCHLD" \in pending' => "SIGCHLD" \in pending \/ pc'[b] \in Ends
      /\ pc'[b] # "unborn"
  BY BlockData
<1>3. UNCHANGED <<parent, forked, stopped, timedOut, terminated, endless>>
  BY DEF host
<1>4. /\ \A c \in Blocks \ {b} : Exited(c)' <=> Exited(c)
      /\ Exited(b)' <=> pc'[b] \in Ends
  BY <1>1 DEF Exited
<1>5. ASSUME ~stopped, Exited(b)'
      PROVE  /\ pc'[b] \in {"own", "eof"}
             /\ \A p \in Ins(b) : Exited(p[1]) /\ taken[p] = made[p[1]]
  BY <1>4, <1>5, BlockEnds
<1>6. ASSUME NEW p \in Pipes PROVE Drained(p)'
  <2>1. p[1] \in Blocks /\ p[2] \in Blocks /\ Drained(p) /\ p[1] # p[2]
    BY PipeEnds, NoLoop DEF Natural
  <2>2. buffer'[p] = 0
    BY <1>2, <2>1 DEF Drained
  <2>3. ASSUME ~stopped, Exited(p[2])'
        PROVE  Exited(p[1])' /\ taken'[p] = made'[p[1]]
    <3>1. CASE p[2] = b
      <4>1. Exited(p[1]) /\ taken[p] = made[p[1]]
        BY <1>5, <2>3, <3>1 DEF Ins
      <4>2. p[1] \in Blocks \ {b} /\ UNCHANGED <<taken, made>>
        BY <1>2, <1>4, <2>1, <2>3, <3>1
      <4> QED
        BY <1>4, <4>1, <4>2
    <3>2. CASE p[2] # b
      <4>1. Exited(p[1]) /\ taken[p] = made[p[1]]
        BY <1>4, <2>1, <2>3, <3>2 DEF Drained
      <4>2. p[1] # b
        BY <1>1, <4>1
      <4> QED
        BY <1>2, <1>4, <2>1, <3>2, <4>1, <4>2
    <3> QED
      BY <3>1, <3>2
  <2> QED
    BY <1>3, <2>2, <2>3 DEF Drained
<1>7. \A i \in DOMAIN Order : i <= forked => pc'[Order[i]] # "unborn"
  BY <1>1, <1>2 DEF Natural, Blocks
<1>8. "SIGCHLD" \in pending' => \E c \in Blocks : Exited(c)'
  BY <1>1, <1>2, <1>4 DEF Natural
<1>9. \A c \in Blocks : pc'[c] = "eof" => c \notin Sources
  BY <1>1, SourceEnds DEF Natural
<1>10. ASSUME ~stopped
       PROVE  /\ \A c \in Blocks : Exited(c)' => pc'[c] \in {"own", "eof"}
              /\ timedOut => AllExited'
              /\ parent \in {"reap", "timed"} => AllExited' \/ \E c \in Blocks : Exited(c)'
  <2>1. \A c \in Blocks : Exited(c) => Exited(c)'
    BY <1>1, <1>4
  <2>2. \A c \in Blocks : Exited(c)' => pc'[c] \in {"own", "eof"}
    BY <1>1, <1>4, <1>5, <1>10 DEF Natural
  <2> QED
    BY <1>10, <2>1, <2>2 DEF Natural, AllExited
<1> QED
  BY <1>3, <1>6, <1>7, <1>8, <1>9, <1>10 DEF Natural

\* The state of the blocks alone.
LEMMA SameBlocks ==
  ASSUME UNCHANGED block
  PROVE  /\ \A c \in Blocks : (Exited(c)' <=> Exited(c)) /\ pc'[c] = pc[c]
         /\ AllExited' <=> AllExited
         /\ stopped' = stopped => \A p \in Pipes : Drained(p)' <=> Drained(p)
         /\ stopped' => \A p \in Pipes : Drained(p) => Drained(p)'
<1>1. \A c \in Blocks : (Exited(c)' <=> Exited(c)) /\ pc'[c] = pc[c]
  BY DEF block, Exited
<1>2. AllExited' <=> AllExited
  BY <1>1 DEF AllExited
<1> QED
  BY <1>1, <1>2, PipeEnds DEF block, Drained

LEMMA HostNatural ==
  ASSUME TypeOK, NotForked, Natural, Joinless, Prompt, HostActions \/ UNCHANGED vars
  PROVE  Natural'
<1>0. UNCHANGED <<block, endless, forked>>
  BY DEF HostActions, Started, Wait, Interrupted, ChildExited, Reap, NextExited, TimeOut,
         CallStop, CallStatus, PressInterrupt, Stop, vars, host
<1>1. /\ \A c \in Blocks : (Exited(c)' <=> Exited(c)) /\ pc'[c] = pc[c]
      /\ AllExited' <=> AllExited
      /\ stopped' = stopped => \A p \in Pipes : Drained(p)' <=> Drained(p)
      /\ stopped' => \A p \in Pipes : Drained(p) => Drained(p)'
  BY <1>0, SameBlocks
<1>2. /\ endless' \subseteq Endless
      /\ \A i \in DOMAIN Order : i <= forked' => pc'[Order[i]] # "unborn"
      /\ \A c \in Blocks : pc'[c] = "eof" => c \notin Sources
  BY <1>0, <1>1 DEF Natural, Blocks
<1> DEFINE Parts == /\ stopped' \in {stopped, TRUE}
                    /\ parent' # "fork" => forked = Len(Order)
                    /\ "SIGCHLD" \in pending' => "SIGCHLD" \in pending
                    /\ ~stopped' =>
                         /\ terminated' = {}
                         /\ timedOut' => AllExited
                         /\ parent' \in {"reap", "timed"} =>
                              AllExited \/ \E b \in Blocks : Exited(b)
<1> SUFFICES Parts
  <2> SUFFICES ASSUME Parts PROVE Natural'
    OBVIOUS
  <2>1. \A p \in Pipes : Drained(p)'
    <3>1. \A p \in Pipes : Drained(p)
      BY DEF Natural
    <3> QED
      BY <1>1, <3>1
  <2>2. "SIGCHLD" \in pending' => \E c \in Blocks : Exited(c)'
    BY <1>1 DEF Natural
  <2>3. parent' # "fork" => forked' = Len(Order)
    BY <1>0
  <2>4. ~stopped' => ~stopped
    BY DEF TypeOK
  <2>5. ~stopped' =>
          /\ \A c \in Blocks : Exited(c)' => pc'[c] \in {"own", "eof"}
          /\ terminated' = {}
          /\ timedOut' => AllExited'
          /\ parent' \in {"reap", "timed"} => AllExited' \/ \E c \in Blocks : Exited(c)'
    BY <1>1, <2>4 DEF Natural
  <2> QED
    BY <1>2, <2>1, <2>2, <2>3, <2>5 DEF Natural
<1>3. CASE Started
  BY <1>3 DEF Started, Natural
<1>4. CASE Wait
  BY <1>4 DEF Wait, Natural
<1>5. CASE Interrupted \/ CallStop
  BY <1>5 DEF Interrupted, CallStop, Stop, Natural
<1>6. CASE ChildExited
  BY <1>6 DEF ChildExited, Natural
<1>7. CASE Reap
  BY <1>7 DEF Reap, Natural
<1>8. CASE NextExited
  BY <1>8 DEF NextExited, Natural
<1>9. CASE TimeOut
  <2>1. ~stopped => AllExited
    BY <1>9, NoDeadlock DEF TimeOut, Natural
  <2> QED
    BY <1>9, <2>1 DEF TimeOut, Natural
<1>10. CASE CallStatus
  BY <1>10 DEF CallStatus, Natural
<1>11. CASE PressInterrupt
  BY <1>11 DEF PressInterrupt, host, Natural
<1>12. CASE UNCHANGED vars
  BY <1>12 DEF vars, host, Natural
<1> QED
  BY <1>3, <1>4, <1>5, <1>6, <1>7, <1>8, <1>9, <1>10, <1>11, <1>12 DEF HostActions

LEMMA ForkNatural ==
  ASSUME TypeOK, NotForked, Natural, Fork
  PROVE  Natural'
<1> DEFINE f == Order[forked + 1]
<1>1. /\ f \in Blocks /\ forked + 1 \in DOMAIN Order /\ pc[f] = "unborn"
      /\ forked \in Nat
  <2>1. forked \in 0 .. Len(Order) /\ forked < Len(Order) /\ Len(Order) \in Nat
    BY OrderDomain DEF Fork, TypeOK
  <2>2. forked + 1 \in DOMAIN Order /\ forked + 1 > forked /\ forked \in Nat
    BY <2>1, OrderDomain
  <2> QED
    BY <2>2 DEF NotForked, Blocks
<1>2. /\ pc' = [pc EXCEPT ![f] = "born"] /\ forked' = forked + 1
      /\ UNCHANGED <<queue, buffer, taken, made, pending, parent, stopped, timedOut,
                     terminated, endless>>
      /\ parent = "fork"
  BY DEF Fork
<1>3. pc'[f] = "born" /\ \A c \in Blocks \ {f} : pc'[c] = pc[c]
  BY <1>1, <1>2 DEF TypeOK
<1>4. \A c \in Blocks : Exited(c)' <=> Exited(c)
  BY <1>1, <1>3 DEF Exited, Ends
<1>5. \A p \in Pipes : Drained(p)'
  BY <1>2, <1>4, PipeEnds DEF Drained, Natural
<1>6. \A i \in DOMAIN Order : i <= forked' => pc'[Order[i]] # "unborn"
  <2> SUFFICES ASSUME NEW i \in DOMAIN Order, i <= forked + 1 PROVE pc'[Order[i]] # "unborn"
    BY <1>2
  <2>1. CASE Order[i] = f
    BY <1>3, <2>1
  <2>2. CASE Order[i] # f
    <3>1. i <= forked
      BY <1>1, <2>2, OrderDomain
    <3> QED
      BY <1>3, <2>2, <3>1 DEF Natural, Blocks
  <2> QED
    BY <2>1, <2>2
<1>7. AllExited' <=> AllExited
  BY <1>4 DEF AllExited
<1>8. \A c \in Blocks : /\ pc'[c] = "eof" => c \notin Sources
                        /\ ~stopped /\ Exited(c)' => pc'[c] \in {"own", "eof"}
  BY <1>3, <1>4, <1>1 DEF Natural, Exited, Ends
<1> QED
  BY <1>2, <1>4, <1>5, <1>6, <1>7, <1>8 DEF Natural

(* A graph without joins, of whatever blocks, sizes and delays, that nobody stops: no
   block is killed, and each has processed all that came to it. *)
THEOREM EndsNaturallyAlways ==
  ASSUME Joinless, Prompt
  PROVE  Spec => []EndsNaturally
<1>1. Init => Natural
  <2> SUFFICES ASSUME Init PROVE Natural
    OBVIOUS
  <2>1. \A b \in Blocks : pc[b] = "unborn"
    BY DEF Init
  <2>2. \A p \in Pipes : Drained(p)
    BY <2>1, PipeEnds DEF Init, Drained, Exited, Ends
  <2>3. \A i \in DOMAIN Order : ~(i <= forked)
    BY OrderDomain DEF Init
  <2> QED
    BY <2>1, <2>2, <2>3 DEF Init, Natural, Exited, Ends
<1>2. TypeOK /\ NotForked /\ EverySampleKept /\ Natural /\ [Next]_vars
        => (TypeOK /\ NotForked /\ EverySampleKept /\ Natural)'
  BY NextType, NextKept, NextSplit, BlockNatural, ForkNatural, HostNatural
<1>3. Init => TypeOK /\ NotForked /\ EverySampleKept
  BY InitType, InitKept
<1>4. TypeOK /\ Natural => EndsNaturally
  <2> SUFFICES ASSUME TypeOK, Natural, ~stopped, parent = "done", NEW b \in Blocks
               PROVE  /\ pc[b] # "killed"
                      /\ pc[b] = "eof" => \E p \in Ins(b) : taken[p] = made[p[1]]
    BY DEF EndsNaturally
  <2>1. pc[b] # "killed"
    BY DEF Natural, Exited, Ends
  <2>2. ASSUME pc[b] = "eof" PROVE \E p \in Ins(b) : taken[p] = made[p[1]]
    <3>1. PICK p \in Ins(b) : TRUE
      BY <2>2 DEF Natural, Sources
    <3>2. p \in Pipes /\ Exited(p[2])
      BY <2>2, <3>1 DEF Ins, Exited, Ends
    <3> QED
      BY <3>1, <3>2 DEF Natural, Drained
  <2> QED
    BY <2>1, <2>2
<1> QED
  BY <1>1, <1>2, <1>3, <1>4, PTL DEF Spec
================================================================================
