------------------------------- MODULE FlowGraph -------------------------------
(***************************************************************************)
(* The run of a LuaRadio flow graph (radio/core of the overlay's luaradio): *)
(* CompositeBlock forks one process for each block, the blocks read and     *)
(* write pipes until their inputs end or the control socket closes, and the *)
(* parent waits for a signal and reaps its children.                       *)
(*                                                                         *)
(* Pipes keep the order of their samples, so that a pipe is the number of    *)
(* samples in it. A block makes one sample of one, after a Delay that it     *)
(* holds back; it has one output, which may feed several pipes.            *)
(***************************************************************************)
EXTENDS Integers, Sequences

CONSTANTS
  Order,      \* the blocks, in evaluation order
  Outs,       \* Outs[b]: the blocks that read b's output, in the order written
  Delay,      \* Delay[b]: samples that b holds back
  Length,     \* samples of a source
  Chunk,      \* samples that a source makes at once, at most
  PipeSize,   \* samples that a socket holds
  BufferSize, \* samples that a reader holds
  Endless,    \* sources that may wait for more after Length samples
  Prompt,     \* a block that can go on does so within the 100 ms of _reap
  Interrupts  \* the user may press ^C, or the program call stop

Blocks == {Order[i] : i \in DOMAIN Order}
Pipes == {p \in Blocks \X Blocks : \E i \in DOMAIN Outs[p[1]] : Outs[p[1]][i] = p[2]}
Ins(b) == {p \in Pipes : p[2] = b}
Sources == {b \in Blocks : Ins(b) = {}}

ASSUME FlowGraphAssumption ==
  /\ Order \in Seq(Blocks) /\ Outs \in [Blocks -> Seq(Blocks)]
  /\ \A i \in DOMAIN Order, j \in DOMAIN Order : Order[i] = Order[j] => i = j
  /\ \A i \in DOMAIN Order, j \in DOMAIN Order : <<Order[i], Order[j]>> \in Pipes => i < j
  /\ \A b \in Blocks : Ins(b) # {} \/ Outs[b] # <<>>
  /\ \A b \in Blocks : \A i \in DOMAIN Outs[b], j \in DOMAIN Outs[b] :
       Outs[b][i] = Outs[b][j] => i = j
  /\ Delay \in [Blocks -> Nat]
  /\ Length \in Nat /\ {Chunk, PipeSize, BufferSize} \subseteq Nat \ {0}
  /\ Endless \subseteq Sources /\ {Prompt, Interrupts} \subseteq BOOLEAN

VARIABLES
  pc,        \* of each block: what it does, or why it ended
  queue,     \* of each pipe: samples in the socket
  buffer,    \* of each pipe: samples in the reader's buffer
  taken,     \* of each pipe: samples that the reader has processed
  made,      \* of each block: samples that it has made
  target,    \* of each block: which of Outs it writes to
  vector,    \* of each block: samples of the vector that it writes
  written,   \* of each block: samples of it already written to the target
  parent,    \* what the parent does
  forked,    \* how many blocks it has forked
  stopped,   \* it has closed its ends of the control sockets
  pending,   \* signals that wait for the parent
  timedOut,  \* its last wait for SIGCHLD timed out
  reaped,    \* blocks whose exit the parent has collected
  terminated,\* blocks that it has sent SIGTERM
  endless    \* the sources that do wait for more

block == <<pc, queue, buffer, taken, made, target, vector, written>>
host == <<parent, forked, stopped, timedOut, reaped, terminated, endless>>
vars == <<block, host, pending>>

(* Why a block ends: it has no more samples; its input ended; a reader of its
   output ended; the control socket closed; it was killed. *)
Ends == {"own", "eof", "downstream", "shutdown", "killed"}
States == {"unborn", "born", "read", "write"} \cup Ends
ParentStates == {"fork", "started", "waiting", "reap", "timed", "done"}

Alive(b) == pc[b] \in {"born", "read", "write"}
Exited(b) == pc[b] \in Ends
\* The parent and a new child hold every pipe open until they close them.
HeldByOthers == parent = "fork" \/ \E b \in Blocks : pc[b] = "born"
WriterEnded(p) == Exited(p[1]) /\ ~HeldByOthers
ReaderEnded(p) == Exited(p[2]) /\ ~HeldByOthers
Shutdown == stopped /\ \A b \in Blocks : pc[b] # "born"

-------------------------------------------------------------------------------
(* A block: Block:run and PipeMux. *)

(* Mutant: SIGCHLD is not blocked, and is lost when the parent does not wait. *)
ExitUnblocked(b, why) ==
  /\ pc' = [pc EXCEPT ![b] = why]
  /\ pending' = IF parent \in {"waiting", "timed"} THEN pending \cup {"SIGCHLD"} ELSE pending
  /\ UNCHANGED <<queue, buffer, taken, made, target, vector, written>>

Exit(b, why) ==
  /\ pc' = [pc EXCEPT ![b] = why]
  /\ pending' = pending \cup {"SIGCHLD"}
  /\ UNCHANGED <<queue, buffer, taken, made, target, vector, written>>

\* The new child closes the descriptors that belong to other blocks.
CloseOthers(b) ==
  /\ pc[b] = "born" /\ pc' = [pc EXCEPT ![b] = "read"]
  /\ UNCHANGED <<queue, buffer, taken, made, target, vector, written, pending>>

(* process() returns n samples, and writing them begins. *)
Give(b, n) ==
  /\ pc' = [pc EXCEPT ![b] = "write"]
  /\ made' = [made EXCEPT ![b] = @ + n]
  /\ target' = [target EXCEPT ![b] = 1]
  /\ vector' = [vector EXCEPT ![b] = n]
  /\ written' = [written EXCEPT ![b] = 0]

\* _read_none: a source does not look at its control socket before it makes more.
Produce(b) ==
  /\ pc[b] = "read" /\ b \in Sources
  /\ \E n \in 1 .. Chunk : n <= Length - made[b] /\ Give(b, n)
  /\ UNCHANGED <<queue, buffer, taken, pending>>

ProduceNoMore(b) ==
  /\ pc[b] = "read" /\ b \in Sources
  /\ made[b] = Length /\ b \notin endless
  /\ Exit(b, "own")

Lesser(m, n) == IF m <= n THEN m ELSE n

(* Mutant: a full buffer takes one more. *)
MovedOneMore(p) == Lesser(queue[p], BufferSize + 1 - buffer[p])

(* _read_buffer_update: what moves from the socket of p to the reader's buffer. *)
Moved(p) == Lesser(queue[p], BufferSize - buffer[p])
Held(p) == buffer[p] + Moved(p)

(* Mutant: an input whose writer has ended is at its end, read or not. *)
AtEofUnread(p) == WriterEnded(p)

\* The read returns nothing, and nothing is left in the buffer.
AtEof(p) == WriterEnded(p) /\ Held(p) = 0

\* Every input has n samples, and the shortest has no more.
Available(b, n) == /\ \A p \in Ins(b) : n <= Held(p)
                   /\ \E p \in Ins(b) : n = Held(p)

(* What b has made of n samples. *)
MadeOf(b, n) == IF n > Delay[b] THEN n - Delay[b] ELSE 0

ReadEof(b) ==
  /\ pc[b] = "read" /\ ~Shutdown
  /\ \E p \in Ins(b) : AtEof(p)
  /\ Exit(b, "eof")

(* A poll that finds something: every input is read, and when all of them have a
   sample the block processes as many as the shortest has. *)
Read(b) ==
  /\ pc[b] = "read" /\ ~Shutdown
  /\ \A p \in Ins(b) : ~AtEof(p)
  /\ \E p \in Ins(b) : Moved(p) > 0
  /\ \E n \in 0 .. BufferSize :
       /\ Available(b, n)
       /\ queue' = [p \in Pipes |-> IF p \in Ins(b) THEN queue[p] - Moved(p) ELSE queue[p]]
       /\ buffer' = [p \in Pipes |-> IF p \in Ins(b) THEN Held(p) - n ELSE buffer[p]]
       /\ taken' = [p \in Pipes |-> IF p \in Ins(b) THEN taken[p] + n ELSE taken[p]]
       /\ \/ n = 0 /\ UNCHANGED <<pc, made, target, vector, written>>
          \/ n > 0 /\ \E p \in Ins(b) : Give(b, MadeOf(b, taken[p] + n) - MadeOf(b, taken[p]))
  /\ UNCHANGED pending

\* The poll sees the closed control socket before it reads.
ReadShutdown(b) ==
  /\ pc[b] = "read" /\ b \notin Sources /\ Shutdown
  /\ Exit(b, "shutdown")

TargetPipe(b) == <<b, Outs[b][target[b]]>>
Writing(b) == pc[b] = "write" /\ target[b] \in DOMAIN Outs[b]

(* Pipe:write blocks until the vector is in the socket, or its reader has ended. *)
WriteSome(b) ==
  /\ Writing(b) /\ written[b] < vector[b]
  /\ LET p == TargetPipe(b)
         n == Lesser(vector[b] - written[b], PipeSize - queue[p])
     IN  /\ ~ReaderEnded(p) /\ n > 0
         /\ queue' = [queue EXCEPT ![p] = @ + n]
         /\ written' = [written EXCEPT ![b] = @ + n]
  /\ UNCHANGED <<pc, buffer, taken, made, target, vector, pending>>

(* Mutant: the vector is not taken from its beginning for the next pipe. *)
WriteNextRest(b) ==
  /\ Writing(b) /\ written[b] = vector[b]
  /\ target' = [target EXCEPT ![b] = @ + 1]
  /\ UNCHANGED <<pc, queue, buffer, taken, made, vector, written, pending>>

WriteNext(b) ==
  /\ Writing(b) /\ written[b] = vector[b]
  /\ target' = [target EXCEPT ![b] = @ + 1]
  /\ written' = [written EXCEPT ![b] = 0]
  /\ UNCHANGED <<pc, queue, buffer, taken, made, vector, pending>>

\* EPIPE: the pipes that follow are left out.
WriteEof(b) ==
  /\ Writing(b) /\ written[b] < vector[b] /\ ReaderEnded(TargetPipe(b))
  /\ Exit(b, IF Shutdown THEN "shutdown" ELSE "downstream")

\* _write_none, of a block without readers, does not look at the control socket.
WriteDone(b) ==
  /\ pc[b] = "write" /\ ~Writing(b)
  /\ IF Shutdown /\ Outs[b] # <<>>
       THEN Exit(b, "shutdown")
       ELSE /\ pc' = [pc EXCEPT ![b] = "read"]
            /\ UNCHANGED <<queue, buffer, taken, made, target, vector, written, pending>>

Die(b) == b \in terminated /\ Alive(b) /\ Exit(b, "killed")

BlockStep(b) ==
  /\ \/ CloseOthers(b) \/ Produce(b) \/ ProduceNoMore(b) \/ ReadEof(b) \/ Read(b)
     \/ ReadShutdown(b) \/ WriteSome(b) \/ WriteNext(b) \/ WriteEof(b) \/ WriteDone(b) \/ Die(b)
  /\ UNCHANGED host

(* The blocks that can go on. *)
CanGoOn(b) ==
  \/ pc[b] = "born" \/ (Alive(b) /\ b \in terminated)
  \/ /\ pc[b] = "read" /\ b \in Sources
     /\ made[b] < Length \/ b \notin endless
  \/ /\ pc[b] = "read" /\ b \notin Sources
     /\ Shutdown \/ \E p \in Ins(b) : AtEof(p) \/ Moved(p) > 0
  \/ pc[b] = "write" /\ ~Writing(b)
  \/ /\ Writing(b)
     /\ \/ written[b] = vector[b] \/ ReaderEnded(TargetPipe(b))
        \/ queue[TargetPipe(b)] < PipeSize

-------------------------------------------------------------------------------
(* The parent: CompositeBlock:start, wait, status, stop and _reap. *)

Fork ==
  /\ parent = "fork" /\ forked < Len(Order)
  /\ pc' = [pc EXCEPT ![Order[forked + 1]] = "born"]
  /\ forked' = forked + 1
  /\ UNCHANGED <<queue, buffer, taken, made, target, vector, written, pending>>
  /\ UNCHANGED <<parent, stopped, timedOut, reaped, terminated, endless>>

\* Once all are forked, the parent closes the ends of the pipes.
Started ==
  /\ parent = "fork" /\ forked = Len(Order)
  /\ parent' = "started"
  /\ UNCHANGED <<block, pending, forked, stopped, timedOut, reaped, terminated, endless>>

AllExited == \A b \in Blocks : Exited(b)

\* waitpid, block by block, up to the first that still runs.
CollectSome == \E R \in SUBSET {b \in Blocks : Exited(b)} : reaped' = reaped \cup R

Wait ==
  /\ parent = "started"
  /\ IF AllExited /\ reaped = {}
       THEN parent' = "reap" /\ reaped' = Blocks
       ELSE parent' = "waiting" /\ CollectSome
  /\ UNCHANGED <<block, pending, forked, stopped, timedOut, terminated, endless>>

\* close_host for every block, then _reap.
Stop ==
  /\ stopped' = TRUE /\ parent' = "reap"
  /\ UNCHANGED <<block, forked, timedOut, reaped, terminated, endless>>

Interrupted ==
  /\ parent = "waiting" /\ "SIGINT" \in pending
  /\ pending' = pending \ {"SIGINT"}
  /\ Stop

ChildExited ==
  /\ parent = "waiting" /\ "SIGCHLD" \in pending
  /\ pending' = pending \ {"SIGCHLD"}
  /\ parent' = "reap"
  /\ UNCHANGED <<block, forked, stopped, timedOut, reaped, terminated, endless>>

(* Mutant: blocks that do not answer are not killed. *)
ReapPatient ==
  /\ parent = "reap"
  /\ reaped' = reaped \cup {b \in Blocks : Exited(b)}
  /\ parent' = IF AllExited THEN "done" ELSE "timed"
  /\ UNCHANGED <<block, pending, forked, stopped, timedOut, terminated, endless>>

\* One pass over the blocks. Those that run after a timeout are sent SIGTERM.
Reap ==
  /\ parent = "reap"
  /\ reaped' = reaped \cup {b \in Blocks : Exited(b)}
  /\ IF AllExited
       THEN parent' = "done" /\ UNCHANGED terminated
       ELSE /\ parent' = "timed"
            /\ terminated' = IF timedOut THEN terminated \cup {b \in Blocks : Alive(b)}
                             ELSE terminated
  /\ UNCHANGED <<block, pending, forked, stopped, timedOut, endless>>

\* sigtimedwait.
NextExited ==
  /\ parent = "timed" /\ "SIGCHLD" \in pending
  /\ pending' = pending \ {"SIGCHLD"}
  /\ parent' = "reap" /\ timedOut' = FALSE
  /\ UNCHANGED <<block, forked, stopped, reaped, terminated, endless>>

TimeOut ==
  /\ parent = "timed" /\ "SIGCHLD" \notin pending
  /\ Prompt => \A b \in Blocks : ~CanGoOn(b)
  /\ parent' = "reap" /\ timedOut' = TRUE
  /\ UNCHANGED <<block, pending, forked, stopped, reaped, terminated, endless>>

ParentStep ==
  Fork \/ Started \/ Wait \/ Interrupted \/ ChildExited \/ Reap \/ NextExited \/ TimeOut

(* What the program or the user may do. *)
CallStop == Interrupts /\ parent = "started" /\ Stop /\ UNCHANGED pending

CallStatus ==
  /\ parent = "started"
  /\ IF AllExited THEN parent' = "reap" /\ UNCHANGED reaped
                  ELSE CollectSome /\ UNCHANGED parent
  /\ UNCHANGED <<block, pending, forked, stopped, timedOut, terminated, endless>>

PressInterrupt ==
  /\ Interrupts /\ parent # "done"
  /\ pending' = pending \cup {"SIGINT"}
  /\ UNCHANGED <<block, host>>

-------------------------------------------------------------------------------
Init ==
  /\ pc = [b \in Blocks |-> "unborn"]
  /\ queue = [p \in Pipes |-> 0] /\ buffer = queue /\ taken = queue
  /\ made = [b \in Blocks |-> 0] /\ vector = made /\ written = made
  /\ target = [b \in Blocks |-> 1]
  /\ parent = "fork" /\ forked = 0 /\ stopped = FALSE
  /\ pending = {} /\ timedOut = FALSE /\ reaped = {} /\ terminated = {}
  /\ endless \in SUBSET Endless

Next ==
  \/ \E b \in Blocks : BlockStep(b)
  \/ ParentStep \/ CallStop \/ CallStatus \/ PressInterrupt

Spec == Init /\ [][Next]_vars

(* The scheduler lets every process go on, and timers expire; the program calls
   wait. Nobody has to press ^C or to call stop. *)
Fairness == WF_vars(ParentStep) /\ \A b \in Blocks : WF_vars(BlockStep(b))
FairSpec == Spec /\ Fairness

-------------------------------------------------------------------------------
(* The type of every variable: no socket and no buffer holds more than its size. *)
TypeOK ==
  /\ pc \in [Blocks -> States]
  /\ queue \in [Pipes -> 0 .. PipeSize]
  /\ buffer \in [Pipes -> 0 .. BufferSize]
  /\ taken \in [Pipes -> Nat]
  /\ made \in [Blocks -> Nat] /\ vector \in [Blocks -> Nat] /\ written \in [Blocks -> Nat]
  /\ target \in [Blocks -> Nat]
  /\ \A b \in Blocks : target[b] \in 1 .. Len(Outs[b]) + 1 /\ written[b] <= vector[b]
  /\ parent \in ParentStates /\ forked \in 0 .. Len(Order)
  /\ {stopped, timedOut} \subseteq BOOLEAN
  /\ pending \subseteq {"SIGINT", "SIGCHLD"}
  /\ reaped \subseteq Blocks /\ terminated \subseteq Blocks

(* What its writer has still to write into p. *)
Position(p) == CHOOSE i \in DOMAIN Outs[p[1]] : Outs[p[1]][i] = p[2]
Unwritten(p) ==
  IF ~Writing(p[1]) \/ Position(p) < target[p[1]] THEN 0
  ELSE vector[p[1]] - (IF Position(p) = target[p[1]] THEN written[p[1]] ELSE 0)

(* Every reader of a block gets every sample that the block makes: while the
   block runs, and after it ends with its input, each of its pipes accounts for
   all of them, whatever the readers of the other pipes have taken
   (PipeMux:_write_multiple, Pipe:write, _read_buffer_update). *)
EverySampleKept ==
  \A p \in Pipes :
    pc[p[1]] \in {"unborn", "born", "read", "write", "own", "eof"} =>
      made[p[1]] = taken[p] + buffer[p] + queue[p] + Unwritten(p)

(* A flow graph that nobody stops ends by natural termination: no block is killed,
   and a block whose input ended has processed all that the writer of one of its
   inputs made (CompositeBlock:wait, _reap; Block:run). *)
EndsNaturally ==
  parent = "done" /\ ~stopped =>
    \A b \in Blocks :
      /\ pc[b] # "killed"
      /\ pc[b] = "eof" => \E p \in Ins(b) : taken[p] = made[p[1]]

(* When the flow graph counts as finished, none of its processes is left, neither
   running nor as a zombie (CompositeBlock:_reap). *)
NothingLeft == parent = "done" => AllExited /\ reaped = Blocks

(* A flow graph whose sources end finishes: no block waits for ever for another,
   nor the parent for a block (PipeMux, CompositeBlock:wait). *)
Finishes == endless = {} => <>(parent = "done")

(* ^C ends a flow graph, even one whose source waits for samples that never come
   and does not look at its control socket (CompositeBlock:wait, stop, _reap). *)
ObeysInterrupt == "SIGINT" \in pending ~> parent = "done"
================================================================================
