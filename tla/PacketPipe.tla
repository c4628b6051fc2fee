----------------------------- MODULE PacketPipe -----------------------------
(***************************************************************************)
(* What a BlockingQueue with its BufferPool and its consumer thread        *)
(* promises to the threads that produce packets: a pipe of bounded depth.  *)
(* A packet that was accepted leaves the pipe after all that were accepted *)
(* before it, none is lost or doubled, and a buffer that is inside the     *)
(* pipe is not lent to anybody else.                                       *)
(***************************************************************************)
EXTENDS Naturals, Sequences

CONSTANT Packets

VARIABLE pipe   \* the packets inside, oldest first

PipeInit == pipe = <<>>

Inside == {pipe[i] : i \in DOMAIN pipe}

Accept(p) ==
  /\ p \notin Inside
  /\ pipe' = Append(pipe, p)

Release ==
  /\ pipe # <<>>
  /\ pipe' = Tail(pipe)

PipeNext == Release \/ \E p \in Packets : Accept(p)

PipeSpec == PipeInit /\ [][PipeNext]_pipe
=============================================================================
