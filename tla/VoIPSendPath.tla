---------------------------- MODULE VoIPSendPath ----------------------------
(***************************************************************************)
(* The way of an outgoing packet through the threads of a call, and the    *)
(* end of those threads in VoIPController::Stop and the destructor.        *)
(*                                                                         *)
(*   audio unit --encQueue--> encoder thread --sendQueue--> send thread    *)
(*                     receive and tick threads --^                        *)
(*                                                                         *)
(* Both queues are instances of BlockingQueue.  Each thread has a program  *)
(* counter and the buffer it holds; a step is what the thread does between *)
(* two accesses to something another thread changes.                       *)
(***************************************************************************)
EXTENDS Integers, Sequences, FiniteSets

CONSTANTS SendCapacity, SendBuffers,  \* sendQueue(21), outgoingPacketsBufferPool(1024, 20)
          EncCapacity, EncBuffers,    \* queue(11), bufferPool(960*2, 10) of OpusEncoder
          Null

ASSUME PoolAssumption ==
  /\ SendBuffers \in Nat \ {0} /\ SendCapacity = SendBuffers + 1
  /\ EncBuffers \in Nat \ {0} /\ EncCapacity = EncBuffers + 1
  /\ Null \notin 1..SendBuffers /\ Null \notin 1..EncBuffers

VARIABLES sendQueue, sendSem, sendUsed,      \* the send queue and its pool
          encQueue, encSem, encUsed,         \* the encoder's queue and pool
          aborted,
          pc,          \* where each thread is
          buf,         \* the buffer of sendQueue's pool each thread holds
          audio,       \* the buffer of the encoder's pool: capture, encoder
          stopping, runReceiver, running     \* VoIPController, OpusEncoder

qvars == <<sendQueue, sendSem, sendUsed, encQueue, encSem, encUsed, aborted>>
flags == <<stopping, runReceiver, running>>
vars == <<qvars, pc, buf, audio, flags>>

SQ == INSTANCE BlockingQueue WITH
        Capacity <- SendCapacity, BufferCount <- SendBuffers, Null <- Null,
        queue <- sendQueue, semaphore <- sendSem, usedBuffers <- sendUsed,
        aborted <- aborted
EQ == INSTANCE BlockingQueue WITH
        Capacity <- EncCapacity, BufferCount <- EncBuffers, Null <- Null,
        queue <- encQueue, semaphore <- encSem, usedBuffers <- encUsed,
        aborted <- aborted

sq == <<sendQueue, sendSem, sendUsed>>
eq == <<encQueue, encSem, encUsed>>

Workers == {"recv", "tick"}      \* both loop while runReceiver is set
Threads == Workers \cup {"capture", "encoder", "send", "owner"}

TypeOK ==
  /\ SQ!QueueTypeOK /\ EQ!QueueTypeOK
  /\ pc \in [Threads -> {"loop", "wait", "take", "work", "get", "put", "get2", "put2",
                         "reuse", "done",
                         "run", "flagged", "wake", "joinSend", "joinRecv", "joinTick",
                         "stopped", "wakeEnc", "joinEnc", "delete"}]
  /\ buf \in [Threads -> SQ!Buffers \cup {Null}]
  /\ audio \in [{"capture", "encoder"} -> EQ!Buffers \cup {Null}]
  /\ stopping \in BOOLEAN /\ runReceiver \in BOOLEAN /\ running \in BOOLEAN

(* A call after Start() and StartAudio(). *)
Init ==
  /\ SQ!QueueInit /\ EQ!QueueInit
  /\ pc = [t \in Threads |-> IF t = "owner" THEN "run" ELSE "loop"]
  /\ buf = [t \in Threads |-> Null]
  /\ audio = [t \in {"capture", "encoder"} |-> Null]
  /\ stopping = FALSE /\ runReceiver = TRUE /\ running = TRUE

Goto(t, from, to) == pc[t] = from /\ pc' = [pc EXCEPT ![t] = to]

-----------------------------------------------------------------------------
(* OpusEncoder::Callback, called by the audio unit until its input is      *)
(* deleted.  Without a free buffer the samples are dropped.                *)

CaptureGet ==
  /\ pc["owner"] \notin {"wakeEnc", "joinEnc", "delete", "done"}
  /\ Goto("capture", "loop", "put")
  /\ \E b \in EQ!Buffers : EQ!Get(b) /\ audio' = [audio EXCEPT !["capture"] = b]
  /\ UNCHANGED <<sq, buf, flags>>

CapturePut ==
  /\ Goto("capture", "put", "loop")
  /\ EQ!Put(audio["capture"])
  /\ audio' = [audio EXCEPT !["capture"] = Null]
  /\ UNCHANGED <<sq, buf, flags>>

(* OpusEncoder::RunThread *)
EncoderLoop ==
  /\ Goto("encoder", "loop", IF running THEN "wait" ELSE "done")
  /\ UNCHANGED <<qvars, buf, audio, flags>>

EncoderWait ==
  /\ Goto("encoder", "wait", "take")
  /\ EQ!Acquire
  /\ UNCHANGED <<sq, buf, audio, flags>>

EncoderTake ==
  /\ \E x \in EQ!Buffers \cup {Null} :
       /\ EQ!GetInternal(x)
       /\ audio' = [audio EXCEPT !["encoder"] = x]
       /\ Goto("encoder", "take", IF x = Null THEN "loop" ELSE "work")
  /\ UNCHANGED <<sq, buf, flags>>

(* A packet may end here: the frame is not complete, Opus returned nothing *)
(* to send, the encoder or the call is stopping, or the call waits for     *)
(* acks (HandleAudioInput).                                                *)
EncoderDrop ==
  /\ Goto("encoder", "work", "reuse")
  /\ UNCHANGED <<qvars, buf, audio, flags>>

(* HandleAudioInput looks at stopping once, when it is entered. *)
EncoderCall ==
  /\ running /\ ~stopping
  /\ Goto("encoder", "work", "get")
  /\ UNCHANGED <<qvars, buf, audio, flags>>

(* HandleAudioInput queues the frame and, in the mode for lossy networks,  *)
(* the secondary encodings in a packet of their own; each is left out when *)
(* no buffer is free.                                                      *)
AfterFrame(pos) == IF pos \in {"get", "put"} THEN {"get2", "reuse"} ELSE {"reuse"}

EncoderGet ==
  /\ \/ Goto("encoder", "get", "put")
     \/ Goto("encoder", "get2", "put2")
  /\ \E b \in SQ!Buffers : SQ!Get(b) /\ buf' = [buf EXCEPT !["encoder"] = b]
  /\ UNCHANGED <<eq, audio, flags>>

EncoderNoBuffer ==
  /\ SQ!Free = {}
  /\ pc["encoder"] \in {"get", "get2"}
  /\ \E next \in AfterFrame(pc["encoder"]) : Goto("encoder", pc["encoder"], next)
  /\ UNCHANGED <<qvars, buf, audio, flags>>

EncoderPut ==
  /\ pc["encoder"] \in {"put", "put2"}
  /\ \E next \in AfterFrame(pc["encoder"]) : Goto("encoder", pc["encoder"], next)
  /\ SQ!Put(buf["encoder"])
  /\ buf' = [buf EXCEPT !["encoder"] = Null]
  /\ UNCHANGED <<eq, audio, flags>>

EncoderReuse ==
  /\ Goto("encoder", "reuse", "loop")
  /\ EQ!Reuse(audio["encoder"])
  /\ audio' = [audio EXCEPT !["encoder"] = Null]
  /\ UNCHANGED <<sq, buf, flags>>

-----------------------------------------------------------------------------
(* The receive thread (init acks and pongs) and the tick thread (inits,    *)
(* pings, reliable packets): an iteration queues any number of packets.    *)

WorkerLoop(t) ==
  /\ Goto(t, "loop", IF runReceiver THEN "work" ELSE "done")
  /\ UNCHANGED <<qvars, buf, audio, flags>>

WorkerGet(t) ==
  /\ Goto(t, "work", "put")
  /\ \E b \in SQ!Buffers : SQ!Get(b) /\ buf' = [buf EXCEPT ![t] = b]
  /\ UNCHANGED <<eq, audio, flags>>

WorkerPut(t) ==
  /\ Goto(t, "put", "work")
  /\ SQ!Put(buf[t])
  /\ buf' = [buf EXCEPT ![t] = Null]
  /\ UNCHANGED <<eq, audio, flags>>

WorkerNext(t) ==
  /\ Goto(t, "work", "loop")
  /\ UNCHANGED <<qvars, buf, audio, flags>>

-----------------------------------------------------------------------------
(* VoIPController::RunSendThread: whether the packet is sent or its        *)
(* endpoint's transport is switched off, its buffer goes back.             *)

SendLoop ==
  /\ Goto("send", "loop", IF runReceiver THEN "wait" ELSE "done")
  /\ UNCHANGED <<qvars, buf, audio, flags>>

SendWait ==
  /\ Goto("send", "wait", "take")
  /\ SQ!Acquire
  /\ UNCHANGED <<eq, buf, audio, flags>>

SendTake ==
  /\ \E x \in SQ!Buffers \cup {Null} :
       /\ SQ!GetInternal(x)
       /\ buf' = [buf EXCEPT !["send"] = x]
       /\ Goto("send", "take", IF x = Null THEN "loop" ELSE "work")
  /\ UNCHANGED <<eq, audio, flags>>

SendReuse ==
  /\ Goto("send", "work", "loop")
  /\ SQ!Reuse(buf["send"])
  /\ buf' = [buf EXCEPT !["send"] = Null]
  /\ UNCHANGED <<eq, audio, flags>>

-----------------------------------------------------------------------------
(* VoIPController::Stop(), then ~VoIPController(), on the owner's thread.  *)

StopBegin ==
  /\ Goto("owner", "run", "flagged")
  /\ stopping' = TRUE
  /\ UNCHANGED <<qvars, buf, audio, runReceiver, running>>

StopReceiver ==
  /\ Goto("owner", "flagged", "wake")
  /\ runReceiver' = FALSE
  /\ UNCHANGED <<qvars, buf, audio, stopping, running>>

(* The mutant does not queue the packet without data. *)
StopWithoutWake ==
  /\ Goto("owner", "wake", "joinSend")
  /\ UNCHANGED <<qvars, buf, audio, flags>>

StopWake ==
  /\ Goto("owner", "wake", "joinSend")
  /\ SQ!Put(Null)
  /\ UNCHANGED <<eq, buf, audio, flags>>

Join(t, from, to) ==
  /\ pc[t] = "done"
  /\ Goto("owner", from, to)
  /\ UNCHANGED <<qvars, buf, audio, flags>>

JoinSend == Join("send", "joinSend", "joinRecv")
JoinRecv == Join("recv", "joinRecv", "joinTick")
JoinTick == Join("tick", "joinTick", "stopped")

(* The destructor: delete audioInput, then encoder->Stop().                *)
EncoderStop ==
  /\ Goto("owner", "stopped", "wakeEnc")
  /\ running' = FALSE
  /\ UNCHANGED <<qvars, buf, audio, stopping, runReceiver>>

EncoderWake ==
  /\ Goto("owner", "wakeEnc", "joinEnc")
  /\ EQ!Put(Null)
  /\ UNCHANGED <<sq, buf, audio, flags>>

(* The mutant deletes the queue without waiting for the encoder. *)
NoJoinEncoder ==
  /\ Goto("owner", "joinEnc", "delete")
  /\ UNCHANGED <<qvars, buf, audio, flags>>

JoinEncoder == Join("encoder", "joinEnc", "delete")

(* delete sendQueue *)
DeleteQueue ==
  /\ Goto("owner", "delete", "done")
  /\ UNCHANGED <<qvars, buf, audio, flags>>

-----------------------------------------------------------------------------
Capture == CaptureGet \/ CapturePut
Encoder == \/ EncoderLoop \/ EncoderWait \/ EncoderTake \/ EncoderDrop \/ EncoderCall
           \/ EncoderGet \/ EncoderNoBuffer \/ EncoderPut \/ EncoderReuse
Worker(t) == WorkerLoop(t) \/ WorkerGet(t) \/ WorkerPut(t) \/ WorkerNext(t)
Sender == SendLoop \/ SendWait \/ SendTake \/ SendReuse
Owner == \/ StopBegin \/ StopReceiver \/ StopWake \/ JoinSend \/ JoinRecv \/ JoinTick
         \/ EncoderStop \/ EncoderWake \/ JoinEncoder \/ DeleteQueue

Next ==
  \/ Capture \/ Encoder \/ Sender \/ Owner
  \/ \E t \in Workers : Worker(t)

Spec == Init /\ [][Next]_vars

(* The operating system runs every thread that can run, and an iteration   *)
(* of the receive or tick thread queues finitely many packets.  A call     *)
(* need not ever be stopped, but a Stop() that was called goes on.         *)
Fairness ==
  /\ WF_vars(CapturePut) /\ WF_vars(Encoder) /\ WF_vars(Sender)
  /\ \A t \in Workers : WF_vars(WorkerLoop(t)) /\ WF_vars(WorkerPut(t)) /\ SF_vars(WorkerNext(t))
  /\ WF_vars(Owner /\ pc["owner"] # "run")

FairSpec == Spec /\ Fairness
-----------------------------------------------------------------------------
(* Queues, pools and threads are well formed; neither queue is ever asked  *)
(* to hold more than its capacity, which would abort() in                  *)
(* BlockingQueue::Put, and no consumer takes the front of an empty list:   *)
(* the pools lend fewer buffers than the queues have places, and the one   *)
(* place left is enough for the NULL of Stop().                            *)
NoAbort == TypeOK /\ ~aborted

Times(b, s) == Cardinality({i \in DOMAIN s : s[i] = b})

(* A buffer whose bit is set in a pool is in one place, in the queue or in *)
(* the hands of one thread, and one whose bit is clear is nowhere: no two  *)
(* threads write into the same packet and no buffer is lost to the pool.   *)
BuffersHeldOnce ==
  /\ \A b \in SQ!Buffers :
       Times(b, sendQueue) + Cardinality({t \in Threads : buf[t] = b})
         = IF b \in sendUsed THEN 1 ELSE 0
  /\ \A b \in EQ!Buffers :
       Times(b, encQueue) + Cardinality({t \in DOMAIN audio : audio[t] = b})
         = IF b \in encUsed THEN 1 ELSE 0

(* The destructor deletes the send queue when no thread is inside it any   *)
(* more or can still come to it: the encoder calls HandleAudioInput from a *)
(* thread that Stop() does not end.                                        *)
NoUseAfterDelete ==
  pc["owner"] = "done" => \A t \in Workers \cup {"encoder", "send"} : pc[t] = "done"

(* The packets of a queue: its entries without the NULL that Stop() puts   *)
(* into it, once.                                                          *)
Data(s) ==
  IF \E k \in DOMAIN s : s[k] = Null
    THEN LET k == CHOOSE j \in DOMAIN s : s[j] = Null
         IN  [i \in 1..(Len(s) - 1) |-> IF i < k THEN s[i] ELSE s[i + 1]]
    ELSE s

(* The send queue with its pool and the send thread is a PacketPipe.  The  *)
(* packet the send thread works on is still inside.                        *)
inPipe == (IF pc["send"] = "work" THEN <<buf["send"]>> ELSE <<>>) \o Data(sendQueue)

Pipe == INSTANCE PacketPipe WITH Packets <- SQ!Buffers, pipe <- inPipe

(* A producer sees a bounded pipe in first-in-first-out order, whatever    *)
(* the four threads that queue packets and the one that sends them do in   *)
(* between, and through Stop().                                            *)
ImplementsPipe == Pipe!PipeSpec

(* Stop() returns and so does the destructor: every thread they join comes *)
(* to its end, also one that is waiting for a packet.                      *)
StopReturns == pc["owner"] = "flagged" ~> pc["owner"] = "done"
=============================================================================
