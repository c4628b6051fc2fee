--------------------------- MODULE BlockingQueue ---------------------------
(***************************************************************************)
(* libtgvoip hands audio packets from thread to thread through the same    *)
(* pair of objects in four places: a BufferPool that lends a fixed number  *)
(* of buffers, and a BlockingQueue one entry longer, the extra entry being *)
(* for the NULL that wakes the consumer up when it has to stop.            *)
(*                                                                         *)
(* Every method but GetBlocking runs under one mutex from beginning to end *)
(* and is one step here.  GetBlocking is two: it waits for the semaphore   *)
(* (Acquire) before it takes the mutex (GetInternal).                      *)
(***************************************************************************)
EXTENDS Integers, Sequences

CONSTANTS Capacity,    \* the argument of the queue's constructor
          BufferCount, \* the second argument of the pool's constructor
          Null         \* the NULL put into the queue by a stop

VARIABLES queue,       \* list<T>, front first
          semaphore,   \* its count
          usedBuffers, \* the bits of BufferPool::usedBuffers that are set
          aborted      \* abort() was called, or front() on an empty list

qvars == <<queue, semaphore, usedBuffers, aborted>>

Buffers == 1..BufferCount

QueueTypeOK ==
  /\ queue \in Seq(Buffers \cup {Null})
  /\ semaphore \in Nat
  /\ usedBuffers \subseteq Buffers
  /\ aborted \in BOOLEAN

QueueInit ==
  /\ queue = <<>>
  /\ semaphore = 0
  /\ usedBuffers = {}
  /\ aborted = FALSE

-----------------------------------------------------------------------------
(* BlockingQueue.h.  No caller sets an overflow callback, so that an entry *)
(* too many ends the program.                                              *)

(* The mutant keeps one place less. *)
PutTight(x) ==
  /\ queue' = Append(queue, x)
  /\ IF Len(queue) + 1 < Capacity
       THEN semaphore' = semaphore + 1 /\ aborted' = aborted
       ELSE semaphore' = semaphore /\ aborted' = TRUE
  /\ UNCHANGED usedBuffers

Put(x) ==
  /\ queue' = Append(queue, x)
  /\ IF Len(queue) < Capacity
       THEN semaphore' = semaphore + 1 /\ aborted' = aborted
       ELSE semaphore' = semaphore /\ aborted' = TRUE
  /\ UNCHANGED usedBuffers

Acquire ==
  /\ semaphore > 0
  /\ semaphore' = semaphore - 1
  /\ UNCHANGED <<queue, usedBuffers, aborted>>

(* The mutant serves the newest entry first. *)
GetNewest(x) ==
  /\ queue # <<>>
  /\ x = queue[Len(queue)]
  /\ queue' = SubSeq(queue, 1, Len(queue) - 1)
  /\ UNCHANGED <<semaphore, usedBuffers, aborted>>

GetInternal(x) ==
  /\ IF queue = <<>>
       THEN x = Null /\ queue' = queue /\ aborted' = TRUE
       ELSE x = Head(queue) /\ queue' = Tail(queue) /\ aborted' = aborted
  /\ UNCHANGED <<semaphore, usedBuffers>>

-----------------------------------------------------------------------------
(* BufferPool: Get lends the first buffer whose bit is clear or returns    *)
(* NULL, Reuse clears the bit.                                             *)

Free == Buffers \ usedBuffers

(* The mutant forgets to set the bit. *)
GetUnmarked(b) ==
  /\ b \in Free
  /\ \A c \in Free : b <= c
  /\ UNCHANGED qvars

Get(b) ==
  /\ b \in Free
  /\ \A c \in Free : b <= c
  /\ usedBuffers' = usedBuffers \cup {b}
  /\ UNCHANGED <<queue, semaphore, aborted>>

Reuse(b) ==
  /\ usedBuffers' = usedBuffers \ {b}
  /\ UNCHANGED <<queue, semaphore, aborted>>
=============================================================================
