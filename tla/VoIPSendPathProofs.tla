------------------------- MODULE VoIPSendPathProofs -------------------------
(***************************************************************************)
(* The safety properties of VoIPSendPath for every size of the two pools,  *)
(* and that the send queue with its pool and its thread is a PacketPipe.   *)
(***************************************************************************)
EXTENDS VoIPSendPath, TLAPS, FiniteSetTheorems, SequenceTheorems

(* NoAbort and BuffersHeldOnce are not inductive.  That a queue has room   *)
(* follows from where the buffers are, so the invariant says it of every   *)
(* buffer: q is a queue, used the bits set in its pool, hold the buffer in *)
(* the hands of each thread.  No entry occurs twice (nor does the NULL of  *)
(* Stop()), a buffer in a queue is in nobody's hands, no two threads hold  *)
(* the same one, and the used buffers are those in one of these places.    *)
OnePlace(q, used, hold) ==
    /\ \A i, j \in 1..Len(q) : q[i] = q[j] => i = j
    /\ \A i \in 1..Len(q) : q[i] # Null =>
         q[i] \in used /\ \A t \in DOMAIN hold : hold[t] # q[i]
    /\ \A t \in DOMAIN hold : hold[t] # Null =>
         hold[t] \in used /\ \A u \in DOMAIN hold : hold[u] = hold[t] => u = t
    /\ \A b \in used : (\E i \in 1..Len(q) : q[i] = b) \/ (\E t \in DOMAIN hold : hold[t] = b)

Absent(x, q) == \A i \in 1..Len(q) : q[i] # x

(* Where a thread holds a buffer. *)
HandsInv ==
    /\ pc["capture"] \in {"loop", "put"}
    /\ pc["encoder"] \in {"loop", "wait", "take", "work", "get", "put", "get2", "put2",
                          "reuse", "done"}
    /\ pc["send"] \in {"loop", "wait", "take", "work", "done"}
    /\ \A t \in Workers : pc[t] \in {"loop", "work", "put", "done"}
    /\ pc["owner"] \in {"run", "flagged", "wake", "joinSend", "joinRecv", "joinTick",
                        "stopped", "wakeEnc", "joinEnc", "delete", "done"}
    /\ buf["capture"] = Null /\ buf["owner"] = Null
    /\ \A t \in Workers : buf[t] # Null <=> pc[t] = "put"
    /\ buf["send"] # Null <=> pc["send"] = "work"
    /\ buf["encoder"] # Null <=> pc["encoder"] \in {"put", "put2"}
    /\ audio["capture"] # Null <=> pc["capture"] = "put"
    /\ audio["encoder"] # Null <=>
         pc["encoder"] \in {"work", "get", "put", "get2", "put2", "reuse"}

(* The NULL is put once, late, into each queue. *)
WakeInv ==
    /\ pc["owner"] \in {"run", "flagged", "wake"} => Absent(Null, sendQueue)
    /\ pc["owner"] \notin {"joinEnc", "delete", "done"} => Absent(Null, encQueue)

(* The semaphore counts the entries, but for the one that a consumer has   *)
(* been let through for and not taken yet.                                 *)
SemInv ==
    /\ sendSem + (IF pc["send"] = "take" THEN 1 ELSE 0) = Len(sendQueue)
    /\ encSem + (IF pc["encoder"] = "take" THEN 1 ELSE 0) = Len(encQueue)

(* What the owner has waited for. *)
JoinInv ==
    LET at == pc["owner"] IN
    /\ at \in {"joinRecv", "joinTick", "stopped", "wakeEnc", "joinEnc", "delete", "done"} =>
         pc["send"] = "done"
    /\ at \in {"joinTick", "stopped", "wakeEnc", "joinEnc", "delete", "done"} =>
         pc["recv"] = "done"
    /\ at \in {"stopped", "wakeEnc", "joinEnc", "delete", "done"} => pc["tick"] = "done"
    /\ at \in {"delete", "done"} => pc["encoder"] = "done"

SendInv == OnePlace(sendQueue, sendUsed, buf)
EncInv == OnePlace(encQueue, encUsed, audio)

IndInv ==
    /\ TypeOK
    /\ ~aborted
    /\ HandsInv
    /\ WakeInv
    /\ SemInv
    /\ JoinInv
    /\ SendInv
    /\ EncInv

-----------------------------------------------------------------------------
(* The operations of a queue and its pool keep every buffer in one place.  *)

(* BufferPool::Get lends a buffer that is nowhere. *)
LEMMA GetKeepsPlace ==
    ASSUME NEW B, NEW T, NEW q \in Seq(B \cup {Null}), NEW used \in SUBSET B,
           NEW hold \in [T -> B \cup {Null}], NEW t \in T, NEW b \in B \ used,
           Null \notin B, hold[t] = Null, OnePlace(q, used, hold)
    PROVE  OnePlace(q, used \cup {b}, [hold EXCEPT ![t] = b])
  BY DEF OnePlace

(* Put moves a buffer from a thread's hands to the end of the queue, where *)
(* it was not before.                                                      *)
LEMMA PutKeepsPlace ==
    ASSUME NEW B, NEW T, NEW q \in Seq(B \cup {Null}), NEW used \in SUBSET B,
           NEW hold \in [T -> B \cup {Null}], NEW t \in T,
           Null \notin B, hold[t] # Null, OnePlace(q, used, hold)
    PROVE  /\ OnePlace(Append(q, hold[t]), used, [hold EXCEPT ![t] = Null])
           /\ Absent(hold[t], q)
  <1> DEFINE b == hold[t]
             r == Append(q, b)
             h == [hold EXCEPT ![t] = Null]
  <1>1. /\ Len(q) \in Nat /\ r \in Seq(B \cup {Null}) /\ Len(r) = Len(q) + 1
        /\ \A i \in 1..Len(q) : r[i] = q[i]
        /\ r[Len(q) + 1] = b
    BY AppendProperties
  <1>2. Absent(b, q) /\ b \in used
    BY DEF OnePlace, Absent
  <1>3. \A u \in T : h[u] = IF u = t THEN Null ELSE hold[u]
    OBVIOUS
  <1>4. DOMAIN h = T /\ DOMAIN hold = T
    OBVIOUS
  <1> HIDE DEF r, h
  <1>5. ASSUME NEW i \in 1..Len(r), NEW j \in 1..Len(r), r[i] = r[j]
        PROVE  i = j
    BY <1>1, <1>2, <1>5 DEF OnePlace, Absent
  <1>6. ASSUME NEW i \in 1..Len(r), r[i] # Null
        PROVE  r[i] \in used /\ \A u \in T : h[u] # r[i]
    <2>1. CASE i \in 1..Len(q)
      BY <1>1, <1>2, <1>3, <1>4, <1>6, <2>1 DEF OnePlace
    <2>2. CASE i = Len(q) + 1
      BY <1>1, <1>2, <1>3, <1>4, <1>6, <2>2 DEF OnePlace
    <2> QED
      BY <1>1, <2>1, <2>2
  <1>7. ASSUME NEW u \in T, h[u] # Null
        PROVE  h[u] \in used /\ \A w \in T : h[w] = h[u] => w = u
    BY <1>3, <1>4, <1>7 DEF OnePlace
  <1>8. ASSUME NEW c \in used
        PROVE  (\E i \in 1..Len(r) : r[i] = c) \/ (\E u \in T : h[u] = c)
    <2>1. CASE c = b
      BY <1>1, <2>1
    <2>2. CASE c # b /\ \E i \in 1..Len(q) : q[i] = c
      BY <1>1, <2>2
    <2>3. CASE c # b /\ \E u \in T : hold[u] = c
      BY <1>3, <2>3
    <2> QED
      BY <1>4, <2>1, <2>2, <2>3 DEF OnePlace
  <1>9. OnePlace(r, used, h)
    BY <1>4, <1>5, <1>6, <1>7, <1>8 DEF OnePlace
  <1> QED
    BY <1>2, <1>9 DEF r, h

(* The NULL of Stop() is one more entry, and the first of its kind. *)
LEMMA PutNullKeepsPlace ==
    ASSUME NEW B, NEW T, NEW q \in Seq(B \cup {Null}), NEW used \in SUBSET B,
           NEW hold \in [T -> B \cup {Null}],
           Null \notin B, Absent(Null, q), OnePlace(q, used, hold)
    PROVE  OnePlace(Append(q, Null), used, hold)
  <1> DEFINE r == Append(q, Null)
  <1>1. /\ Len(q) \in Nat /\ Len(r) = Len(q) + 1
        /\ \A i \in 1..Len(q) : r[i] = q[i]
        /\ r[Len(q) + 1] = Null
    BY AppendProperties
  <1> HIDE DEF r
  <1>2. \A i \in 1..Len(r) : i \in 1..Len(q) \/ i = Len(q) + 1
    BY <1>1
  <1>3. \A i \in 1..Len(q) : i \in 1..Len(r)
    BY <1>1
  <1>4. OnePlace(r, used, hold)
    BY <1>1, <1>2, <1>3 DEF OnePlace, Absent
  <1> QED
    BY <1>4 DEF r

(* b is the front of q and r is the rest. *)
Front(q, b, r) ==
    /\ Len(q) > 0
    /\ Len(r) = Len(q) - 1
    /\ b = q[1]
    /\ \A i \in 1..Len(r) : r[i] = q[i + 1]

(* Head and Tail split a queue that is not empty in this way. *)
LEMMA FrontOfQueue ==
    ASSUME NEW S, NEW q \in Seq(S), q # <<>>
    PROVE  /\ Front(q, Head(q), Tail(q))
           /\ Head(q) \in S /\ Tail(q) \in Seq(S)
  BY HeadTailProperties, EmptySeq, LenProperties DEF Front

(* GetInternal moves the front of the queue into the consumer's hands. *)
LEMMA TakeKeepsPlace ==
    ASSUME NEW B, NEW T, NEW q \in Seq(B \cup {Null}), NEW used \in SUBSET B,
           NEW hold \in [T -> B \cup {Null}], NEW t \in T,
           Null \notin B, hold[t] = Null, OnePlace(q, used, hold),
           NEW r \in Seq(B \cup {Null}), NEW b \in B \cup {Null}, Front(q, b, r)
    PROVE  /\ OnePlace(r, used, [hold EXCEPT ![t] = b])
           /\ Absent(Null, q) => Absent(Null, r)
  <1> DEFINE h == [hold EXCEPT ![t] = b]
  <1>1. /\ Len(q) \in Nat /\ Len(q) > 0 /\ Len(r) = Len(q) - 1
        /\ \A i \in 1..Len(r) : r[i] = q[i + 1]
        /\ b = q[1]
    BY LenProperties DEF Front
  <1>2. /\ \A i \in 1..Len(r) : i + 1 \in 1..Len(q) /\ i + 1 # 1
        /\ \A i \in 1..Len(q) : i # 1 => i - 1 \in 1..Len(r) /\ r[i - 1] = q[i]
        /\ 1 \in 1..Len(q)
    BY <1>1
  <1>3. \A u \in T : h[u] = IF u = t THEN b ELSE hold[u]
    BY <1>1
  <1>4. DOMAIN h = T /\ DOMAIN hold = T
    OBVIOUS
  <1> HIDE DEF h
  <1>5. ASSUME NEW i \in 1..Len(r), NEW j \in 1..Len(r), r[i] = r[j]
        PROVE  i = j
    <2>1. i + 1 = j + 1
      BY <1>1, <1>2, <1>5 DEF OnePlace
    <2> QED
      BY <1>1, <2>1
  <1>6. ASSUME NEW i \in 1..Len(r), r[i] # Null
        PROVE  r[i] \in used /\ \A u \in T : h[u] # r[i]
    BY <1>1, <1>2, <1>3, <1>4, <1>6 DEF OnePlace
  <1>7. ASSUME NEW u \in T, h[u] # Null
        PROVE  h[u] \in used /\ \A w \in T : h[w] = h[u] => w = u
    BY <1>1, <1>2, <1>3, <1>4, <1>7 DEF OnePlace
  <1>8. ASSUME NEW c \in used
        PROVE  (\E i \in 1..Len(r) : r[i] = c) \/ (\E u \in T : h[u] = c)
    <2>1. CASE c = b
      BY <1>3, <2>1
    <2>2. CASE c # b /\ \E i \in 1..Len(q) : q[i] = c
      BY <1>1, <1>2, <2>2
    <2>3. CASE c # b /\ \E u \in T : hold[u] = c
      BY <1>3, <2>3
    <2> QED
      BY <1>4, <2>1, <2>2, <2>3 DEF OnePlace
  <1>9. OnePlace(r, used, h)
    BY <1>4, <1>5, <1>6, <1>7, <1>8 DEF OnePlace
  <1>10. Absent(Null, q) => Absent(Null, r)
    BY <1>1, <1>2 DEF Absent
  <1> QED
    BY <1>1, <1>9, <1>10 DEF h

(* BufferPool::Reuse clears the bit of a buffer that only its caller has. *)
LEMMA ReuseKeepsPlace ==
    ASSUME NEW B, NEW T, NEW q \in Seq(B \cup {Null}), NEW used \in SUBSET B,
           NEW hold \in [T -> B \cup {Null}], NEW t \in T,
           Null \notin B, hold[t] # Null, OnePlace(q, used, hold)
    PROVE  OnePlace(q, used \ {hold[t]}, [hold EXCEPT ![t] = Null])
  BY DEF OnePlace

(* A queue without a repeated entry that lacks some buffer, or the NULL,   *)
(* has a free place, when it has one place more than the pool has buffers. *)
LEMMA RoomForAbsent ==
    ASSUME NEW n \in Nat, NEW q \in Seq((1..n) \cup {Null}), Null \notin 1..n,
           NEW x \in (1..n) \cup {Null}, Absent(x, q),
           \A i, j \in 1..Len(q) : q[i] = q[j] => i = j
    PROVE  Len(q) < n + 1
  <1> DEFINE S == (1..n) \cup {Null}
             R == S \ {x}
  <1>1. \A m \in Nat : IsFiniteSet(1..m) /\ Cardinality(1..m) = m
    <2> SUFFICES ASSUME NEW m \in Nat
                 PROVE  IsFiniteSet(1..m) /\ Cardinality(1..m) = m
      OBVIOUS
    <2>1. 1 \in Int /\ m \in Int
      OBVIOUS
    <2>2. /\ IsFiniteSet(1..m)
          /\ Cardinality(1..m) = IF 1 > m THEN 0 ELSE m - 1 + 1
      BY <2>1, FS_Interval, Zenon
    <2>3. (IF 1 > m THEN 0 ELSE m - 1 + 1) = m
      OBVIOUS
    <2> QED
      BY <2>2, <2>3
  <1>2. IsFiniteSet(S) /\ Cardinality(S) = n + 1
    BY <1>1, FS_AddElement
  <1>3. IsFiniteSet(R) /\ Cardinality(R) = n
    <2>1. IsFiniteSet(R) /\ Cardinality(R) = IF x \in S THEN Cardinality(S) - 1
                                                         ELSE Cardinality(S)
      BY <1>2, FS_RemoveElement, Zenon
    <2> QED
      BY <1>2, <2>1
  <1>4. q \in [1..Len(q) -> R] /\ Len(q) \in Nat
    BY LenProperties DEF Absent
  <1>5. q \in Injection(1..Len(q), R)
    BY <1>4 DEF Injection, IsInjective
  <1>6. Cardinality(1..Len(q)) <= Cardinality(R)
    BY <1>3, <1>5, FS_Injection, Zenon
  <1> QED
    BY <1>1, <1>3, <1>4, <1>6

-----------------------------------------------------------------------------
(* The buffers of a pool are numbered, the NULL is none of them. *)
LEMMA PoolFacts ==
    /\ SQ!Buffers = 1..SendBuffers /\ EQ!Buffers = 1..EncBuffers
    /\ Null \notin SQ!Buffers /\ Null \notin EQ!Buffers
    /\ SendBuffers \in Nat /\ SendCapacity = SendBuffers + 1
    /\ EncBuffers \in Nat /\ EncCapacity = EncBuffers + 1
  BY PoolAssumption DEF SQ!Buffers, EQ!Buffers

(* The steps that touch neither queue nor pool: a thread goes on. *)
LEMMA QuietStep ==
    ASSUME IndInv, UNCHANGED <<qvars, buf, audio>>,
           \/ EncoderLoop \/ EncoderDrop \/ EncoderCall \/ EncoderNoBuffer
           \/ \E t \in Workers : WorkerLoop(t) \/ WorkerNext(t)
           \/ SendLoop \/ StopBegin \/ StopReceiver \/ JoinSend \/ JoinRecv \/ JoinTick
           \/ EncoderStop \/ JoinEncoder \/ DeleteQueue
    PROVE  IndInv'
  <1> USE DEF IndInv, TypeOK, Threads, Workers, HandsInv, JoinInv, SemInv, WakeInv, SendInv, EncInv, Goto, Join,
        qvars, flags, SQ!QueueTypeOK, EQ!QueueTypeOK
  <1>1. CASE EncoderLoop
    BY <1>1 DEF EncoderLoop
  <1>2. CASE EncoderDrop
    BY <1>2 DEF EncoderDrop
  <1>3. CASE EncoderCall
    BY <1>3 DEF EncoderCall
  <1>4. CASE EncoderNoBuffer
    BY <1>4 DEF EncoderNoBuffer, AfterFrame
  <1>5. CASE SendLoop
    BY <1>5 DEF SendLoop
  <1>6. CASE StopBegin
    BY <1>6 DEF StopBegin
  <1>7. CASE StopReceiver
    <2>1. runReceiver' \in BOOLEAN
      BY <1>7, Zenon DEF StopReceiver
    <2>2. pc' = [pc EXCEPT !["owner"] = "wake"] /\ pc["owner"] = "flagged"
      BY <1>7 DEF StopReceiver
    <2>3. stopping' = stopping /\ running' = running
      BY <1>7 DEF StopReceiver
    <2> QED
      BY <2>1, <2>2, <2>3
  <1>8. CASE JoinSend
    BY <1>8 DEF JoinSend
  <1>9. CASE JoinRecv
    BY <1>9 DEF JoinRecv
  <1>10. CASE JoinTick
    BY <1>10 DEF JoinTick
  <1>11. CASE EncoderStop
    <2>1. running' \in BOOLEAN
      BY <1>11, Zenon DEF EncoderStop
    <2>2. pc' = [pc EXCEPT !["owner"] = "wakeEnc"] /\ pc["owner"] = "stopped"
      BY <1>11 DEF EncoderStop
    <2>3. stopping' = stopping /\ runReceiver' = runReceiver
      BY <1>11 DEF EncoderStop
    <2> QED
      BY <2>1, <2>2, <2>3
  <1>12. CASE JoinEncoder
    BY <1>12 DEF JoinEncoder
  <1>13. CASE DeleteQueue
    BY <1>13 DEF DeleteQueue
  <1>14. ASSUME NEW t \in Workers, WorkerLoop(t)
         PROVE  IndInv'
    BY <1>14 DEF WorkerLoop
  <1>15. ASSUME NEW t \in Workers, WorkerNext(t)
         PROVE  IndInv'
    BY <1>15 DEF WorkerNext
  <1> QED
    BY <1>1, <1>2, <1>3, <1>4, <1>5, <1>6, <1>7, <1>8, <1>9, <1>10, <1>11, <1>12, <1>13, <1>14, <1>15

(* A consumer is let through by the semaphore. *)
LEMMA AcquireStep ==
    ASSUME IndInv, SendWait \/ EncoderWait
    PROVE  IndInv'
  <1> USE DEF IndInv, TypeOK, Threads, Workers, HandsInv, JoinInv, SemInv, WakeInv,
        SendInv, EncInv, Goto, flags, sq, eq, SQ!QueueTypeOK, EQ!QueueTypeOK
  <1>1. CASE SendWait
    BY <1>1 DEF SendWait, SQ!Acquire
  <1>2. CASE EncoderWait
    BY <1>2 DEF EncoderWait, EQ!Acquire
  <1> QED
    BY <1>1, <1>2

(* A thread borrows a buffer. *)
LEMMA GetStep ==
    ASSUME IndInv, CaptureGet \/ EncoderGet \/ \E t \in Workers : WorkerGet(t)
    PROVE  IndInv'
  <1> USE DEF Goto, flags, sq, eq
  <1>1. CASE CaptureGet
    <2>1. PICK b \in EQ!Buffers : EQ!Get(b) /\ audio' = [audio EXCEPT !["capture"] = b]
      BY <1>1 DEF CaptureGet
    <2>2. audio["capture"] = Null /\ b \in EQ!Buffers \ encUsed
      BY <1>1, <2>1 DEF CaptureGet, IndInv, HandsInv, EQ!Get, EQ!Free
    <2>3. encUsed' = encUsed \cup {b} /\ UNCHANGED <<encQueue, encSem, aborted>>
      BY <2>1 DEF EQ!Get
    <2>4. EncInv'
      <3>1. /\ encQueue \in Seq(EQ!Buffers \cup {Null}) /\ encUsed \in SUBSET EQ!Buffers
            /\ audio \in [{"capture", "encoder"} -> EQ!Buffers \cup {Null}]
            /\ OnePlace(encQueue, encUsed, audio)
        BY DEF IndInv, EncInv, TypeOK, EQ!QueueTypeOK
      <3>2. OnePlace(encQueue, encUsed \cup {b}, [audio EXCEPT !["capture"] = b])
        BY <2>2, <3>1, PoolFacts, GetKeepsPlace
      <3> QED
        BY <2>1, <2>3, <3>2 DEF EncInv
    <2>5. SendInv' /\ ~aborted'
      BY <1>1, <2>3 DEF CaptureGet, IndInv, SendInv
    <2>6. TypeOK'
      BY <1>1, <2>1, <2>3 DEF CaptureGet, IndInv, TypeOK, Threads, Workers,
         SQ!QueueTypeOK, EQ!QueueTypeOK
    <2>7. HandsInv'
      BY <1>1, <2>1, PoolFacts DEF CaptureGet, IndInv, TypeOK, HandsInv, Threads, Workers
    <2>8. WakeInv' /\ SemInv' /\ JoinInv'
      BY <1>1, <2>3 DEF CaptureGet, IndInv, TypeOK, WakeInv, SemInv, JoinInv, Threads, Workers
    <2> QED
      BY <2>4, <2>5, <2>6, <2>7, <2>8 DEF IndInv
  <1>2. ASSUME NEW t \in Workers \cup {"encoder"}, NEW b \in SQ!Buffers, SQ!Get(b),
               NEW old, NEW new, Goto(t, old, new),
               \/ t \in Workers /\ old = "work" /\ new = "put"
               \/ t = "encoder" /\ old = "get" /\ new = "put"
               \/ t = "encoder" /\ old = "get2" /\ new = "put2",
               buf' = [buf EXCEPT ![t] = b], UNCHANGED <<eq, audio, flags>>
        PROVE  IndInv'
    <2>1. buf[t] = Null /\ b \in SQ!Buffers \ sendUsed
      BY <1>2 DEF IndInv, HandsInv, SQ!Get, SQ!Free
    <2>2. sendUsed' = sendUsed \cup {b} /\ UNCHANGED <<sendQueue, sendSem, aborted>>
      BY <1>2 DEF SQ!Get
    <2>3. SendInv'
      <3>1. t \in Threads /\ buf \in [Threads -> SQ!Buffers \cup {Null}]
        BY <1>2 DEF IndInv, TypeOK, Threads
      <3> QED
        BY <1>2, <2>1, <2>2, <3>1, PoolFacts, GetKeepsPlace
           DEF IndInv, SendInv, TypeOK, SQ!QueueTypeOK
    <2>4. EncInv' /\ ~aborted'
      BY <1>2, <2>2 DEF IndInv, EncInv
    <2>5. TypeOK'
      BY <1>2, <2>2 DEF IndInv, TypeOK, Threads, Workers, SQ!QueueTypeOK, EQ!QueueTypeOK
    <2>6. HandsInv'
      BY <1>2, PoolFacts DEF IndInv, TypeOK, HandsInv, Threads, Workers
    <2>7. WakeInv' /\ SemInv' /\ JoinInv'
      BY <1>2, <2>2 DEF IndInv, TypeOK, WakeInv, SemInv, JoinInv, Threads, Workers
    <2> QED
      BY <2>3, <2>4, <2>5, <2>6, <2>7 DEF IndInv
  <1>3. CASE EncoderGet
    BY <1>2, <1>3 DEF EncoderGet
  <1>4. ASSUME NEW t \in Workers, WorkerGet(t)
        PROVE  IndInv'
    BY <1>2, <1>4 DEF WorkerGet
  <1> QED
    BY <1>1, <1>3, <1>4

(* A buffer or the NULL goes into a queue, which has room for it. *)
LEMMA PutStep ==
    ASSUME IndInv, CapturePut \/ EncoderPut \/ \E t \in Workers : WorkerPut(t)
    PROVE  IndInv'
  <1> USE DEF Goto, flags, sq, eq
  <1>1. CASE CapturePut
    <2> DEFINE b == audio["capture"]
    <2>1. /\ b \in EQ!Buffers /\ encQueue \in Seq(EQ!Buffers \cup {Null})
          /\ audio \in [{"capture", "encoder"} -> EQ!Buffers \cup {Null}]
          /\ encUsed \in SUBSET EQ!Buffers /\ b # Null
      BY <1>1 DEF CapturePut, IndInv, HandsInv, TypeOK, EQ!QueueTypeOK
    <2>2. OnePlace(Append(encQueue, b), encUsed, [audio EXCEPT !["capture"] = Null])
          /\ Absent(b, encQueue)
      BY <2>1, PoolFacts, PutKeepsPlace DEF IndInv, EncInv
    <2>3. Len(encQueue) < EncCapacity
      BY <2>1, <2>2, PoolFacts, RoomForAbsent DEF IndInv, EncInv, OnePlace
    <2>4. /\ encQueue' = Append(encQueue, b) /\ encSem' = encSem + 1
          /\ UNCHANGED <<encUsed, aborted>> /\ audio' = [audio EXCEPT !["capture"] = Null]
      BY <1>1, <2>3 DEF CapturePut, EQ!Put
    <2>5. /\ encQueue' \in Seq(EQ!Buffers \cup {Null}) /\ Len(encQueue') = Len(encQueue) + 1
          /\ Absent(Null, encQueue) => Absent(Null, encQueue')
          /\ Len(encQueue) \in Nat
      BY <2>1, <2>4, AppendProperties, LenProperties DEF Absent
    <2>6. EncInv' /\ SendInv' /\ ~aborted'
      BY <1>1, <2>2, <2>4 DEF CapturePut, IndInv, EncInv, SendInv
    <2>7. TypeOK'
      BY <1>1, <2>4, <2>5 DEF CapturePut, IndInv, TypeOK, Threads, Workers,
         SQ!QueueTypeOK, EQ!QueueTypeOK
    <2>8. HandsInv'
      BY <1>1, <2>4 DEF CapturePut, IndInv, TypeOK, HandsInv, Threads, Workers
    <2>9. WakeInv' /\ SemInv' /\ JoinInv'
      BY <1>1, <2>4, <2>5 DEF CapturePut, IndInv, TypeOK, WakeInv, SemInv, JoinInv, Threads,
         Workers, EQ!QueueTypeOK
    <2> QED
      BY <2>6, <2>7, <2>8, <2>9 DEF IndInv
  <1>2. ASSUME NEW t \in Workers \cup {"encoder"}, NEW old, NEW new, Goto(t, old, new),
               SQ!Put(buf[t]),
               \/ t \in Workers /\ old = "put" /\ new = "work"
               \/ t = "encoder" /\ old \in {"put", "put2"} /\ new \in {"get2", "reuse"},
               buf' = [buf EXCEPT ![t] = Null], UNCHANGED <<eq, audio, flags>>
        PROVE  IndInv'
    <2> DEFINE b == buf[t]
    <2>1. /\ b \in SQ!Buffers /\ sendQueue \in Seq(SQ!Buffers \cup {Null})
          /\ buf \in [Threads -> SQ!Buffers \cup {Null}] /\ t \in Threads
          /\ sendUsed \in SUBSET SQ!Buffers /\ b # Null
      BY <1>2 DEF IndInv, HandsInv, TypeOK, SQ!QueueTypeOK, Threads
    <2>2. OnePlace(Append(sendQueue, b), sendUsed, [buf EXCEPT ![t] = Null])
          /\ Absent(b, sendQueue)
      BY <2>1, PoolFacts, PutKeepsPlace DEF IndInv, SendInv
    <2>3. Len(sendQueue) < SendCapacity
      BY <2>1, <2>2, PoolFacts, RoomForAbsent DEF IndInv, SendInv, OnePlace
    <2>4. /\ sendQueue' = Append(sendQueue, b) /\ sendSem' = sendSem + 1
          /\ UNCHANGED <<sendUsed, aborted>>
      BY <1>2, <2>3 DEF SQ!Put
    <2>5. /\ sendQueue' \in Seq(SQ!Buffers \cup {Null}) /\ Len(sendQueue') = Len(sendQueue) + 1
          /\ Absent(Null, sendQueue) => Absent(Null, sendQueue')
          /\ Len(sendQueue) \in Nat
      BY <2>1, <2>4, AppendProperties, LenProperties DEF Absent
    <2>6. EncInv' /\ SendInv' /\ ~aborted'
      BY <1>2, <2>2, <2>4 DEF IndInv, EncInv, SendInv
    <2>7. TypeOK'
      BY <1>2, <2>4, <2>5 DEF IndInv, TypeOK, Threads, Workers, SQ!QueueTypeOK, EQ!QueueTypeOK
    <2>8. HandsInv'
      BY <1>2, <2>4 DEF IndInv, TypeOK, HandsInv, Threads, Workers
    <2>9. WakeInv' /\ SemInv' /\ JoinInv'
      BY <1>2, <2>4, <2>5 DEF IndInv, TypeOK, WakeInv, SemInv, JoinInv, Threads, Workers,
         SQ!QueueTypeOK
    <2> QED
      BY <2>6, <2>7, <2>8, <2>9 DEF IndInv
  <1>3. CASE EncoderPut
    BY <1>2, <1>3 DEF EncoderPut, AfterFrame
  <1>4. ASSUME NEW t \in Workers, WorkerPut(t)
        PROVE  IndInv'
    BY <1>2, <1>4 DEF WorkerPut
  <1> QED
    BY <1>1, <1>3, <1>4

(* The NULL of Stop() goes into a queue, which has room for it. *)
LEMMA WakeStep ==
    ASSUME IndInv, StopWake \/ EncoderWake
    PROVE  IndInv'
  <1> USE DEF Goto, flags, sq, eq
  <1>1. CASE StopWake
    <2>1. /\ sendQueue \in Seq(SQ!Buffers \cup {Null}) /\ sendUsed \in SUBSET SQ!Buffers
          /\ buf \in [Threads -> SQ!Buffers \cup {Null}]
          /\ OnePlace(sendQueue, sendUsed, buf) /\ Absent(Null, sendQueue)
      BY <1>1 DEF StopWake, IndInv, SendInv, WakeInv, TypeOK, SQ!QueueTypeOK
    <2>2. OnePlace(Append(sendQueue, Null), sendUsed, buf)
      BY <2>1, PoolFacts, PutNullKeepsPlace
    <2>3. Len(sendQueue) < SendCapacity
      BY <2>1, PoolFacts, RoomForAbsent DEF OnePlace
    <2>4. sendQueue' = Append(sendQueue, Null) /\ sendSem' = sendSem + 1 /\ UNCHANGED <<sendUsed, aborted>>
      BY <1>1, <2>3 DEF StopWake, SQ!Put
    <2>5. sendQueue' \in Seq(SQ!Buffers \cup {Null}) /\ Len(sendQueue') = Len(sendQueue) + 1
      BY <2>1, <2>4, AppendProperties
    <2>6. EncInv' /\ SendInv' /\ ~aborted'
      BY <1>1, <2>2, <2>4 DEF StopWake, IndInv, EncInv, SendInv
    <2>7. TypeOK'
      BY <1>1, <2>4, <2>5 DEF StopWake, IndInv, TypeOK, Threads, Workers,
         SQ!QueueTypeOK, EQ!QueueTypeOK
    <2>8. HandsInv' /\ JoinInv'
      BY <1>1 DEF StopWake, IndInv, TypeOK, HandsInv, JoinInv, Threads, Workers
    <2>9. WakeInv' /\ SemInv'
      BY <1>1, <2>4, <2>5 DEF StopWake, IndInv, TypeOK, WakeInv, SemInv, Threads, Workers,
         SQ!QueueTypeOK
    <2> QED
      BY <2>6, <2>7, <2>8, <2>9 DEF IndInv
  <1>2. CASE EncoderWake
    <2>1. /\ encQueue \in Seq(EQ!Buffers \cup {Null}) /\ encUsed \in SUBSET EQ!Buffers
          /\ audio \in [{"capture", "encoder"} -> EQ!Buffers \cup {Null}]
          /\ OnePlace(encQueue, encUsed, audio) /\ Absent(Null, encQueue)
      BY <1>2 DEF EncoderWake, IndInv, EncInv, WakeInv, TypeOK, EQ!QueueTypeOK
    <2>2. OnePlace(Append(encQueue, Null), encUsed, audio)
      BY <2>1, PoolFacts, PutNullKeepsPlace
    <2>3. Len(encQueue) < EncCapacity
      BY <2>1, PoolFacts, RoomForAbsent DEF OnePlace
    <2>4. encQueue' = Append(encQueue, Null) /\ encSem' = encSem + 1 /\ UNCHANGED <<encUsed, aborted>>
      BY <1>2, <2>3 DEF EncoderWake, EQ!Put
    <2>5. encQueue' \in Seq(EQ!Buffers \cup {Null}) /\ Len(encQueue') = Len(encQueue) + 1
      BY <2>1, <2>4, AppendProperties
    <2>6. EncInv' /\ SendInv' /\ ~aborted'
      BY <1>2, <2>2, <2>4 DEF EncoderWake, IndInv, EncInv, SendInv
    <2>7. TypeOK'
      BY <1>2, <2>4, <2>5 DEF EncoderWake, IndInv, TypeOK, Threads, Workers,
         SQ!QueueTypeOK, EQ!QueueTypeOK
    <2>8. HandsInv' /\ JoinInv'
      BY <1>2 DEF EncoderWake, IndInv, TypeOK, HandsInv, JoinInv, Threads, Workers
    <2>9. WakeInv' /\ SemInv'
      BY <1>2, <2>4, <2>5 DEF EncoderWake, IndInv, TypeOK, WakeInv, SemInv, Threads, Workers,
         EQ!QueueTypeOK
    <2> QED
      BY <2>6, <2>7, <2>8, <2>9 DEF IndInv
  <1> QED
    BY <1>1, <1>2

(* A consumer takes the front entry: the queue is not empty, because the   *)
(* semaphore let the consumer through for it.                              *)
LEMMA TakeStep ==
    ASSUME IndInv, SendTake \/ EncoderTake
    PROVE  IndInv'
  <1> USE DEF Goto, flags, sq, eq
  <1>1. CASE SendTake
    <2>1. /\ sendQueue \in Seq(SQ!Buffers \cup {Null}) /\ sendUsed \in SUBSET SQ!Buffers
          /\ buf \in [Threads -> SQ!Buffers \cup {Null}] /\ "send" \in Threads
          /\ OnePlace(sendQueue, sendUsed, buf) /\ buf["send"] = Null
      BY <1>1 DEF SendTake, IndInv, SendInv, HandsInv, TypeOK, SQ!QueueTypeOK, Threads
    <2>2. sendQueue # <<>>
      <3>1. sendSem \in Nat /\ sendSem + 1 = Len(sendQueue)
        BY <1>1 DEF SendTake, IndInv, SemInv, TypeOK, SQ!QueueTypeOK
      <3> QED
        BY <3>1
    <2> DEFINE r == Tail(sendQueue)
               b == Head(sendQueue)
    <2>3. /\ OnePlace(r, sendUsed, [buf EXCEPT !["send"] = b])
          /\ Absent(Null, sendQueue) => Absent(Null, r)
          /\ r \in Seq(SQ!Buffers \cup {Null})
          /\ Len(r) = Len(sendQueue) - 1
          /\ b \in SQ!Buffers \cup {Null}
      <3>1. /\ Front(sendQueue, b, r)
            /\ r \in Seq(SQ!Buffers \cup {Null}) /\ b \in SQ!Buffers \cup {Null}
        BY <2>1, <2>2, FrontOfQueue
      <3> HIDE DEF r, b
      <3>2. /\ OnePlace(r, sendUsed, [buf EXCEPT !["send"] = b])
            /\ Absent(Null, sendQueue) => Absent(Null, r)
        BY <2>1, <3>1, PoolFacts, TakeKeepsPlace
      <3> QED
        BY <3>1, <3>2 DEF Front
    <2>4. /\ sendQueue' = r /\ UNCHANGED <<sendSem, sendUsed, aborted>>
          /\ buf' = [buf EXCEPT !["send"] = b]
          /\ Goto("send", "take", IF b = Null THEN "loop" ELSE "work")
      BY <1>1, <2>2 DEF SendTake, SQ!GetInternal
    <2> HIDE DEF r, b
    <2>5. EncInv' /\ SendInv' /\ ~aborted'
      BY <1>1, <2>3, <2>4 DEF SendTake, IndInv, EncInv, SendInv
    <2>6. TypeOK'
      BY <1>1, <2>3, <2>4 DEF SendTake, IndInv, TypeOK, Threads, Workers,
         SQ!QueueTypeOK, EQ!QueueTypeOK
    <2>7. HandsInv' /\ JoinInv'
      BY <1>1, <2>3, <2>4 DEF SendTake, IndInv, TypeOK, HandsInv, JoinInv, Threads, Workers
    <2>8. WakeInv' /\ SemInv'
      BY <1>1, <2>1, <2>3, <2>4, LenProperties DEF SendTake, IndInv, TypeOK, WakeInv, SemInv,
         Threads, Workers, SQ!QueueTypeOK
    <2> QED
      BY <2>5, <2>6, <2>7, <2>8 DEF IndInv
  <1>2. CASE EncoderTake
    <2>1. /\ encQueue \in Seq(EQ!Buffers \cup {Null}) /\ encUsed \in SUBSET EQ!Buffers
          /\ audio \in [{"capture", "encoder"} -> EQ!Buffers \cup {Null}] /\ "encoder" \in {"capture", "encoder"}
          /\ OnePlace(encQueue, encUsed, audio) /\ audio["encoder"] = Null
      BY <1>2 DEF EncoderTake, IndInv, EncInv, HandsInv, TypeOK, EQ!QueueTypeOK, Threads
    <2>2. encQueue # <<>>
      <3>1. encSem \in Nat /\ encSem + 1 = Len(encQueue)
        BY <1>2 DEF EncoderTake, IndInv, SemInv, TypeOK, EQ!QueueTypeOK
      <3> QED
        BY <3>1
    <2> DEFINE r == Tail(encQueue)
               b == Head(encQueue)
    <2>3. /\ OnePlace(r, encUsed, [audio EXCEPT !["encoder"] = b])
          /\ Absent(Null, encQueue) => Absent(Null, r)
          /\ r \in Seq(EQ!Buffers \cup {Null})
          /\ Len(r) = Len(encQueue) - 1
          /\ b \in EQ!Buffers \cup {Null}
      <3>1. /\ Front(encQueue, b, r)
            /\ r \in Seq(EQ!Buffers \cup {Null}) /\ b \in EQ!Buffers \cup {Null}
        BY <2>1, <2>2, FrontOfQueue
      <3> HIDE DEF r, b
      <3>2. /\ OnePlace(r, encUsed, [audio EXCEPT !["encoder"] = b])
            /\ Absent(Null, encQueue) => Absent(Null, r)
        BY <2>1, <3>1, PoolFacts, TakeKeepsPlace
      <3> QED
        BY <3>1, <3>2 DEF Front
    <2>4. /\ encQueue' = r /\ UNCHANGED <<encSem, encUsed, aborted>>
          /\ audio' = [audio EXCEPT !["encoder"] = b]
          /\ Goto("encoder", "take", IF b = Null THEN "loop" ELSE "work")
      BY <1>2, <2>2 DEF EncoderTake, EQ!GetInternal
    <2> HIDE DEF r, b
    <2>5. EncInv' /\ SendInv' /\ ~aborted'
      BY <1>2, <2>3, <2>4 DEF EncoderTake, IndInv, EncInv, SendInv
    <2>6. TypeOK'
      BY <1>2, <2>3, <2>4 DEF EncoderTake, IndInv, TypeOK, Threads, Workers,
         SQ!QueueTypeOK, EQ!QueueTypeOK
    <2>7. HandsInv' /\ JoinInv'
      BY <1>2, <2>3, <2>4 DEF EncoderTake, IndInv, TypeOK, HandsInv, JoinInv, Threads, Workers
    <2>8. WakeInv' /\ SemInv'
      BY <1>2, <2>1, <2>3, <2>4, LenProperties DEF EncoderTake, IndInv, TypeOK, WakeInv, SemInv,
         Threads, Workers, EQ!QueueTypeOK
    <2> QED
      BY <2>5, <2>6, <2>7, <2>8 DEF IndInv
  <1> QED
    BY <1>1, <1>2

(* A consumer gives its buffer back. *)
LEMMA ReuseStep ==
    ASSUME IndInv, SendReuse \/ EncoderReuse
    PROVE  IndInv'
  <1> USE DEF Goto, flags, sq, eq
  <1>1. CASE SendReuse
    <2>1. /\ sendQueue \in Seq(SQ!Buffers \cup {Null}) /\ sendUsed \in SUBSET SQ!Buffers
          /\ buf \in [Threads -> SQ!Buffers \cup {Null}] /\ "send" \in Threads
          /\ OnePlace(sendQueue, sendUsed, buf) /\ buf["send"] # Null
      BY <1>1 DEF SendReuse, IndInv, SendInv, HandsInv, TypeOK, SQ!QueueTypeOK, Threads
    <2>2. OnePlace(sendQueue, sendUsed \ {buf["send"]}, [buf EXCEPT !["send"] = Null])
      BY <2>1, PoolFacts, ReuseKeepsPlace
    <2>3. sendUsed' = sendUsed \ {buf["send"]} /\ UNCHANGED <<sendQueue, sendSem, aborted>>
      BY <1>1 DEF SendReuse, SQ!Reuse
    <2>4. EncInv' /\ SendInv' /\ ~aborted'
      BY <1>1, <2>2, <2>3 DEF SendReuse, IndInv, EncInv, SendInv
    <2>5. TypeOK'
      BY <1>1, <2>3 DEF SendReuse, IndInv, TypeOK, Threads, Workers,
         SQ!QueueTypeOK, EQ!QueueTypeOK
    <2>6. HandsInv' /\ JoinInv'
      BY <1>1, <2>3 DEF SendReuse, IndInv, TypeOK, HandsInv, JoinInv, Threads, Workers
    <2>7. WakeInv' /\ SemInv'
      BY <1>1, <2>3 DEF SendReuse, IndInv, TypeOK, WakeInv, SemInv, Threads, Workers
    <2> QED
      BY <2>4, <2>5, <2>6, <2>7 DEF IndInv
  <1>2. CASE EncoderReuse
    <2>1. /\ encQueue \in Seq(EQ!Buffers \cup {Null}) /\ encUsed \in SUBSET EQ!Buffers
          /\ audio \in [{"capture", "encoder"} -> EQ!Buffers \cup {Null}] /\ "encoder" \in {"capture", "encoder"}
          /\ OnePlace(encQueue, encUsed, audio) /\ audio["encoder"] # Null
      BY <1>2 DEF EncoderReuse, IndInv, EncInv, HandsInv, TypeOK, EQ!QueueTypeOK, Threads
    <2>2. OnePlace(encQueue, encUsed \ {audio["encoder"]}, [audio EXCEPT !["encoder"] = Null])
      BY <2>1, PoolFacts, ReuseKeepsPlace
    <2>3. encUsed' = encUsed \ {audio["encoder"]} /\ UNCHANGED <<encQueue, encSem, aborted>>
      BY <1>2 DEF EncoderReuse, EQ!Reuse
    <2>4. EncInv' /\ SendInv' /\ ~aborted'
      BY <1>2, <2>2, <2>3 DEF EncoderReuse, IndInv, EncInv, SendInv
    <2>5. TypeOK'
      BY <1>2, <2>3 DEF EncoderReuse, IndInv, TypeOK, Threads, Workers,
         SQ!QueueTypeOK, EQ!QueueTypeOK
    <2>6. HandsInv' /\ JoinInv'
      BY <1>2, <2>3 DEF EncoderReuse, IndInv, TypeOK, HandsInv, JoinInv, Threads, Workers
    <2>7. WakeInv' /\ SemInv'
      BY <1>2, <2>3 DEF EncoderReuse, IndInv, TypeOK, WakeInv, SemInv, Threads, Workers
    <2> QED
      BY <2>4, <2>5, <2>6, <2>7 DEF IndInv
  <1> QED
    BY <1>1, <1>2

-----------------------------------------------------------------------------
(* The invariant holds in every reachable state of the five threads of a   *)
(* call and its owner.                                                     *)
THEOREM Invariance == Spec => []IndInv
  <1>1. Init => IndInv
    <2> SUFFICES ASSUME Init PROVE IndInv
      OBVIOUS
    <2> USE DEF Init, SQ!QueueInit, EQ!QueueInit
    <2>1. TypeOK
      <3>1. /\ sendQueue \in Seq(SQ!Buffers \cup {Null}) /\ encQueue \in Seq(EQ!Buffers \cup {Null})
            /\ sendSem \in Nat /\ encSem \in Nat
            /\ sendUsed \in SUBSET SQ!Buffers /\ encUsed \in SUBSET EQ!Buffers
        OBVIOUS
      <3>2. /\ aborted \in BOOLEAN /\ stopping \in BOOLEAN
            /\ runReceiver \in BOOLEAN /\ running \in BOOLEAN
        BY Zenon
      <3>3. /\ pc \in [Threads -> {"run", "loop"}]
            /\ buf \in [Threads -> SQ!Buffers \cup {Null}]
            /\ audio \in [{"capture", "encoder"} -> EQ!Buffers \cup {Null}]
        OBVIOUS
      <3> QED
        BY <3>1, <3>2, <3>3 DEF TypeOK, SQ!QueueTypeOK, EQ!QueueTypeOK
    <2>2. HandsInv /\ JoinInv /\ ~aborted
      BY DEF HandsInv, JoinInv, Threads, Workers
    <2>3. WakeInv /\ SemInv
      BY DEF WakeInv, SemInv, Absent, Threads, Workers
    <2>4. SendInv /\ EncInv
      BY DEF SendInv, EncInv, OnePlace
    <2> QED
      BY <2>1, <2>2, <2>3, <2>4 DEF IndInv
  <1>2. IndInv /\ [Next]_vars => IndInv'
    <2> SUFFICES ASSUME IndInv, [Next]_vars PROVE IndInv'
      OBVIOUS
    <2>1. CASE UNCHANGED vars
      BY <2>1 DEF vars, qvars, flags, IndInv, TypeOK, HandsInv, WakeInv, SemInv, JoinInv,
         SendInv, EncInv, SQ!QueueTypeOK, EQ!QueueTypeOK
    <2>2. CASE Capture
      BY <2>2, GetStep, PutStep DEF Capture
    <2>3. CASE Encoder
      <3>1. CASE EncoderLoop \/ EncoderDrop \/ EncoderCall \/ EncoderNoBuffer
        BY <3>1, QuietStep DEF EncoderLoop, EncoderDrop, EncoderCall, EncoderNoBuffer
      <3> QED
        BY <2>3, <3>1, AcquireStep, TakeStep, GetStep, PutStep, ReuseStep DEF Encoder
    <2>4. CASE Sender
      <3>1. CASE SendLoop
        BY <3>1, QuietStep DEF SendLoop
      <3> QED
        BY <2>4, <3>1, AcquireStep, TakeStep, ReuseStep DEF Sender
    <2>5. CASE Owner
      <3>1. CASE StopWake \/ EncoderWake
        BY <3>1, WakeStep
      <3>2. CASE ~(StopWake \/ EncoderWake)
        BY <2>5, <3>2, QuietStep DEF Owner, StopBegin, StopReceiver, JoinSend, JoinRecv, JoinTick,
           Join, EncoderStop, JoinEncoder, DeleteQueue
      <3> QED
        BY <3>1, <3>2
    <2>6. ASSUME NEW t \in Workers, Worker(t)
          PROVE  IndInv'
      <3>1. CASE WorkerLoop(t) \/ WorkerNext(t)
        BY <3>1, QuietStep DEF WorkerLoop, WorkerNext
      <3> QED
        BY <2>6, <3>1, GetStep, PutStep DEF Worker
    <2> QED
      BY <2>1, <2>2, <2>3, <2>4, <2>5, <2>6 DEF Next
  <1> QED
    BY <1>1, <1>2, PTL DEF Spec

(* Neither Put() of the call's threads and of Stop() finds its queue full, *)
(* and no consumer finds its queue empty, for every size of the pools.     *)
THEOREM NeverAborts == Spec => []NoAbort
  <1>1. IndInv => NoAbort
    BY DEF IndInv, NoAbort
  <1> QED
    BY <1>1, Invariance, PTL

(* When the destructor has deleted the send queue, no thread that uses it  *)
(* is alive.                                                               *)
THEOREM DeletedUnused == Spec => []NoUseAfterDelete
  <1>1. IndInv => NoUseAfterDelete
    BY DEF IndInv, JoinInv, NoUseAfterDelete, Workers
  <1> QED
    BY <1>1, Invariance, PTL

(* Counting the places of a buffer. *)
LEMMA PlacesCounted ==
    ASSUME NEW B, NEW T, NEW q \in Seq(B \cup {Null}), NEW used \in SUBSET B,
           NEW hold \in [T -> B \cup {Null}], NEW b \in B,
           Null \notin B, OnePlace(q, used, hold),
           NEW H, \A t : t \in H <=> t \in T /\ hold[t] = b
    PROVE  Times(b, q) + Cardinality(H) = IF b \in used THEN 1 ELSE 0
  <1> DEFINE I == {i \in DOMAIN q : q[i] = b}
  <1>1. DOMAIN q = 1..Len(q) /\ DOMAIN hold = T
    BY LenProperties
  <1>2. Cardinality({}) = 0 /\ \A x : Cardinality({x}) = 1
    BY FS_EmptySet, FS_Singleton
  <1> SUFFICES Cardinality(I) + Cardinality(H) = IF b \in used THEN 1 ELSE 0
    BY DEF Times
  <1>3. CASE b \notin used
    <2>1. I = {} /\ H = {}
      BY <1>1, <1>3 DEF OnePlace
    <2> HIDE DEF I
    <2> QED
      BY <1>2, <1>3, <2>1
  <1>4. CASE b \in used /\ \E i \in 1..Len(q) : q[i] = b
    <2>1. PICK i \in 1..Len(q) : q[i] = b
      BY <1>4
    <2>2. I = {i} /\ H = {}
      BY <1>1, <2>1 DEF OnePlace
    <2> HIDE DEF I
    <2>3. Cardinality(I) = 1 /\ Cardinality(H) = 0
      BY <1>2, <2>2, Zenon
    <2> QED
      BY <1>4, <2>3
  <1>5. CASE b \in used /\ \E t \in T : hold[t] = b
    <2>1. PICK t \in T : hold[t] = b
      BY <1>5
    <2>2. I = {} /\ H = {t}
      BY <1>1, <2>1 DEF OnePlace
    <2> HIDE DEF I
    <2>3. Cardinality(I) = 0 /\ Cardinality(H) = 1
      BY <1>2, <2>2, Zenon
    <2> QED
      BY <1>5, <2>3
  <1> QED
    BY <1>1, <1>3, <1>4, <1>5 DEF OnePlace

(* A buffer that is lent is in exactly one place, a free one nowhere, for  *)
(* both pools and every size of them.                                      *)
THEOREM HeldOnce == Spec => []BuffersHeldOnce
  <1>1. IndInv => BuffersHeldOnce
    <2> SUFFICES ASSUME IndInv PROVE BuffersHeldOnce
      OBVIOUS
    <2>1. ASSUME NEW b \in SQ!Buffers
          PROVE  Times(b, sendQueue) + Cardinality({t \in Threads : buf[t] = b})
                   = IF b \in sendUsed THEN 1 ELSE 0
      <3>1. /\ sendQueue \in Seq(SQ!Buffers \cup {Null}) /\ sendUsed \in SUBSET SQ!Buffers
            /\ buf \in [Threads -> SQ!Buffers \cup {Null}]
            /\ OnePlace(sendQueue, sendUsed, buf) /\ Null \notin SQ!Buffers
        BY PoolFacts DEF IndInv, SendInv, TypeOK, SQ!QueueTypeOK
      <3> DEFINE H == {t \in Threads : buf[t] = b}
      <3>2. \A t : t \in H <=> t \in Threads /\ buf[t] = b
        OBVIOUS
      <3> HIDE DEF H
      <3>3. Times(b, sendQueue) + Cardinality(H) = IF b \in sendUsed THEN 1 ELSE 0
        BY <2>1, <3>1, <3>2, PlacesCounted
      <3> QED
        BY <3>3 DEF H
    <2>2. ASSUME NEW b \in EQ!Buffers
          PROVE  Times(b, encQueue) + Cardinality({t \in DOMAIN audio : audio[t] = b})
                   = IF b \in encUsed THEN 1 ELSE 0
      <3> DEFINE T == {"capture", "encoder"}
      <3>1. /\ encQueue \in Seq(EQ!Buffers \cup {Null}) /\ encUsed \in SUBSET EQ!Buffers
            /\ audio \in [T -> EQ!Buffers \cup {Null}]
            /\ OnePlace(encQueue, encUsed, audio) /\ Null \notin EQ!Buffers
        BY PoolFacts DEF IndInv, EncInv, TypeOK, EQ!QueueTypeOK
      <3> DEFINE H == {t \in DOMAIN audio : audio[t] = b}
      <3> HIDE DEF T
      <3>2. \A t : t \in H <=> t \in T /\ audio[t] = b
        BY <3>1
      <3> HIDE DEF H
      <3>3. Times(b, encQueue) + Cardinality(H) = IF b \in encUsed THEN 1 ELSE 0
        BY <2>2, <3>1, <3>2, PlacesCounted
      <3> QED
        BY <3>3 DEF H
    <2> QED
      BY <2>1, <2>2 DEF BuffersHeldOnce
  <1> QED
    BY <1>1, Invariance, PTL

-----------------------------------------------------------------------------
(* The entries of a queue that are packets.  What they are after each      *)
(* operation, when the NULL occurs at most once.                           *)

Once(q) == \A i, j \in 1..Len(q) : q[i] = q[j] => i = j

(* Without the NULL, the packets are the queue. *)
LEMMA DataWithoutNull ==
    ASSUME NEW S, NEW q \in Seq(S), Absent(Null, q)
    PROVE  Data(q) = q
  <1>1. DOMAIN q = 1..Len(q)
    BY LenProperties
  <1> QED
    BY <1>1 DEF Data, Absent

(* With the NULL at place k, the packets after it move up by one. *)
LEMMA DataWithNull ==
    ASSUME NEW S, NEW q \in Seq(S), Once(q), NEW k \in 1..Len(q), q[k] = Null
    PROVE  Data(q) = [i \in 1..(Len(q) - 1) |-> IF i < k THEN q[i] ELSE q[i + 1]]
  <1>1. DOMAIN q = 1..Len(q)
    BY LenProperties
  <1>2. (CHOOSE j \in DOMAIN q : q[j] = Null) = k
    BY <1>1 DEF Once
  <1> QED
    BY <1>1, <1>2 DEF Data

(* The packets of a queue are a sequence of buffers, each of its entries.  *)
LEMMA DataFacts ==
    ASSUME NEW B, NEW q \in Seq(B \cup {Null}), Once(q), Null \notin B
    PROVE  /\ Data(q) \in Seq(B)
           /\ \A i \in 1..Len(Data(q)) : \E j \in 1..Len(q) : Data(q)[i] = q[j]
  <1>1. DOMAIN q = 1..Len(q) /\ Len(q) \in Nat /\ \A i \in 1..Len(q) : q[i] \in B \cup {Null}
    BY LenProperties
  <1>2. CASE Absent(Null, q)
    <2>1. Data(q) = q
      BY <1>2, DataWithoutNull
    <2>2. q = [i \in 1..Len(q) |-> q[i]]
      BY <1>1
    <2>3. q \in Seq(B)
      BY <1>1, <1>2 DEF Absent
    <2> QED
      BY <2>1, <2>3
  <1>3. CASE \E k \in 1..Len(q) : q[k] = Null
    <2>1. PICK k \in 1..Len(q) : q[k] = Null
      BY <1>3
    <2> DEFINE e(i) == IF i < k THEN q[i] ELSE q[i + 1]
               n == Len(q) - 1
    <2>2. Data(q) = [i \in 1..n |-> e(i)]
      BY <2>1, DataWithNull
    <2>3. n \in Nat
      BY <1>1, <2>1
    <2>4. \A i \in 1..n : e(i) \in B /\ \E j \in 1..Len(q) : e(i) = q[j]
      <3> SUFFICES ASSUME NEW i \in 1..n
                   PROVE  e(i) \in B /\ \E j \in 1..Len(q) : e(i) = q[j]
        OBVIOUS
      <3>1. i \in 1..Len(q) /\ i + 1 \in 1..Len(q)
        BY <1>1, <2>1
      <3>2. CASE i < k
        BY <1>1, <2>1, <3>1, <3>2 DEF Once
      <3>3. CASE ~(i < k)
        BY <1>1, <2>1, <3>1, <3>3 DEF Once
      <3> QED
        BY <3>2, <3>3
    <2> HIDE DEF e, n
    <2>5. [i \in 1..n |-> e(i)] \in Seq(B) /\ Len([i \in 1..n |-> e(i)]) = n
      BY <2>3, <2>4, LenProperties
    <2> QED
      BY <2>2, <2>4, <2>5
  <1> QED
    BY <1>2, <1>3 DEF Absent

(* Put of a buffer adds a packet at the end. *)
LEMMA DataOfPut ==
    ASSUME NEW B, NEW q \in Seq(B \cup {Null}), Once(q), Null \notin B,
           NEW b \in B, Once(Append(q, b))
    PROVE  Data(Append(q, b)) = Append(Data(q), b)
  <1> DEFINE r == Append(q, b)
             d == Data(q)
             n == Len(q)
  <1>1. /\ n \in Nat /\ r \in Seq(B \cup {Null}) /\ Len(r) = n + 1
        /\ \A i \in 1..n : r[i] = q[i]
        /\ r[n + 1] = b
    BY AppendProperties, LenProperties
  <1>2. d \in Seq(B)
    BY DataFacts
  <1>3. /\ Append(d, b) \in Seq(B) /\ Len(Append(d, b)) = Len(d) + 1 /\ Len(d) \in Nat
        /\ \A i \in 1..Len(d) : Append(d, b)[i] = d[i]
        /\ Append(d, b)[Len(d) + 1] = b
    BY <1>2, AppendProperties, LenProperties
  <1>4. b # Null /\ Once(r)
    OBVIOUS
  <1>5. CASE Absent(Null, q)
    <2>1. Absent(Null, r)
      BY <1>1, <1>4, <1>5 DEF Absent
    <2>2. Data(q) = q
      BY <1>5, DataWithoutNull
    <2> HIDE DEF r
    <2>3. Data(r) = r
      BY <1>1, <2>1, DataWithoutNull
    <2> QED
      BY <2>2, <2>3 DEF r
  <1>6. CASE \E k \in 1..n : q[k] = Null
    <2>1. PICK k \in 1..n : q[k] = Null
      BY <1>6
    <2>2. r[k] = Null /\ k \in 1..Len(r)
      BY <1>1, <2>1
    <2> DEFINE a == Append(d, b)
               f == Data(r)
    <2>3. d = [i \in 1..(n - 1) |-> IF i < k THEN q[i] ELSE q[i + 1]]
      BY <2>1, DataWithNull
    <2> HIDE DEF r
    <2>4. f = [i \in 1..(Len(r) - 1) |-> IF i < k THEN r[i] ELSE r[i + 1]]
      BY <1>1, <1>4, <2>2, DataWithNull
    <2>5. f \in Seq(B)
      BY <1>1, <1>4, DataFacts
    <2>6. Len(d) = n - 1
      BY <1>1, <1>2, <2>1, <2>3, LenProperties
    <2>7. Len(f) = n
      BY <1>1, <2>4, <2>5, LenProperties
    <2>8. \A i \in 1..Len(f) : f[i] = a[i]
      <3> SUFFICES ASSUME NEW i \in 1..n PROVE f[i] = a[i]
        BY <2>7
      <3>1. f[i] = IF i < k THEN r[i] ELSE r[i + 1]
        BY <1>1, <2>4
      <3>2. CASE i = n
        BY <1>1, <1>3, <2>1, <2>6, <3>1, <3>2
      <3>3. CASE i \in 1..(n - 1)
        <4>1. a[i] = d[i]
          BY <1>3, <2>6, <3>3
        <4>2. d[i] = IF i < k THEN q[i] ELSE q[i + 1]
          BY <2>3, <3>3
        <4>3. r[i] = q[i] /\ r[i + 1] = q[i + 1]
          BY <1>1, <3>3
        <4> QED
          BY <3>1, <4>1, <4>2, <4>3
      <3>4. i = n \/ i \in 1..(n - 1)
        BY <1>1
      <3> QED
        BY <3>2, <3>3, <3>4, Zenon
    <2>9. a \in Seq(B) /\ Len(a) = Len(f)
      BY <1>1, <1>3, <2>1, <2>6, <2>7
    <2> HIDE DEF a, f
    <2>10. f = a
      BY <2>5, <2>8, <2>9, SeqEqual
    <2> QED
      BY <2>10 DEF a, f, r
  <1> QED
    BY <1>5, <1>6 DEF Absent

(* Put of the NULL adds no packet. *)
LEMMA DataOfPutNull ==
    ASSUME NEW B, NEW q \in Seq(B \cup {Null}), Null \notin B,
           Absent(Null, q), Once(Append(q, Null))
    PROVE  Data(Append(q, Null)) = Data(q)
  <1> DEFINE r == Append(q, Null)
             n == Len(q)
  <1>1. /\ n \in Nat /\ r \in Seq(B \cup {Null}) /\ Len(r) = n + 1
        /\ \A i \in 1..n : r[i] = q[i]
        /\ r[n + 1] = Null /\ Once(r)
    BY AppendProperties, LenProperties
  <1> HIDE DEF r
  <1>2. Data(r) = [i \in 1..(Len(r) - 1) |-> IF i < n + 1 THEN r[i] ELSE r[i + 1]]
    BY <1>1, DataWithNull
  <1>3. Data(r) = [i \in 1..n |-> q[i]]
    BY <1>1, <1>2
  <1>4. q = [i \in 1..n |-> q[i]]
    BY LenProperties
  <1>5. Data(q) = q
    BY DataWithoutNull
  <1> QED
    BY <1>3, <1>4, <1>5 DEF r

(* Taking the front of a queue takes the first packet, or the NULL alone. *)
LEMMA DataOfFront ==
    ASSUME NEW B, NEW q \in Seq(B \cup {Null}), Once(q), Null \notin B,
           NEW r \in Seq(B \cup {Null}), NEW b \in B \cup {Null}, Front(q, b, r)
    PROVE  Data(q) = IF b = Null THEN Data(r) ELSE <<b>> \o Data(r)
  <1> DEFINE n == Len(q)
  <1>1. /\ n \in Nat /\ n > 0 /\ Len(r) = n - 1 /\ b = q[1]
        /\ \A i \in 1..(n - 1) : r[i] = q[i + 1]
    BY LenProperties DEF Front
  <1>2. Once(r)
    <2> SUFFICES ASSUME NEW i \in 1..Len(r), NEW j \in 1..Len(r), r[i] = r[j]
                 PROVE  i = j
      BY DEF Once
    <2>1. q[i + 1] = q[j + 1] /\ i + 1 \in 1..n /\ j + 1 \in 1..n
      BY <1>1
    <2>2. i + 1 = j + 1
      BY <2>1 DEF Once
    <2> QED
      BY <1>1, <2>2
  <1>3. CASE b = Null
    <2>1. Absent(Null, r)
      <3> SUFFICES ASSUME NEW i \in 1..Len(r), r[i] = Null PROVE FALSE
        BY DEF Absent
      <3>1. q[i + 1] = q[1] /\ i + 1 \in 1..n /\ 1 \in 1..n
        BY <1>1, <1>3
      <3>2. i + 1 = 1
        BY <3>1 DEF Once
      <3> QED
        BY <1>1, <3>2
    <2>2. Data(r) = r
      BY <2>1, DataWithoutNull
    <2>3. 1 \in 1..n /\ q[1] = Null
      BY <1>1, <1>3
    <2>4. Data(q) = [i \in 1..(n - 1) |-> IF i < 1 THEN q[i] ELSE q[i + 1]]
      BY <2>3, DataWithNull
    <2>5. Data(q) = [i \in 1..(n - 1) |-> r[i]]
      BY <1>1, <2>4
    <2>6. r = [i \in 1..(n - 1) |-> r[i]]
      BY <1>1, LenProperties
    <2> QED
      BY <1>3, <2>2, <2>5, <2>6
  <1>4. CASE b # Null
    <2> DEFINE d == Data(q)
               e == Data(r)
               c == <<b>> \o e
    <2>1. d \in Seq(B) /\ e \in Seq(B) /\ Len(e) \in Nat /\ Len(d) \in Nat
      BY <1>2, DataFacts, LenProperties
    <2>2. /\ c \in Seq(B) /\ Len(c) = Len(e) + 1 /\ c[1] = b
          /\ \A i \in 1..Len(e) : c[i + 1] = e[i]
      BY <1>4, <2>1
    <2>3. CASE Absent(Null, q)
      <3>1. Absent(Null, r)
        BY <1>1, <2>3 DEF Absent
      <3>2. d = q /\ e = r
        BY <2>3, <3>1, DataWithoutNull
      <3>3. \A i \in 1..Len(d) : d[i] = c[i]
        <4> SUFFICES ASSUME NEW i \in 1..n PROVE q[i] = c[i]
          BY <3>2
        <4>1. CASE i = 1
          BY <1>1, <2>2, <4>1
        <4>2. CASE i # 1
          <5>1. i - 1 \in 1..(n - 1) /\ (i - 1) + 1 = i
            BY <1>1, <4>2
          <5>2. q[i] = r[i - 1] /\ c[i] = e[i - 1]
            BY <1>1, <2>2, <3>2, <5>1
          <5> QED
            BY <3>2, <5>2
        <4> QED
          BY <4>1, <4>2
      <3>4. Len(d) = Len(c)
        BY <1>1, <2>2, <3>2
      <3> HIDE DEF c, d, e
      <3>8. d = c
        BY <2>1, <2>2, <3>3, <3>4, SeqEqual
      <3> QED
        BY <1>4, <3>8 DEF c, d, e
    <2>4. CASE \E k \in 1..n : q[k] = Null
      <3>1. PICK k \in 1..n : q[k] = Null
        BY <2>4
      <3>2. k - 1 \in 1..(n - 1) /\ r[k - 1] = Null
        <4>1. k # 1
          BY <1>1, <1>4, <3>1
        <4>2. k - 1 \in 1..(n - 1) /\ (k - 1) + 1 = k
          BY <1>1, <4>1
        <4> QED
          BY <1>1, <3>1, <4>2
      <3>3. d = [i \in 1..(n - 1) |-> IF i < k THEN q[i] ELSE q[i + 1]]
        BY <3>1, DataWithNull
      <3>4. e = [i \in 1..(Len(r) - 1) |-> IF i < k - 1 THEN r[i] ELSE r[i + 1]]
        BY <1>1, <1>2, <3>2, DataWithNull
      <3>5. Len(d) = n - 1 /\ Len(e) = n - 2 /\ n - 2 \in Nat
        BY <1>1, <2>1, <3>2, <3>3, <3>4, LenProperties
      <3>6. \A i \in 1..Len(d) : d[i] = c[i]
        <4> SUFFICES ASSUME NEW i \in 1..(n - 1) PROVE d[i] = c[i]
          BY <3>5
        <4>1. d[i] = IF i < k THEN q[i] ELSE q[i + 1]
          BY <3>3
        <4>2. CASE i = 1
          <5>1. d[i] = q[1]
            BY <1>1, <3>2, <4>1, <4>2
          <5> QED
            BY <1>1, <2>2, <4>2, <5>1
        <4>3. CASE i # 1
          <5>1. i - 1 \in 1..(n - 2) /\ (i - 1) + 1 = i /\ i - 1 \in 1..(n - 1) /\ i \in 1..(n - 1)
            BY <1>1, <4>3
          <5>2. c[i] = e[i - 1]
            BY <2>2, <3>5, <5>1
          <5>3. e[i - 1] = IF i - 1 < k - 1 THEN r[i - 1] ELSE r[i]
            BY <1>1, <3>4, <5>1
          <5>4. r[i - 1] = q[i] /\ r[i] = q[i + 1]
            BY <1>1, <5>1
          <5>5. i - 1 < k - 1 <=> i < k
            BY <3>1, <5>1
          <5> QED
            BY <4>1, <5>2, <5>3, <5>4, <5>5
        <4> QED
          BY <4>2, <4>3
      <3>7. Len(d) = Len(c)
        BY <1>1, <2>2, <3>5
      <3> HIDE DEF c, d, e
      <3>8. d = c
        BY <2>1, <2>2, <3>6, <3>7, SeqEqual
      <3> QED
        BY <1>4, <3>8 DEF c, d, e
    <2> QED
      BY <1>4, <2>3, <2>4 DEF Absent
  <1> QED
    BY <1>3, <1>4

(* What the mapping needs from the invariant. *)
LEMMA SendQueueFacts ==
    ASSUME IndInv
    PROVE  /\ sendQueue \in Seq(SQ!Buffers \cup {Null}) /\ Once(sendQueue)
           /\ Data(sendQueue) \in Seq(SQ!Buffers)
           /\ pc["send"] = "work" => buf["send"] \in SQ!Buffers
           /\ inPipe \in Seq(SQ!Buffers)
           /\ Null \notin SQ!Buffers
  <1>1. /\ sendQueue \in Seq(SQ!Buffers \cup {Null}) /\ Once(sendQueue)
        /\ Null \notin SQ!Buffers
    BY PoolFacts DEF IndInv, TypeOK, SQ!QueueTypeOK, SendInv, OnePlace, Once
  <1>2. Data(sendQueue) \in Seq(SQ!Buffers)
    BY <1>1, DataFacts
  <1>3. pc["send"] = "work" => buf["send"] \in SQ!Buffers
    BY DEF IndInv, TypeOK, HandsInv, Threads
  <1>4. inPipe \in Seq(SQ!Buffers)
    BY <1>2, <1>3, ConcatProperties DEF inPipe
  <1> QED
    BY <1>1, <1>2, <1>3, <1>4

(* A step of another thread, or of the send thread when it has no packet   *)
(* before or after it, does not move the pipe.                             *)
LEMMA PipeAtRest ==
    ASSUME UNCHANGED sendQueue,
           \/ UNCHANGED <<pc["send"], buf["send"]>>
           \/ pc["send"] # "work" /\ pc'["send"] # "work"
    PROVE  UNCHANGED inPipe
  BY DEF inPipe

(* Put is an Accept: the buffer was in a thread's hands, so that it was    *)
(* not in the pipe.                                                        *)
LEMMA PutIsAccept ==
    ASSUME IndInv, IndInv', NEW t \in Threads \ {"send"}, buf[t] # Null,
           sendQueue' = Append(sendQueue, buf[t]),
           UNCHANGED <<pc["send"], buf["send"]>>
    PROVE  Pipe!Accept(buf[t]) /\ buf[t] \in SQ!Buffers
  <1> DEFINE b == buf[t]
             w == IF pc["send"] = "work" THEN <<buf["send"]>> ELSE <<>>
             d == Data(sendQueue)
  <1>1. /\ sendQueue \in Seq(SQ!Buffers \cup {Null}) /\ Once(sendQueue) /\ Once(sendQueue')
        /\ d \in Seq(SQ!Buffers) /\ Null \notin SQ!Buffers
        /\ pc["send"] = "work" => buf["send"] \in SQ!Buffers
    BY SendQueueFacts DEF IndInv, SendInv, OnePlace, Once
  <1>2. b \in SQ!Buffers /\ Absent(b, sendQueue) /\ buf["send"] # b
    BY DEF IndInv, TypeOK, SendInv, OnePlace, Absent, Threads
  <1>3. Data(sendQueue') = Append(d, b)
    BY <1>1, <1>2, DataOfPut
  <1>4. w \in Seq(SQ!Buffers) /\ inPipe = w \o d /\ inPipe' = w \o Data(sendQueue')
    BY <1>1 DEF inPipe
  <1>5. \A i \in 1..Len(w) : w[i] # b
    BY <1>1, <1>2
  <1>6. \A i \in 1..Len(d) : d[i] # b
    BY <1>1, <1>2, DataFacts DEF Absent
  <1> HIDE DEF w, d
  <1>7. inPipe' = Append(inPipe, b)
    <2>1. Append(d, b) = d \o <<b>> /\ <<b>> \in Seq(SQ!Buffers)
      BY <1>1, <1>2, AppendIsConcat
    <2>2. w \o (d \o <<b>>) = (w \o d) \o <<b>>
      BY <1>1, <1>4, <2>1, ConcatAssociative
    <2>3. (w \o d) \o <<b>> = Append(w \o d, b)
      BY <1>1, <1>2, <1>4, ConcatProperties, AppendIsConcat
    <2> QED
      BY <1>3, <1>4, <2>1, <2>2, <2>3
  <1>8. \A i \in DOMAIN inPipe : inPipe[i] # b
    <2> DEFINE p == w \o d
    <2>1. /\ DOMAIN p = 1..Len(p) /\ Len(p) = Len(w) + Len(d)
          /\ \A i \in 1..(Len(w) + Len(d)) : p[i] = IF i <= Len(w) THEN w[i] ELSE d[i - Len(w)]
          /\ Len(w) \in Nat /\ Len(d) \in Nat
      BY <1>1, <1>4, ConcatProperties, LenProperties
    <2> HIDE DEF p
    <2> SUFFICES ASSUME NEW i \in 1..(Len(w) + Len(d)) PROVE p[i] # b
      BY <1>4, <2>1 DEF p
    <2>2. CASE i <= Len(w)
      BY <1>5, <2>1, <2>2
    <2>3. CASE ~(i <= Len(w))
      <3>1. i - Len(w) \in 1..Len(d)
        BY <2>1, <2>3
      <3> QED
        BY <1>6, <2>1, <2>3, <3>1
    <2> QED
      BY <2>2, <2>3
  <1> QED
    BY <1>2, <1>7, <1>8 DEF Pipe!Accept, Pipe!Inside

(* Taking an entry moves the first packet from the queue to the send       *)
(* thread: it stays in the pipe.                                           *)
LEMMA TakeIsStutter ==
    ASSUME IndInv, IndInv', SendTake
    PROVE  UNCHANGED inPipe
  <1> DEFINE b == Head(sendQueue)
             r == Tail(sendQueue)
  <1>1. sendQueue \in Seq(SQ!Buffers \cup {Null}) /\ Once(sendQueue) /\ Null \notin SQ!Buffers
    BY SendQueueFacts
  <1>2. sendQueue # <<>>
    <2>1. sendSem \in Nat /\ sendSem + 1 = Len(sendQueue)
      BY DEF SendTake, Goto, IndInv, SemInv, TypeOK, SQ!QueueTypeOK
    <2> QED
      BY <2>1
  <1>3. /\ sendQueue' = r /\ buf' = [buf EXCEPT !["send"] = b]
        /\ pc["send"] = "take" /\ pc' = [pc EXCEPT !["send"] = IF b = Null THEN "loop" ELSE "work"]
    BY <1>2 DEF SendTake, SQ!GetInternal, Goto
  <1>4. /\ Front(sendQueue, b, r)
        /\ r \in Seq(SQ!Buffers \cup {Null}) /\ b \in SQ!Buffers \cup {Null}
    BY <1>1, <1>2, FrontOfQueue
  <1> HIDE DEF b, r
  <1>5. Data(sendQueue) = IF b = Null THEN Data(r) ELSE <<b>> \o Data(r)
    BY <1>1, <1>4, DataOfFront
  <1>6. pc'["send"] = (IF b = Null THEN "loop" ELSE "work") /\ buf'["send"] = b
    BY <1>3 DEF IndInv, TypeOK, Threads
  <1>7. Data(r) \in Seq(SQ!Buffers) /\ Data(sendQueue) \in Seq(SQ!Buffers)
    <2>1. Once(sendQueue')
      BY DEF IndInv, SendInv, OnePlace, Once
    <2>2. Once(r)
      BY <1>3, <2>1
    <2> QED
      BY <1>1, <1>4, <2>2, DataFacts
  <1>8. inPipe = Data(sendQueue)
    BY <1>3, <1>7, ConcatEmptySeq DEF inPipe
  <1>9. CASE b = Null
    <2>1. inPipe' = Data(r)
      BY <1>3, <1>6, <1>7, <1>9, ConcatEmptySeq DEF inPipe
    <2> QED
      BY <1>5, <1>8, <1>9, <2>1
  <1>10. CASE b # Null
    <2>1. inPipe' = <<b>> \o Data(r)
      BY <1>3, <1>6, <1>10 DEF inPipe
    <2> QED
      BY <1>5, <1>8, <1>10, <2>1
  <1> QED
    BY <1>9, <1>10

(* Reuse is a Release: the send thread's packet is the oldest. *)
LEMMA ReuseIsRelease ==
    ASSUME IndInv, IndInv', SendReuse
    PROVE  Pipe!Release
  <1> DEFINE b == buf["send"]
             d == Data(sendQueue)
  <1>1. b \in SQ!Buffers /\ d \in Seq(SQ!Buffers)
    BY SendQueueFacts DEF SendReuse, Goto
  <1>2. inPipe = <<b>> \o d
    BY DEF SendReuse, Goto, inPipe
  <1>3. sendQueue' = sendQueue /\ pc'["send"] = "loop"
    BY DEF SendReuse, Goto, SQ!Reuse, IndInv, TypeOK, Threads
  <1>4. inPipe' = d
    BY <1>1, <1>3, ConcatEmptySeq DEF inPipe
  <1> HIDE DEF b, d
  <1>5. <<b>> \o d # <<>> /\ Tail(<<b>> \o d) = d
    BY <1>1
  <1> QED
    BY <1>2, <1>4, <1>5 DEF Pipe!Release

(* Each step of the threads is a step of the pipe or leaves it as it is. *)
LEMMA PipeStep ==
    ASSUME IndInv, IndInv', [Next]_vars
    PROVE  [Pipe!PipeNext]_inPipe
  <1> USE DEF Goto, sq, eq, qvars
  <1>1. CASE UNCHANGED vars
    BY <1>1, PipeAtRest DEF vars
  <1>2. ASSUME NEW t \in Threads \ {"send"}, buf[t] # Null, SQ!Put(buf[t]),
               UNCHANGED <<pc["send"], buf["send"]>>
        PROVE  Pipe!PipeNext
    BY <1>2, PutIsAccept DEF SQ!Put, Pipe!PipeNext
  <1>3. CASE CaptureGet \/ CapturePut
    BY <1>3, PipeAtRest DEF CaptureGet, CapturePut, IndInv, TypeOK, Threads
  <1>4. CASE EncoderPut
    <2>1. buf["encoder"] # Null /\ UNCHANGED <<pc["send"], buf["send"]>>
      BY <1>4 DEF EncoderPut, IndInv, TypeOK, HandsInv, Threads
    <2> QED
      BY <1>2, <1>4, <2>1 DEF EncoderPut, Threads
  <1>5. CASE Encoder /\ ~EncoderPut
    BY <1>5, PipeAtRest DEF Encoder, EncoderLoop, EncoderWait, EncoderTake, EncoderDrop,
       EncoderCall, EncoderGet, EncoderNoBuffer, EncoderReuse, SQ!Get, IndInv, TypeOK, Threads
  <1>6. ASSUME NEW t \in Workers, WorkerPut(t)
        PROVE  Pipe!PipeNext
    <2>1. buf[t] # Null /\ UNCHANGED <<pc["send"], buf["send"]>> /\ t \in Threads \ {"send"}
      BY <1>6 DEF WorkerPut, IndInv, TypeOK, HandsInv, Threads, Workers
    <2> QED
      BY <1>2, <1>6, <2>1 DEF WorkerPut
  <1>7. ASSUME NEW t \in Workers, WorkerLoop(t) \/ WorkerGet(t) \/ WorkerNext(t)
        PROVE  UNCHANGED inPipe
    BY <1>7, PipeAtRest DEF WorkerLoop, WorkerGet, WorkerNext, SQ!Get, IndInv, TypeOK, Threads,
       Workers
  <1>8. CASE SendLoop \/ SendWait
    BY <1>8, PipeAtRest DEF SendLoop, SendWait, SQ!Acquire, IndInv, TypeOK, Threads
  <1>9. CASE StopWake
    <2>1. /\ sendQueue' = Append(sendQueue, Null) /\ Absent(Null, sendQueue)
          /\ UNCHANGED <<pc["send"], buf>>
      BY <1>9 DEF StopWake, SQ!Put, IndInv, WakeInv, TypeOK, Threads
    <2>2. Once(sendQueue')
      BY DEF IndInv, SendInv, OnePlace, Once
    <2>3. Data(sendQueue') = Data(sendQueue)
      BY <2>1, <2>2, SendQueueFacts, DataOfPutNull
    <2> QED
      BY <2>1, <2>3 DEF inPipe
  <1>10. CASE Owner /\ ~StopWake
    BY <1>10, PipeAtRest DEF Owner, StopBegin, StopReceiver, JoinSend, JoinRecv, JoinTick, Join,
       EncoderStop, EncoderWake, JoinEncoder, DeleteQueue, IndInv, TypeOK, Threads
  <1> QED
    BY <1>1, <1>3, <1>4, <1>5, <1>6, <1>7, <1>8, <1>9, <1>10, TakeIsStutter, ReuseIsRelease
       DEF Next, Capture, Sender, Worker, Pipe!PipeNext

(* The send queue with its pool and the send thread is a pipe that keeps   *)
(* the order of the packets and loses none, for every size of the pools.   *)
THEOREM IsPipe == Spec => ImplementsPipe
  <1>1. Init => Pipe!PipeInit
    <2> SUFFICES ASSUME Init PROVE inPipe = <<>>
      BY DEF Pipe!PipeInit
    <2>1. sendQueue = <<>> /\ pc["send"] = "loop"
      BY DEF Init, SQ!QueueInit, Threads
    <2>2. Data(sendQueue) = <<>>
      BY <2>1 DEF Data
    <2> QED
      BY <2>1, <2>2 DEF inPipe
  <1>2. IndInv /\ IndInv' /\ [Next]_vars => [Pipe!PipeNext]_inPipe
    BY PipeStep
  <1> QED
    BY <1>1, <1>2, Invariance, PTL DEF Spec, ImplementsPipe, Pipe!PipeSpec
=============================================================================
