--------------------------- MODULE MTIncomingProofs ---------------------------
(***************************************************************************)
(* The safety properties of MTIncoming for every set of messages and every *)
(* bound on faults, on questions and on queues.                            *)
(***************************************************************************)
EXTENDS MTIncoming, QueueTheorems, TLAPS, FiniteSetTheorems

(* The numbers of sessions and transports, of connections, of questions. *)
Numbers == 1..(MaxBreaks + 1)
Asks    == Nat \ {0}

(* What is on its way. *)
Payload ==
    [k : {"msg", "info"}, m : Msg] \cup [k : {"state"}, m : Msg, n : Asks]
    \cup [k : {"bad"}, n : Asks, asks : SUBSET Msg] \cup [k : {"new"}, n : Asks]
    \cup [k : {"pong"}]
Upload == [sess : Numbers, n : Asks, acks : SUBSET Msg, asks : SUBSET Msg]

(* What waits on the manager queue. *)
DataBlock   == [op : {"data"}, tr : Numbers, c : Conn, x : Payload]
SentBlock   == [op : {"sent"}, sess : Numbers, tr : Numbers, c : Conn, n : Asks,
                acks : SUBSET Msg, asks : SUBSET Msg]
FailedBlock == [op : {"failed"}, c : Conn]

Blocks == DataBlock \cup SentBlock \cup FailedBlock

(* The shape of the queues. *)
QueuesOK ==
    /\ up \in Seq(Upload) /\ down \in Seq(Payload)
    /\ mq \in Seq(Blocks)
    /\ handled \in [Msg -> Nat]

(* A connection carries nothing before it is made and after it is gone, no *)
(* block is from the future, and every break is counted.                   *)
CountsOK ==
    /\ conn < nextConn
    /\ nextConn <= breaks + 1 \/ (conn # NoConn /\ nextConn <= breaks + 2)
    /\ doomed => conn # NoConn /\ nextConn <= breaks + 1
    /\ conn = NoConn => up = <<>> /\ down = <<>> /\ sentOn = {}
    /\ heard => conn # NoConn
    /\ session <= breaks + 1 /\ transport <= breaks + 1
    /\ \A i \in 1..Len(mq) : /\ mq[i].c < nextConn
                             /\ mq[i].op # "failed" => mq[i].tr <= transport
                             /\ mq[i].op = "sent" => mq[i].sess <= session
    /\ \A m \in Msg : \A c \in txns[m] : c < nextConn
    /\ \A i \in 1..Len(up) : up[i].sess = session

(* Questions are numbered in the order in which they are on their way.     *)
NumbersOK ==
    /\ \A m \in Msg : ask[m] <= asked /\ (resend[m] \in Conn => ask[m] # 0)
    /\ \A i \in 1..Len(mq) : mq[i].op = "sent" /\ mq[i].asks # {} => mq[i].n <= asked
    /\ \A i \in 1..Len(up) : up[i].asks # {} =>
         up[i].n <= asked /\ \A j \in 1..Len(up) : i < j => up[i].n < up[j].n

(* Nobody speaks of a message before the server has made it. *)
ProducedOK ==
    /\ processed \cup scheduled \subseteq produced
    /\ \A m \in Msg : txns[m] # {} \/ resend[m] # Off => m \in produced
    /\ \A i \in 1..Len(up) : up[i].acks \cup up[i].asks \subseteq produced
    /\ \A m \in Msg, i \in 1..Len(down) : Names(down[i], m) => m \in produced
    /\ \A i \in 1..Len(mq) :
         /\ mq[i].op = "data" => \A m \in Msg : Names(mq[i].x, m) => m \in produced
         /\ mq[i].op = "sent" => mq[i].acks \cup mq[i].asks \subseteq produced

(* The server says a message is gone only when it is. *)
GoneOK ==
    /\ \A i \in 1..Len(down) : down[i].k = "state" => down[i].m \notin unacked
    /\ \A i \in 1..Len(mq) : mq[i].op = "data" =>
         (mq[i].x.k = "state" => mq[i].x.m \notin unacked)

(* What is confirmed has been seen or is not wanted. *)
SettledOK ==
    /\ processed \cap wanted = {}
    /\ scheduled \subseteq processed \cup (Answer \ wanted)
    /\ \A i \in 1..Len(up) : up[i].acks \subseteq processed \cup (Answer \ wanted)

(* A message that was given to the services is remembered. *)
HandledOK == \A m \in Msg : handled[m] <= 1 /\ (handled[m] = 1 => m \in processed)

(* What waits on a manager queue q, for session se or transport t.  Before *)
(* block i runs, m will be marked as confirmed on connection c; from block *)
(* i on there is data about m; after block i there is word on connection c *)
(* of question n for m, or the word that the connection is gone.           *)
MarkBefore(q, se, m, c, i) ==
    \E s \in 1..Len(q) : /\ s < i /\ q[s].op = "sent" /\ q[s].sess = se
                         /\ q[s].c = c /\ m \in q[s].acks
DataFrom(q, t, m, i) ==
    \E j \in 1..Len(q) : j >= i /\ q[j].op = "data" /\ q[j].tr = t /\ Names(q[j].x, m)
WordAfter(q, t, m, c, n, i) ==
    \E j \in 1..Len(q) : /\ j > i /\ q[j].op = "data" /\ q[j].tr = t
                         /\ q[j].c = c /\ Settles(q[j].x, m, n)
FailureAfter(q, c, i) ==
    \E j \in 1..Len(q) : j > i /\ q[j].op = "failed" /\ q[j].c = c

(* A confirmation, a question, a message or word of a question is on its   *)
(* way; the server has read the question, but nothing that was sent after. *)
InAcks(m) == \E i \in 1..Len(up) : m \in up[i].acks
InAsks(m, n) == \E i \in 1..Len(up) : m \in up[i].asks /\ up[i].n = n
InDown(m) == \E i \in 1..Len(down) : Names(down[i], m)
Answered(m, n) == \E i \in 1..Len(down) : Settles(down[i], m, n)
Behind(n) == \A i \in 1..Len(up) : n < up[i].n

(* A confirmation that was handed to connection c: it is marked with it,   *)
(* or will be before block i runs.                                         *)
Taken(m, c, i) == c \in txns[m] \/ MarkBefore(mq, session, m, c, i)

(* On the connection of the moment it is on its way, or the server has it, *)
(* or rejected it.                                                         *)
TakenOK ==
    \A m \in unacked : conn # NoConn /\ Taken(m, conn, Len(mq) + 1) =>
        InAcks(m) \/ m \in silent

(* When data of the connection that took a confirmation is waiting, which  *)
(* will remove the confirmation, the message is not lost without it.       *)
Elsewhere(m, i) ==
    \/ InAcks(m) \/ m \notin sentOn \/ doomed \/ m \in silent
    \/ InDown(m) \/ DataFrom(mq, transport, m, i)

(* The first data of a connection removes what the connection took. *)
RemovalOK ==
    \A m \in unacked, i \in 1..Len(mq) :
        mq[i].op = "data" /\ mq[i].tr = transport /\ Taken(m, mq[i].c, i) => Elsewhere(m, i)

(* NoLostConfirmation. *)
KeptOK == \A m \in processed \cap unacked : m \in scheduled \/ Elsewhere(m, 1)

(* Question n for m on connection c is on its way, or the server has read  *)
(* it and what it says is on its way, or it started anew and will say so   *)
(* to the next payload; or, in blocks after block i, there is word of the  *)
(* question or of the end of the connection.                               *)
Watched(m, c, n, i) ==
    \/ c = conn /\ (InAsks(m, n) \/ (Behind(n) /\ (Answered(m, n) \/ lost)))
    \/ WordAfter(mq, transport, m, c, n, i)
    \/ FailureAfter(mq, c, i)

(* ResendIsWatched. *)
ResendOK ==
    \A m \in Msg : resend[m] \in Conn /\ m \notin late => Watched(m, resend[m], ask[m], 0)

(* The same for a question whose service has not heard that it was sent,   *)
(* unless the transport was replaced since.                                *)
QuestionOK ==
    \A s \in 1..Len(mq) : mq[s].op = "sent" /\ mq[s].tr = transport =>
        \A m \in mq[s].asks : Watched(m, mq[s].c, mq[s].n, s)

(* The inductive invariant.  NoLostConfirmation is not inductive: data may *)
(* remove a confirmation that was marked, or will be marked by a block     *)
(* before it, so every confirmation a connection took is followed from the *)
(* transaction on (TakenOK, RemovalOK).  The same holds for the question   *)
(* of a resend service (QuestionOK); that a server which starts anew does  *)
(* not swallow it rests on the order of the questions (NumbersOK).         *)
IndInv ==
    /\ TypeOK /\ QueuesOK
    /\ CountsOK /\ NumbersOK /\ ProducedOK /\ GoneOK
    /\ SettledOK /\ HandledOK
    /\ TakenOK /\ RemovalOK /\ KeptOK
    /\ ResendOK /\ QuestionOK
-----------------------------------------------------------------------------
(* What waits on the queue when its first block is gone. *)
LEMMA WhenDropped ==
    ASSUME NEW r, NEW q, Dropped(r, q), NEW se, NEW t, NEW m, NEW c, NEW n, NEW i \in Nat
    PROVE  /\ MarkBefore(r, se, m, c, i) => MarkBefore(q, se, m, c, i + 1)
           /\ i # 0 => (DataFrom(q, t, m, i + 1) => DataFrom(r, t, m, i))
           /\ WordAfter(q, t, m, c, n, i + 1) => WordAfter(r, t, m, c, n, i)
           /\ FailureAfter(q, c, i + 1) => FailureAfter(r, c, i)
  <1>1. ASSUME MarkBefore(r, se, m, c, i) PROVE MarkBefore(q, se, m, c, i + 1)
    <2>1. PICK s \in 1..Len(r) : /\ s < i /\ r[s].op = "sent" /\ r[s].sess = se
                                 /\ r[s].c = c /\ m \in r[s].acks
      BY <1>1 DEF MarkBefore
    <2>2. s + 1 \in 1..Len(q) /\ r[s] = q[s + 1] /\ s + 1 < i + 1
      BY <2>1 DEF Dropped
    <2> QED
      BY <2>1, <2>2 DEF MarkBefore
  <1>2. ASSUME i # 0, DataFrom(q, t, m, i + 1) PROVE DataFrom(r, t, m, i)
    <2>1. PICK j \in 1..Len(q) : /\ j >= i + 1 /\ q[j].op = "data" /\ q[j].tr = t
                                 /\ Names(q[j].x, m)
      BY <1>2 DEF DataFrom
    <2>2. j - 1 \in 1..Len(r) /\ r[j - 1] = q[j] /\ j - 1 >= i
      BY <1>2, <2>1 DEF Dropped
    <2> QED
      BY <2>1, <2>2 DEF DataFrom
  <1>3. ASSUME WordAfter(q, t, m, c, n, i + 1) PROVE WordAfter(r, t, m, c, n, i)
    <2>1. PICK j \in 1..Len(q) : /\ j > i + 1 /\ q[j].op = "data" /\ q[j].tr = t
                                 /\ q[j].c = c /\ Settles(q[j].x, m, n)
      BY <1>3 DEF WordAfter
    <2>2. j - 1 \in 1..Len(r) /\ r[j - 1] = q[j] /\ j - 1 > i
      BY <2>1 DEF Dropped
    <2> QED
      BY <2>1, <2>2 DEF WordAfter
  <1>4. ASSUME FailureAfter(q, c, i + 1) PROVE FailureAfter(r, c, i)
    <2>1. PICK j \in 1..Len(q) : j > i + 1 /\ q[j].op = "failed" /\ q[j].c = c
      BY <1>4 DEF FailureAfter
    <2>2. j - 1 \in 1..Len(r) /\ r[j - 1] = q[j] /\ j - 1 > i
      BY <2>1 DEF Dropped
    <2> QED
      BY <2>1, <2>2 DEF FailureAfter
  <1> QED
    BY <1>1, <1>2, <1>3, <1>4

(* What the first block itself was good for. *)
LEMMA FirstDropped ==
    ASSUME NEW r, NEW q, Dropped(r, q), NEW t, NEW m, NEW c, NEW n
    PROVE  /\ DataFrom(q, t, m, 2) => DataFrom(r, t, m, 1)
           /\ DataFrom(q, t, m, 1) =>
                DataFrom(q, t, m, 2) \/ (q[1].op = "data" /\ q[1].tr = t /\ Names(q[1].x, m))
           /\ WordAfter(q, t, m, c, n, 1) => WordAfter(r, t, m, c, n, 0)
           /\ WordAfter(q, t, m, c, n, 0) =>
                \/ WordAfter(q, t, m, c, n, 1)
                \/ q[1].op = "data" /\ q[1].tr = t /\ q[1].c = c /\ Settles(q[1].x, m, n)
           /\ FailureAfter(q, c, 1) => FailureAfter(r, c, 0)
           /\ FailureAfter(q, c, 0) => FailureAfter(q, c, 1) \/ (q[1].op = "failed" /\ q[1].c = c)
  <1>1. /\ \A j \in 1..Len(q) : j = 1 \/ (j > 1 /\ j >= 2)
        /\ 0 \in Nat /\ 1 \in Nat /\ 0 + 1 = 1 /\ 1 + 1 = 2 /\ 1 # 0
    BY DEF Dropped
  <1>2. /\ DataFrom(q, t, m, 1 + 1) => DataFrom(r, t, m, 1)
        /\ WordAfter(q, t, m, c, n, 0 + 1) => WordAfter(r, t, m, c, n, 0)
        /\ FailureAfter(q, c, 0 + 1) => FailureAfter(r, c, 0)
    <2> HIDE DEF Dropped
    <2> QED
      BY <1>1, WhenDropped
  <1>3. /\ DataFrom(q, t, m, 1) =>
             DataFrom(q, t, m, 2) \/ (q[1].op = "data" /\ q[1].tr = t /\ Names(q[1].x, m))
        /\ WordAfter(q, t, m, c, n, 0) =>
             \/ WordAfter(q, t, m, c, n, 1)
             \/ q[1].op = "data" /\ q[1].tr = t /\ q[1].c = c /\ Settles(q[1].x, m, n)
        /\ FailureAfter(q, c, 0) => FailureAfter(q, c, 1) \/ (q[1].op = "failed" /\ q[1].c = c)
    BY <1>1 DEF DataFrom, WordAfter, FailureAfter
  <1> QED
    BY <1>2, <1>3

(* When a block is added to the queue, all that waited still waits. *)
LEMMA WhenAdded ==
    ASSUME NEW r, NEW q, NEW x, Added(r, q, x), NEW t, NEW m, NEW c, NEW n, NEW i \in Nat
    PROVE  /\ DataFrom(q, t, m, i) => DataFrom(r, t, m, i)
           /\ WordAfter(q, t, m, c, n, i) => WordAfter(r, t, m, c, n, i)
           /\ FailureAfter(q, c, i) => FailureAfter(r, c, i)
  BY DEF Added, DataFrom, WordAfter, FailureAfter

(* A block that is added brings a mark only to what comes after it. *)
LEMMA MarksAdded ==
    ASSUME NEW r, NEW q, NEW x, Added(r, q, x), NEW se, NEW m, NEW c
    PROVE  /\ \A i \in 1..Len(r) : MarkBefore(r, se, m, c, i) => MarkBefore(q, se, m, c, i)
           /\ MarkBefore(r, se, m, c, Len(r) + 1) =>
                \/ MarkBefore(q, se, m, c, Len(q) + 1)
                \/ x.op = "sent" /\ x.sess = se /\ x.c = c /\ m \in x.acks
           /\ Len(r) = Len(q) + 1
  BY DEF Added, MarkBefore

(* The fields of what is on its way. *)
LEMMA BlockFacts ==
    ASSUME QueuesOK, NEW i \in 1..Len(mq)
    PROVE  /\ mq[i] \in Blocks
           /\ mq[i].op \in {"data", "sent", "failed"} /\ mq[i].c \in Conn
           /\ mq[i].op # "failed" => mq[i].tr \in Numbers
           /\ mq[i].op = "data" => mq[i].x \in Payload
           /\ mq[i].op = "sent" => /\ mq[i].sess \in Numbers /\ mq[i].n \in Asks
                                   /\ mq[i].acks \in SUBSET Msg /\ mq[i].asks \in SUBSET Msg
  <1>1. mq[i] \in Blocks
    BY DEF QueuesOK
  <1> QED
    BY <1>1 DEF Blocks, DataBlock, SentBlock, FailedBlock

(* The fields of a payload. *)
LEMMA PayloadFacts ==
    ASSUME NEW x \in Payload
    PROVE  /\ x.k \in {"msg", "info", "state", "bad", "new", "pong"}
           /\ x.k \in {"msg", "info", "state"} => x.m \in Msg
           /\ x.k \in {"state", "bad", "new"} => x.n \in Asks
           /\ x.k = "bad" => x.asks \in SUBSET Msg
  BY DEF Payload

-----------------------------------------------------------------------------
(* A block of the manager queue runs.  It may mark confirmations as it was *)
(* foreseen, and whatever is elsewhere, or watched, but for the block that *)
(* runs, still is.                                                         *)
LEMMA RunKeeps ==
    ASSUME IndInv, Dropped(mq', mq),
           UNCHANGED <<session, transport, conn, up, down, unacked, sentOn, lost>>,
           doomed => doomed', silent \subseteq silent',
           \A m \in Msg : \A c \in txns'[m] : Taken(m, c, 2)
    PROVE  /\ TakenOK' /\ RemovalOK' /\ QuestionOK'
           /\ \A m \in Msg : Elsewhere(m, 2) => Elsewhere(m, 1)'
           /\ \A m \in Msg, c \in Conn, n \in Nat : Watched(m, c, n, 1) => Watched(m, c, n, 0)'
  <1>1. ASSUME NEW m \in Msg, NEW c, NEW i \in Nat, i # 0, Taken(m, c, i)'
        PROVE  Taken(m, c, i + 1)
    <2>1. CASE c \in txns'[m]
      BY <1>1, <2>1 DEF Taken, MarkBefore
    <2>2. CASE MarkBefore(mq', session', m, c, i)
      BY <1>1, <2>2, WhenDropped DEF Taken
    <2> QED
      BY <1>1, <2>1, <2>2 DEF Taken
  <1>2. ASSUME NEW m, NEW i \in Nat, i # 0, Elsewhere(m, i + 1)
        PROVE  Elsewhere(m, i)'
    BY <1>2, WhenDropped DEF Elsewhere, InAcks, InDown
  <1>3. ASSUME NEW m, NEW c, NEW n, NEW i \in Nat, Watched(m, c, n, i + 1)
        PROVE  Watched(m, c, n, i)'
    BY <1>3, WhenDropped DEF Watched, InAsks, Answered, Behind
  <1>4. /\ unacked \subseteq Msg /\ Len(mq') \in Nat /\ Len(mq) = Len(mq') + 1
        /\ \A i \in 1..Len(mq') : /\ i \in Nat /\ i # 0 /\ i + 1 \in 1..Len(mq)
                                  /\ mq'[i] = mq[i + 1]
    BY DEF IndInv, TypeOK, Dropped
  <1>5. TakenOK'
    <2> SUFFICES ASSUME NEW m \in unacked, conn # NoConn, Taken(m, conn, Len(mq) + 1)'
                 PROVE  InAcks(m)' \/ m \in silent'
      BY DEF TakenOK
    <2>1. Taken(m, conn, Len(mq') + 1 + 1)
      BY <1>1, <1>4
    <2>2. InAcks(m) \/ m \in silent
      BY <1>4, <2>1 DEF IndInv, TakenOK
    <2> QED
      BY <2>2 DEF InAcks
  <1>6. RemovalOK'
    <2> SUFFICES ASSUME NEW m \in unacked, NEW i \in 1..Len(mq'), mq'[i].op = "data",
                        mq'[i].tr = transport, Taken(m, mq[i].c, i)'
                 PROVE  Elsewhere(m, i)'
      BY DEF RemovalOK
    <2>1. Taken(m, mq[i + 1].c, i + 1)
      BY <1>1, <1>4
    <2>2. Elsewhere(m, i + 1)
      BY <1>4, <2>1 DEF IndInv, RemovalOK
    <2> QED
      BY <1>2, <1>4, <2>2
  <1>7. QuestionOK'
    <2> SUFFICES ASSUME NEW s \in 1..Len(mq'), mq'[s].op = "sent", mq'[s].tr = transport,
                        NEW m \in mq'[s].asks
                 PROVE  Watched(m, mq[s].c, mq[s].n, s)'
      BY DEF QuestionOK
    <2>1. Watched(m, mq[s + 1].c, mq[s + 1].n, s + 1)
      BY <1>4 DEF IndInv, QuestionOK
    <2> QED
      BY <1>3, <1>4, <2>1
  <1>8. ASSUME NEW m \in Msg, Elsewhere(m, 2)
        PROVE  Elsewhere(m, 1)'
    BY <1>8, FirstDropped DEF Elsewhere, InAcks, InDown
  <1>9. ASSUME NEW m \in Msg, NEW c \in Conn, NEW n \in Nat, Watched(m, c, n, 1)
        PROVE  Watched(m, c, n, 0)'
    BY <1>9, FirstDropped DEF Watched, InAsks, Answered, Behind
  <1> QED
    BY <1>5, <1>6, <1>7, <1>8, <1>9

(* transactionsMayHaveFailed, and data that cannot be read: the services   *)
(* that count on the connection ask again.                                 *)
LEMMA FailedStep ==
    ASSUME IndInv, RunFailed \/ RunNoise
    PROVE  IndInv'
  <1> DEFINE c == mq[1].c
  <1>1. /\ mq' \in Seq(Blocks) /\ Dropped(mq', mq) /\ 1 \in 1..Len(mq)
        /\ resend' = [m \in Msg |-> IF resend[m] = c THEN NoConn ELSE resend[m]]
        /\ late' = late \ {m \in Msg : resend[m] = c}
        /\ UNCHANGED <<session, processed, scheduled, txns, wanted, ask, born, transport, asked,
                       conn, nextConn, up, down, produced, unacked, sentOn, heard, lost, handled,
                       silent>>
    <2>1. /\ mq # <<>> /\ mq' = Tail(mq) /\ AskAgain(On(Head(mq).c))
          /\ UNCHANGED <<session, processed, scheduled, txns, wanted, ask, born, transport, asked,
                         conn, nextConn, up, down, produced, unacked, sentOn, heard, lost, handled,
                         silent>>
      BY DEF RunFailed, RunNoise, store, wires, server
    <2>2. Tail(mq) \in Seq(Blocks) /\ Dropped(Tail(mq), mq) /\ Head(mq) = mq[1] /\ 1 \in 1..Len(mq)
      BY <2>1, TailDrops DEF IndInv, QueuesOK
    <2> QED
      BY <2>1, <2>2 DEF AskAgain, On
  <1>2. \/ mq[1].op = "failed" /\ UNCHANGED <<doomed, breaks>>
        \/ /\ mq[1].op = "data" /\ breaks < MaxBreaks /\ breaks' = breaks + 1
           /\ doomed' <=> conn # NoConn
    <2>1. mq # <<>> => Head(mq) = mq[1]
      BY TailDrops DEF IndInv, QueuesOK
    <2>2. CASE RunFailed
      BY <2>1, <2>2 DEF RunFailed
    <2>3. CASE RunNoise
      <3>1. doomed' <=> conn # NoConn
        BY <2>3, Zenon DEF RunNoise
      <3> QED
        BY <2>1, <2>3, <3>1 DEF RunNoise, Break
    <2> QED
      BY <2>2, <2>3
  <1>3. FlagsOK'
    <2>1. asking' \in BOOLEAN
      BY Zenon DEF RunFailed, RunNoise
    <2>2. fresh' = fresh /\ (doomed' = doomed \/ doomed' \in BOOLEAN)
      BY Zenon DEF RunFailed, RunNoise
    <2> QED
      BY <1>1, <2>1, <2>2, Zenon DEF IndInv, TypeOK, FlagsOK
  <1>4. c \in Conn /\ Off \notin Conn /\ NoConn \notin Conn /\ Off # NoConn
    BY <1>1, BlockFacts DEF IndInv, Conn, Off, NoConn
  <1>5. TypeOK' /\ QueuesOK'
    <2>1. QueuesOK'
      BY <1>1 DEF IndInv, QueuesOK
    <2>2. resend' \in [Msg -> {Off, NoConn} \cup Conn]
      BY <1>1 DEF IndInv, TypeOK
    <2>3. \A m \in processed' : resend'[m] = Off
      BY <1>1, <1>4 DEF IndInv, TypeOK
    <2>4. breaks' \in 0..MaxBreaks /\ late' \subseteq Msg
      BY <1>1, <1>2, IncomingAssumption DEF IndInv, TypeOK
    <2>5. TypeOK'
      BY <1>1, <1>3, <2>2, <2>3, <2>4 DEF IndInv, TypeOK
    <2> QED
      BY <2>1, <2>5
  <1>6. CountsOK'
    <2>1. /\ nextConn \in Nat /\ breaks \in Nat /\ session \in Nat /\ transport \in Nat
          /\ nextConn <= breaks + 1 \/ (conn # NoConn /\ nextConn <= breaks + 2)
          /\ session <= breaks + 1 /\ transport <= breaks + 1
      BY DEF IndInv, TypeOK, CountsOK
    <2>2. PICK k \in {0, 1} : breaks' = breaks + k
      BY <1>2, <2>1
    <2>3. /\ nextConn <= breaks' + 1 \/ (conn # NoConn /\ nextConn <= breaks' + 2)
          /\ session <= breaks' + 1 /\ transport <= breaks' + 1
      BY <2>1, <2>2
    <2>5. doomed' => conn # NoConn /\ nextConn <= breaks' + 1
      <3>1. CASE UNCHANGED <<doomed, breaks>>
        BY <3>1 DEF IndInv, CountsOK
      <3>2. CASE breaks' = breaks + 1 /\ (doomed' <=> conn # NoConn)
        <4>1. nextConn <= breaks' + 1
          BY <2>1, <3>2
        <4> QED
          BY <3>2, <4>1
      <3> QED
        BY <1>2, <3>1, <3>2
    <2>4. \A i \in 1..Len(mq') : /\ mq'[i].c < nextConn
                                 /\ mq'[i].op # "failed" => mq'[i].tr <= transport
                                 /\ mq'[i].op = "sent" => mq'[i].sess <= session
      BY <1>1 DEF IndInv, CountsOK, Dropped
    <2> QED
      BY <1>1, <2>3, <2>4, <2>5 DEF IndInv, CountsOK
  <1>7. NumbersOK'
    <2>1. \A m \in Msg : resend'[m] \in Conn => resend[m] \in Conn
      BY <1>1, <1>4
    <2> QED
      BY <1>1, <2>1 DEF IndInv, NumbersOK, Dropped
  <1>8. ProducedOK' /\ GoneOK'
    <2>1. \A m \in Msg : txns'[m] # {} \/ resend'[m] # Off => m \in produced
      BY <1>1, <1>4 DEF IndInv, ProducedOK
    <2>2. ProducedOK'
      <3>1. \A i \in 1..Len(mq') :
              /\ mq'[i].op = "data" => \A m \in Msg : Names(mq'[i].x, m) => m \in produced
              /\ mq'[i].op = "sent" => mq'[i].acks \cup mq'[i].asks \subseteq produced
        BY <1>1 DEF IndInv, ProducedOK, Dropped
      <3> QED
        BY <1>1, <2>1, <3>1 DEF IndInv, ProducedOK
    <2>3. GoneOK'
      BY <1>1 DEF IndInv, GoneOK, Dropped
    <2> QED
      BY <2>2, <2>3
  <1>9. SettledOK' /\ HandledOK'
    BY <1>1 DEF IndInv, SettledOK, HandledOK
  <1>10. doomed => doomed'
    BY <1>2 DEF IndInv, CountsOK
  <1>11. /\ TakenOK' /\ RemovalOK' /\ QuestionOK'
         /\ \A m \in Msg : Elsewhere(m, 2) => Elsewhere(m, 1)'
         /\ \A m \in Msg, d \in Conn, n \in Nat : Watched(m, d, n, 1) => Watched(m, d, n, 0)'
    BY <1>1, <1>10, RunKeeps DEF Taken
  <1>12. KeptOK'
    <2> SUFFICES ASSUME NEW m \in processed \cap unacked
                 PROVE  m \in scheduled \/ Elsewhere(m, 1)'
      BY <1>1 DEF KeptOK
    <2>1. m \in Msg /\ (m \in scheduled \/ Elsewhere(m, 1))
      BY DEF IndInv, KeptOK, TypeOK
    <2>2. CASE mq[1].op = "failed"
      <3>1. Elsewhere(m, 1) => Elsewhere(m, 2)
        BY <1>1, <2>2, FirstDropped DEF Elsewhere
      <3> QED
        BY <1>11, <2>1, <3>1
    <2>3. CASE doomed' <=> conn # NoConn
      <3>1. doomed' \/ m \notin sentOn
        BY <2>3 DEF IndInv, CountsOK
      <3> QED
        BY <1>1, <3>1 DEF Elsewhere
    <2> QED
      BY <1>2, <2>2, <2>3
  <1>13. ResendOK'
    <2> SUFFICES ASSUME NEW m \in Msg, resend'[m] \in Conn, m \notin late'
                 PROVE  Watched(m, resend[m], ask[m], 0)'
      BY DEF ResendOK
    <2>1. /\ resend'[m] = resend[m] /\ resend[m] \in Conn /\ resend[m] # c
          /\ m \notin late /\ ask[m] \in Nat
      BY <1>1, <1>4 DEF IndInv, TypeOK
    <2>2. Watched(m, resend[m], ask[m], 0)
      BY <2>1 DEF IndInv, ResendOK
    <2>3. Watched(m, resend[m], ask[m], 1)
      BY <1>1, <2>1, <2>2, FirstDropped DEF Watched
    <2> QED
      BY <1>1, <1>11, <2>1, <2>3
  <1> QED
    BY <1>5, <1>6, <1>7, <1>8, <1>9, <1>11, <1>12, <1>13 DEF IndInv

(* The completion of a transaction: in its session what it carried is      *)
(* marked, as it was foreseen since the transaction was made, and the      *)
(* services that still are the ones that asked remember their question.    *)
LEMMA SentStep ==
    ASSUME IndInv, RunSent
    PROVE  IndInv'
  <1> DEFINE e == mq[1]
             mine == {m \in e.asks : resend[m] # Off /\ born[m] <= e.n}
  <1>1. /\ mq' \in Seq(Blocks) /\ Dropped(mq', mq) /\ 1 \in 1..Len(mq) /\ e.op = "sent"
        /\ UNCHANGED <<session, processed, scheduled, wanted, born, transport, asked, conn,
                       nextConn, up, down, produced, unacked, sentOn, heard, lost, doomed,
                       handled, silent, breaks>>
    BY TailDrops DEF RunSent, IndInv, QueuesOK, wires, server
  <1>2. /\ txns' = IF e.sess = session THEN Assigned(e.c, e.acks) ELSE txns
        /\ resend' = [m \in Msg |-> IF m \in mine THEN e.c ELSE resend[m]]
        /\ ask' = [m \in Msg |-> IF m \in mine THEN e.n ELSE ask[m]]
        /\ late' = IF e.tr = transport THEN late \ mine ELSE late \cup mine
    <2>1. Head(mq) = e
      BY TailDrops DEF RunSent, IndInv, QueuesOK
    <2> HIDE DEF e
    <2> QED
      BY <2>1 DEF RunSent
  <1>3. FlagsOK'
    <2>1. UNCHANGED <<asking, fresh>>
      BY DEF RunSent
    <2> QED
      BY <1>1, <2>1, Zenon DEF IndInv, TypeOK, FlagsOK
  <1>4. /\ e.c \in Conn /\ e.c < nextConn /\ e.n \in Asks
        /\ e.acks \in SUBSET Msg /\ e.asks \in SUBSET Msg
        /\ e.acks \subseteq produced
        /\ mine # {} => e.n <= asked
    BY <1>1, BlockFacts DEF IndInv, CountsOK, NumbersOK, ProducedOK
  <1>5. /\ txns \in [Msg -> SUBSET Conn] /\ resend \in [Msg -> {Off, NoConn} \cup Conn]
        /\ ask \in [Msg -> 0..MaxAsks] /\ asked \in 0..MaxAsks /\ MaxAsks \in Nat
        /\ late \subseteq Msg
    BY IncomingAssumption DEF IndInv, TypeOK
  <1>6. /\ txns' \in [Msg -> SUBSET Conn]
        /\ \A m \in Msg : \A d \in txns'[m] :
             d \in txns[m] \/ (e.sess = session /\ d = e.c /\ m \in e.acks)
    BY <1>2, <1>4, <1>5 DEF Assigned
  <1>7. mine \subseteq Msg /\ mine \subseteq e.asks /\ \A m \in mine : resend[m] # Off
    BY <1>4
  <1> HIDE DEF mine
  <1>8. mine # {} => e.n \in 0..MaxAsks
    BY <1>4, <1>5 DEF Asks
  <1>9. /\ resend' \in [Msg -> {Off, NoConn} \cup Conn] /\ ask' \in [Msg -> 0..MaxAsks]
        /\ late' \subseteq Msg
        /\ \A m \in Msg : resend'[m] = Off <=> resend[m] = Off
        /\ \A m \in Msg : m \notin mine => /\ resend'[m] = resend[m] /\ ask'[m] = ask[m]
                                           /\ m \in late' <=> m \in late
        /\ \A m \in mine : /\ resend'[m] = e.c /\ ask'[m] = e.n
                           /\ m \notin late' => e.tr = transport
    <2>1. Off \notin Conn
      BY DEF Conn, Off
    <2> HIDE DEF e
    <2> QED
      BY <1>2, <1>4, <1>5, <1>7, <1>8, <2>1
  <1> HIDE DEF e
  <1>10. TypeOK' /\ QueuesOK'
    <2>1. QueuesOK'
      BY <1>1 DEF IndInv, QueuesOK
    <2>2. TypeOK'
      BY <1>1, <1>3, <1>6, <1>9 DEF IndInv, TypeOK
    <2> QED
      BY <2>1, <2>2
  <1>11. CountsOK'
    BY <1>1, <1>4, <1>6 DEF IndInv, CountsOK, Dropped
  <1>12. NumbersOK'
    <2>1. \A m \in Msg : ask'[m] <= asked /\ (resend'[m] \in Conn => ask'[m] # 0)
      BY <1>4, <1>9 DEF IndInv, NumbersOK, Asks
    <2>2. \A i \in 1..Len(mq') : mq'[i].op = "sent" /\ mq'[i].asks # {} => mq'[i].n <= asked
      BY <1>1 DEF IndInv, NumbersOK, Dropped
    <2> QED
      BY <1>1, <2>1, <2>2 DEF IndInv, NumbersOK
  <1>13. ProducedOK' /\ GoneOK'
    <2>1. \A m \in Msg : txns'[m] # {} \/ resend'[m] # Off => m \in produced
      BY <1>4, <1>6, <1>9 DEF IndInv, ProducedOK
    <2>2. ProducedOK'
      <3>1. \A i \in 1..Len(mq') :
               /\ mq'[i].op = "data" => \A m \in Msg : Names(mq'[i].x, m) => m \in produced
               /\ mq'[i].op = "sent" => mq'[i].acks \cup mq'[i].asks \subseteq produced
        BY <1>1 DEF IndInv, ProducedOK, Dropped
      <3> QED
        BY <1>1, <2>1, <3>1 DEF IndInv, ProducedOK
    <2>3. GoneOK'
      <3>1. \A i \in 1..Len(mq') : mq'[i].op = "data" =>
               (mq'[i].x.k = "state" => mq'[i].x.m \notin unacked)
        BY <1>1 DEF IndInv, GoneOK, Dropped
      <3> QED
        BY <1>1, <3>1 DEF IndInv, GoneOK
    <2> QED
      BY <2>2, <2>3
  <1>14. SettledOK' /\ HandledOK'
    BY <1>1 DEF IndInv, SettledOK, HandledOK
  <1>15. /\ TakenOK' /\ RemovalOK' /\ QuestionOK'
         /\ \A m \in Msg : Elsewhere(m, 2) => Elsewhere(m, 1)'
         /\ \A m \in Msg, d \in Conn, n \in Nat : Watched(m, d, n, 1) => Watched(m, d, n, 0)'
    <2>1. \A m \in Msg : \A d \in txns'[m] : Taken(m, d, 2)
      BY <1>1, <1>6 DEF Taken, MarkBefore, e
    <2> QED
      BY <1>1, <2>1, RunKeeps
  <1>16. KeptOK'
    <2> SUFFICES ASSUME NEW m \in processed \cap unacked
                 PROVE  m \in scheduled \/ Elsewhere(m, 1)'
      BY <1>1 DEF KeptOK
    <2>1. m \in Msg /\ (m \in scheduled \/ Elsewhere(m, 1))
      BY DEF IndInv, KeptOK, TypeOK
    <2>2. Elsewhere(m, 1) => Elsewhere(m, 2)
      BY <1>1, FirstDropped DEF Elsewhere, e
    <2> QED
      BY <1>15, <2>1, <2>2
  <1>17. ResendOK'
    <2> SUFFICES ASSUME NEW m \in Msg, resend'[m] \in Conn, m \notin late'
                 PROVE  Watched(m, resend[m], ask[m], 0)'
      BY DEF ResendOK
    <2>1. CASE m \notin mine
      <3>1. Watched(m, resend[m], ask[m], 0) /\ resend[m] \in Conn /\ ask[m] \in Nat
        BY <1>5, <1>9, <2>1 DEF IndInv, ResendOK
      <3>2. Watched(m, resend[m], ask[m], 1)
        BY <1>1, <3>1, FirstDropped DEF Watched, e
      <3>3. resend'[m] = resend[m] /\ ask'[m] = ask[m]
        BY <1>9, <2>1
      <3> QED
        BY <1>15, <3>1, <3>2, <3>3
    <2>2. CASE m \in mine
      <3>1. Watched(m, e.c, e.n, 1) /\ e.n \in Nat /\ resend'[m] = e.c /\ ask'[m] = e.n
        BY <1>1, <1>4, <1>7, <1>9, <2>2 DEF IndInv, QuestionOK, e, Asks
      <3> QED
        BY <1>4, <1>15, <3>1
    <2> QED
      BY <2>1, <2>2
  <1> QED
    BY <1>10, <1>11, <1>12, <1>13, <1>14, <1>15, <1>16, <1>17 DEF IndInv

-----------------------------------------------------------------------------
(* Data runs on the manager queue.  What its forms do to the services: one *)
(* that goes on waiting did not hear the word it waits for.                *)
ServicesKept ==
    /\ resend' \in [Msg -> {Off, NoConn} \cup Conn] /\ ask' \in [Msg -> 0..MaxAsks]
    /\ born' \in [Msg -> 0..(MaxAsks + 1)] /\ late' \subseteq Msg
    /\ \A m \in processed' : resend'[m] = Off
    /\ \A m \in Msg : resend'[m] # Off => resend[m] # Off \/ m \in produced
    /\ \A m \in Msg : ask'[m] = 0 \/ ask'[m] = ask[m]
    /\ \A m \in Msg : resend'[m] \in Conn =>
         /\ resend'[m] = resend[m] /\ ask'[m] = ask[m] /\ (m \in late => m \in late')
         /\ mq[1].tr = transport => ~Settles(mq[1].x, m, ask[m])

(* What they do to the confirmations: one that is removed was taken by the *)
(* connection of the data.                                                 *)
ConfirmationsKept ==
    /\ txns' \in [Msg -> SUBSET Conn] /\ \A m \in Msg : txns'[m] \subseteq txns[m]
    /\ scheduled' \subseteq produced
    /\ processed \subseteq processed' /\ processed' \subseteq produced
    /\ wanted' \subseteq wanted /\ processed' \cap wanted' = {}
    /\ scheduled' \subseteq processed' \cup (Answer \ wanted')
    /\ silent \subseteq silent' /\ silent' \subseteq Msg
    /\ handled' \in [Msg -> Nat] /\ HandledOK'
    /\ \A m \in processed' \cap unacked :
         \/ m \in scheduled' \/ m \in silent'
         \/ /\ m \in processed
            /\ mq[1].tr = transport => ~Names(mq[1].x, m)
            /\ m \in scheduled => mq[1].tr = transport /\ mq[1].c \in txns[m]

(* Data that keeps the services and the confirmations keeps the invariant. *)
LEMMA DataKeeps ==
    ASSUME IndInv, mq' \in Seq(Blocks), Dropped(mq', mq), 1 \in 1..Len(mq), mq[1].op = "data",
           UNCHANGED <<session, transport, asked, conn, nextConn, up, down, produced, unacked,
                       sentOn, heard, lost, doomed, breaks>>,
           FlagsOK', ServicesKept, ConfirmationsKept
    PROVE  IndInv'
  <1>1. QueuesOK'
    BY DEF IndInv, QueuesOK, ConfirmationsKept
  <1>2. TypeOK'
    BY DEF IndInv, TypeOK, ServicesKept, ConfirmationsKept
  <1>3. CountsOK'
    <2>1. \A m \in Msg : \A c \in txns'[m] : c < nextConn
      BY DEF IndInv, CountsOK, ConfirmationsKept
    <2>2. \A i \in 1..Len(mq') : /\ mq'[i].c < nextConn
                                 /\ mq'[i].op # "failed" => mq'[i].tr <= transport
                                 /\ mq'[i].op = "sent" => mq'[i].sess <= session
      BY DEF IndInv, CountsOK, Dropped
    <2> QED
      BY <2>1, <2>2 DEF IndInv, CountsOK
  <1>4. NumbersOK'
    <2>1. \A m \in Msg : ask'[m] <= asked /\ (resend'[m] \in Conn => ask'[m] # 0)
      <3> SUFFICES ASSUME NEW m \in Msg
                   PROVE  ask'[m] <= asked /\ (resend'[m] \in Conn => ask'[m] # 0)
        OBVIOUS
      <3>1. /\ ask[m] <= asked /\ (resend[m] \in Conn => ask[m] # 0)
            /\ ask[m] \in Nat /\ asked \in Nat
        BY DEF IndInv, NumbersOK, TypeOK
      <3>2. /\ ask'[m] = 0 \/ ask'[m] = ask[m]
            /\ resend'[m] \in Conn => resend'[m] = resend[m] /\ ask'[m] = ask[m]
        BY DEF ServicesKept
      <3> QED
        BY <3>1, <3>2
    <2>2. \A i \in 1..Len(mq') : mq'[i].op = "sent" /\ mq'[i].asks # {} => mq'[i].n <= asked
      BY DEF IndInv, NumbersOK, Dropped
    <2> QED
      BY <2>1, <2>2 DEF IndInv, NumbersOK
  <1>5. ProducedOK'
    <2>1. \A m \in Msg : txns'[m] # {} \/ resend'[m] # Off => m \in produced
      BY DEF IndInv, ProducedOK, ServicesKept, ConfirmationsKept
    <2>2. \A i \in 1..Len(mq') :
             /\ mq'[i].op = "data" => \A m \in Msg : Names(mq'[i].x, m) => m \in produced
             /\ mq'[i].op = "sent" => mq'[i].acks \cup mq'[i].asks \subseteq produced
      BY DEF IndInv, ProducedOK, Dropped
    <2> QED
      BY <2>1, <2>2 DEF IndInv, ProducedOK, ConfirmationsKept
  <1>6. GoneOK'
    BY DEF IndInv, GoneOK, Dropped
  <1>7. SettledOK'
    <2>1. processed \cup (Answer \ wanted) \subseteq processed' \cup (Answer \ wanted')
      BY DEF ConfirmationsKept
    <2> QED
      BY <2>1 DEF IndInv, SettledOK, ConfirmationsKept
  <1>8. /\ TakenOK' /\ RemovalOK' /\ QuestionOK'
        /\ \A m \in Msg : Elsewhere(m, 2) => Elsewhere(m, 1)'
        /\ \A m \in Msg, d \in Conn, n \in Nat : Watched(m, d, n, 1) => Watched(m, d, n, 0)'
    <2>1. /\ silent \subseteq silent'
          /\ \A m \in Msg : \A c \in txns'[m] : Taken(m, c, 2)
      BY DEF Taken, ConfirmationsKept
    <2> QED
      BY <2>1, RunKeeps
  <1>9. KeptOK'
    <2> SUFFICES ASSUME NEW m \in processed' \cap unacked, m \notin scheduled', m \notin silent'
                 PROVE  Elsewhere(m, 1)'
      BY DEF KeptOK, Elsewhere
    <2>1. /\ m \in Msg /\ m \in processed /\ (mq[1].tr = transport => ~Names(mq[1].x, m))
          /\ m \in scheduled => mq[1].tr = transport /\ mq[1].c \in txns[m]
      BY DEF IndInv, TypeOK, ConfirmationsKept
    <2>2. Elsewhere(m, 1)
      <3>1. CASE m \in scheduled
        BY <2>1, <3>1 DEF IndInv, RemovalOK, Taken
      <3>2. CASE m \notin scheduled
        BY <2>1, <3>2 DEF IndInv, KeptOK
      <3> QED
        BY <3>1, <3>2
    <2>3. DataFrom(mq, transport, m, 1) => DataFrom(mq, transport, m, 2)
      BY <2>1, FirstDropped
    <2>4. Elsewhere(m, 2)
      BY <2>2, <2>3 DEF Elsewhere
    <2> QED
      BY <1>8, <2>1, <2>4
  <1>10. ResendOK'
    <2> SUFFICES ASSUME NEW m \in Msg, resend'[m] \in Conn, m \notin late'
                 PROVE  Watched(m, resend[m], ask[m], 0)'
      BY DEF ResendOK
    <2>1. /\ resend'[m] = resend[m] /\ ask'[m] = ask[m] /\ m \notin late /\ resend[m] \in Conn
          /\ mq[1].tr = transport => ~Settles(mq[1].x, m, ask[m])
      BY DEF ServicesKept
    <2>2. Watched(m, resend[m], ask[m], 0) /\ ask[m] \in Nat
      BY <2>1 DEF IndInv, ResendOK, TypeOK
    <2>3. Watched(m, resend[m], ask[m], 1)
      BY <2>1, <2>2, FirstDropped DEF Watched
    <2> QED
      BY <1>8, <2>1, <2>2, <2>3
  <1>11. HandledOK'
    BY DEF ConfirmationsKept
  <1> QED
    BY <1>1, <1>2, <1>3, <1>4, <1>5, <1>6, <1>7, <1>8, <1>9, <1>10, <1>11 DEF IndInv

(* The forms of data. *)
LEMMA DataStep ==
    ASSUME IndInv, RunData
    PROVE  IndInv'
  <1> DEFINE e == mq[1]
             x == e.x
             n == e.x.m
  <1>1. /\ mq' \in Seq(Blocks) /\ Dropped(mq', mq) /\ 1 \in 1..Len(mq) /\ e.op = "data"
        /\ UNCHANGED <<session, transport, asked, conn, nextConn, up, down, produced, unacked,
                       sentOn, heard, lost, doomed, breaks>>
    BY TailDrops DEF RunData, IndInv, QueuesOK, wires, server
  <1>2. \/ e.tr # transport /\ UNCHANGED <<processed, scheduled, txns, services, wanted, asking,
                                           handled, silent>>
        \/ /\ e.tr = transport
           /\ \/ x.k = "msg"   /\ ReceiveMessage(e.c, n)
              \/ x.k = "info"  /\ ReceiveInfo(e.c, n)
              \/ x.k = "state" /\ ReceiveState(e.c, n, x.n)
              \/ x.k = "bad"   /\ ReceiveBad(e.c, x.n, x.asks)
              \/ x.k = "new"   /\ ReceiveNew(e.c, x.n)
              \/ x.k = "pong"  /\ ReceivePong(e.c)
    <2>1. Head(mq) = e
      BY TailDrops DEF RunData, IndInv, QueuesOK
    <2> HIDE DEF e
    <2> QED
      BY <2>1 DEF RunData
  <1>3. /\ e.c \in Conn /\ x \in Payload
        /\ x.k \in {"msg", "info", "state"} => n \in Msg /\ n \in produced
        /\ x.k = "state" => n \notin unacked
        /\ x.k \in {"state", "bad", "new"} => x.n \in Asks
        /\ x.k = "bad" => x.asks \in SUBSET Msg
    <2>1. e.c \in Conn /\ x \in Payload /\ (x.k = "state" => n \notin unacked)
      BY <1>1, BlockFacts DEF IndInv, GoneOK
    <2>2. /\ x.k \in {"msg", "info", "state"} => n \in Msg
          /\ x.k \in {"state", "bad", "new"} => x.n \in Asks
          /\ x.k = "bad" => x.asks \in SUBSET Msg
      BY <2>1, PayloadFacts
    <2>3. x.k \in {"msg", "info", "state"} => n \in produced
      BY <1>1, <2>2 DEF IndInv, ProducedOK, Names
    <2> QED
      BY <2>1, <2>2, <2>3
  <1>4. /\ txns \in [Msg -> SUBSET Conn] /\ resend \in [Msg -> {Off, NoConn} \cup Conn]
        /\ ask \in [Msg -> 0..MaxAsks] /\ born \in [Msg -> 0..(MaxAsks + 1)] /\ late \subseteq Msg
        /\ processed \subseteq Msg /\ scheduled \subseteq Msg /\ wanted \subseteq Answer
        /\ silent \subseteq Msg /\ unacked \subseteq Msg /\ produced \subseteq Msg
        /\ \A m \in processed : resend[m] = Off
        /\ handled \in [Msg -> Nat]
        /\ \A m \in Msg : resend[m] \in Conn => ask[m] # 0
    BY DEF IndInv, TypeOK, QueuesOK, NumbersOK
  <1>5. /\ processed \subseteq produced /\ scheduled \subseteq produced
        /\ processed \cap wanted = {}
        /\ scheduled \subseteq processed \cup (Answer \ wanted)
        /\ HandledOK
        /\ Msg = Update \cup Answer /\ Update \cap Answer = {}
        /\ Off \notin Conn /\ NoConn \notin Conn /\ Off # NoConn
        /\ 0 \in 0..MaxAsks /\ 0 \in 0..(MaxAsks + 1) /\ asked + 1 \in 0..(MaxAsks + 1)
    BY IncomingAssumption DEF IndInv, TypeOK, ProducedOK, SettledOK, Msg, Conn, NoConn, Off
  <1> DEFINE sched == Unscheduled(e.c)
  <1>6. /\ sched \subseteq scheduled
        /\ \A m \in scheduled : m \in sched \/ e.c \in txns[m]
    BY DEF Unscheduled
  <1>7. FlagsOK'
    <2>1. asking' = asking \/ asking' \in BOOLEAN
      BY <1>2, Zenon DEF ReceiveMessage, ReceiveInfo, RequestMessage, ReceiveState, ReceiveBad,
                  ReceiveNew, ReceivePong
    <2>2. fresh' = fresh
      BY DEF RunData
    <2> QED
      BY <1>1, <2>1, <2>2, Zenon DEF IndInv, TypeOK, FlagsOK
  <1> HIDE DEF e, x, n, sched
  <1>8. \A m : Names(x, m) <=> x.k \in {"msg", "info", "state"} /\ n = m
    BY DEF Names, n, x
  <1> SUFFICES ServicesKept /\ ConfirmationsKept
    BY <1>1, <1>7, DataKeeps DEF e
  <1>9. mq[1].tr = e.tr /\ mq[1].x = x /\ mq[1].c = e.c
    BY DEF e, x
  <1>10. CASE /\ e.tr # transport
              /\ UNCHANGED <<processed, scheduled, txns, services, wanted, asking, handled, silent>>
    <2>1. ServicesKept
      BY <1>4, <1>9, <1>10 DEF ServicesKept, services
    <2>2. ConfirmationsKept
      BY <1>4, <1>5, <1>9, <1>10 DEF ConfirmationsKept, HandledOK
    <2> QED
      BY <2>1, <2>2
  <1>11. ASSUME UNCHANGED services, processed' = processed, \A m \in Msg : resend[m] \in Conn => ~Settles(x, m, ask[m])
         PROVE  ServicesKept
    BY <1>4, <1>9, <1>11 DEF ServicesKept, services
  <1>12. ASSUME NEW S, S \subseteq Msg, Complete(S),
                processed' \subseteq processed \cup S,
                \A m \in Msg \ S : resend[m] \in Conn => ~Settles(x, m, ask[m])
         PROVE  ServicesKept
    BY <1>4, <1>5, <1>9, <1>12 DEF ServicesKept, Complete
  <1>13. CASE e.tr = transport /\ x.k = "msg" /\ ReceiveMessage(e.c, n)
    <2>1. /\ scheduled' = sched \cup {n} /\ silent' = silent
          /\ txns' = IF n \in sched THEN txns ELSE [txns EXCEPT ![n] = {}]
      BY <1>13 DEF ReceiveMessage, Schedule, sched
    <2>2. \A m, a : Settles(x, m, a) => m = n
      BY <1>13 DEF Settles, n, x
    <2>3. CASE n \in processed
      <3>1. UNCHANGED <<processed, handled, services, wanted>>
        BY <1>13, <2>3 DEF ReceiveMessage
      <3>2. ServicesKept
        BY <1>3, <1>4, <1>5, <1>11, <2>2, <2>3, <3>1
      <3>3. ConfirmationsKept
        BY <1>3, <1>4, <1>5, <1>6, <1>8, <1>9, <1>13, <2>1, <2>3, <3>1 DEF ConfirmationsKept, HandledOK
      <3> QED
        BY <3>2, <3>3
    <2>4. CASE n \notin processed
      <3>1. /\ processed' = processed \cup {n} /\ handled' = [handled EXCEPT ![n] = @ + 1]
            /\ Complete({n}) /\ wanted' = wanted \ {n}
        BY <1>13, <2>4 DEF ReceiveMessage
      <3>2. handled' \in [Msg -> Nat] /\ HandledOK'
        BY <1>3, <1>4, <1>5, <1>13, <2>4, <3>1 DEF HandledOK
      <3>3. ServicesKept
        BY <1>3, <1>12, <1>13, <2>2, <3>1
      <3>4. ConfirmationsKept
        BY <1>3, <1>4, <1>5, <1>6, <1>8, <1>9, <1>13, <2>1, <2>4, <3>1, <3>2 DEF ConfirmationsKept
      <3> QED
        BY <3>3, <3>4
    <2> QED
      BY <2>3, <2>4
  <1>14. CASE e.tr = transport /\ x.k = "info" /\ ReceiveInfo(e.c, n)
    <2>1. /\ UNCHANGED <<processed, handled, wanted>>
          /\ silent' = IF n \in Update \cap processed THEN silent \cup {n} ELSE silent
      BY <1>14 DEF ReceiveInfo
    <2>2. \A m, a : ~Settles(x, m, a)
      BY <1>14 DEF Settles
    <2>3. CASE n \in Update \/ n \in wanted
      <3>1. scheduled' = sched /\ txns' = txns /\ RequestMessage(n)
        BY <1>14, <2>3 DEF ReceiveInfo, sched
      <3>2. ServicesKept
        <4>1. CASE resend[n] = Off /\ n \notin processed
          <5>1. /\ resend' = [resend EXCEPT ![n] = NoConn] /\ born' = [born EXCEPT ![n] = asked + 1]
                /\ UNCHANGED <<ask, late>>
            BY <3>1, <4>1 DEF RequestMessage
          <5> QED
            BY <1>3, <1>4, <1>5, <1>9, <1>14, <2>1, <2>2, <4>1, <5>1 DEF ServicesKept
        <4>2. CASE ~(resend[n] = Off /\ n \notin processed)
          <5>1. UNCHANGED services
            BY <3>1, <4>2 DEF RequestMessage, services
          <5> QED
            BY <1>11, <2>1, <2>2, <5>1
        <4> QED
          BY <4>1, <4>2
      <3>3. ConfirmationsKept
        BY <1>3, <1>4, <1>5, <1>6, <1>8, <1>9, <1>14, <2>1, <2>3, <3>1 DEF ConfirmationsKept, HandledOK
      <3> QED
        BY <3>2, <3>3
    <2>4. CASE ~(n \in Update \/ n \in wanted)
      <3>1. /\ scheduled' = sched \cup {n} /\ UNCHANGED services
            /\ txns' = IF n \in sched THEN txns ELSE [txns EXCEPT ![n] = {}]
        BY <1>14, <2>4 DEF ReceiveInfo, Schedule, sched
      <3>2. ServicesKept
        BY <1>11, <2>1, <2>2, <3>1
      <3>3. ConfirmationsKept
        BY <1>3, <1>4, <1>5, <1>6, <1>8, <1>9, <1>14, <2>1, <2>4, <3>1 DEF ConfirmationsKept, HandledOK
      <3> QED
        BY <3>2, <3>3
    <2> QED
      BY <2>3, <2>4
  <1>15. ASSUME e.tr = transport, scheduled' = sched, wanted' \subseteq wanted,
                UNCHANGED <<processed, txns, handled, silent>>,
                \A m \in unacked : ~Names(x, m)
         PROVE  ConfirmationsKept
    BY <1>4, <1>5, <1>6, <1>9, <1>15 DEF ConfirmationsKept, HandledOK
  <1>16. CASE e.tr = transport /\ x.k = "state" /\ ReceiveState(e.c, n, x.n)
    <2>1. scheduled' = sched /\ wanted' \subseteq wanted /\ UNCHANGED <<processed, txns, handled, silent>>
      BY <1>16 DEF ReceiveState, sched
    <2>2. \A m, a : Settles(x, m, a) => m = n /\ x.n = a
      BY <1>16 DEF Settles, n, x
    <2>3. CASE resend[n] # Off /\ ask[n] = x.n
      <3>1. Complete({n})
        BY <1>16, <2>3 DEF ReceiveState
      <3> QED
        BY <1>3, <1>8, <1>12, <1>15, <1>16, <2>1, <2>2, <3>1
    <2>4. CASE ~(resend[n] # Off /\ ask[n] = x.n)
      <3>1. UNCHANGED services
        BY <1>16, <2>4 DEF ReceiveState
      <3>2. \A m \in Msg : resend[m] \in Conn => ~Settles(x, m, ask[m])
        BY <1>5, <2>2, <2>4
      <3> QED
        BY <1>3, <1>8, <1>11, <1>15, <1>16, <2>1, <3>1, <3>2
    <2> QED
      BY <2>3, <2>4
  <1>17. CASE e.tr = transport /\ x.k = "bad" /\ ReceiveBad(e.c, x.n, x.asks)
    <2> DEFINE failed == {m \in x.asks : resend[m] # Off /\ ask[m] = x.n}
    <2>1. /\ scheduled' = sched /\ UNCHANGED <<processed, txns, wanted, born, handled, silent>>
          /\ resend' = [m \in Msg |-> IF m \in failed THEN NoConn ELSE resend[m]]
          /\ late' = late \ failed
          /\ ask' = [m \in Msg |-> IF m \in failed THEN 0 ELSE ask[m]]
      BY <1>17 DEF ReceiveBad, AskAgain, sched
    <2>2. \A m, a : Settles(x, m, a) => m \in x.asks /\ x.n = a
      BY <1>17 DEF Settles
    <2>3. /\ failed \subseteq Msg /\ \A m \in failed : resend[m] # Off
          /\ \A m \in Msg \ failed : resend[m] \in Conn => ~Settles(x, m, ask[m])
      BY <1>3, <1>5, <1>17, <2>2
    <2> HIDE DEF failed
    <2>4. ServicesKept
      BY <1>4, <1>5, <1>9, <2>1, <2>3 DEF ServicesKept
    <2>5. \A m \in unacked : ~Names(x, m)
      BY <1>8, <1>17
    <2> QED
      BY <1>15, <1>17, <2>1, <2>4, <2>5
  <1>18. CASE e.tr = transport /\ x.k = "new" /\ ReceiveNew(e.c, x.n)
    <2> DEFINE S == {m \in Msg : ask[m] # 0 /\ ask[m] < x.n}
    <2>1. /\ scheduled' = sched /\ UNCHANGED <<processed, txns, handled, silent>>
          /\ Complete(S) /\ wanted' \subseteq wanted
      BY <1>18 DEF ReceiveNew, sched
    <2>2. \A m, a : Settles(x, m, a) => x.n > a
      BY <1>18 DEF Settles
    <2>3. S \subseteq Msg /\ \A m \in Msg \ S : resend[m] \in Conn => ~Settles(x, m, ask[m])
      BY <1>3, <1>4, <1>18, <2>2 DEF Asks
    <2> HIDE DEF S
    <2>4. ServicesKept
      BY <1>12, <2>1, <2>3
    <2>5. \A m \in unacked : ~Names(x, m)
      BY <1>8, <1>18
    <2> QED
      BY <1>15, <1>18, <2>1, <2>4, <2>5
  <1>19. CASE e.tr = transport /\ x.k = "pong" /\ ReceivePong(e.c)
    <2>1. scheduled' = sched /\ UNCHANGED <<processed, txns, services, wanted, handled, silent>>
      BY <1>19 DEF ReceivePong, sched
    <2>2. \A m : ~Names(x, m) /\ \A a : ~Settles(x, m, a)
      BY <1>8, <1>19 DEF Settles
    <2> QED
      BY <1>11, <1>15, <1>19, <2>1, <2>2
  <1> QED
    BY <1>2, <1>10, <1>13, <1>14, <1>16, <1>17, <1>18, <1>19

-----------------------------------------------------------------------------
(* A step that only asks for a transaction, or notes that there was one. *)
LEMMA SameStep ==
    ASSUME IndInv, FlagsOK',
           UNCHANGED <<session, processed, scheduled, txns, wanted, resend, ask, born, late,
                       transport, asked, conn, nextConn, up, down, doomed, mq, produced, unacked,
                       sentOn, heard, lost, handled, silent, breaks>>
    PROVE  IndInv'
  <1>1. TypeOK' /\ QueuesOK' /\ CountsOK'
    BY DEF IndInv, TypeOK, QueuesOK, CountsOK
  <1>2. NumbersOK' /\ ProducedOK' /\ GoneOK' /\ SettledOK' /\ HandledOK'
    BY DEF IndInv, NumbersOK, ProducedOK, GoneOK, SettledOK, HandledOK
  <1>3. TakenOK' /\ RemovalOK' /\ KeptOK'
    BY DEF IndInv, TakenOK, RemovalOK, KeptOK, Taken, Elsewhere, InAcks, InDown
  <1>4. ResendOK' /\ QuestionOK'
    BY DEF IndInv, ResendOK, QuestionOK, Watched, InAsks, Answered, Behind
  <1> QED
    BY <1>1, <1>2, <1>3, <1>4 DEF IndInv

(* A payload goes to the socket and its completion to the manager queue.   *)
(* Its number is above those of all questions before it.                   *)
LEMMA TransactionStep ==
    ASSUME IndInv, NEW high \in BOOLEAN, Transaction(high)
    PROVE  IndInv'
  <1> DEFINE acks == IF fresh \/ ~high \/ ConfirmationsExceed THEN scheduled ELSE {}
             asks == {m \in Msg : resend[m] # Off /\ (ask[m] = 0 \/ resend[m] = NoConn)}
             n == asked + 1
             any == high \/ fresh \/ acks \cup asks # {}
             u == [sess |-> session, n |-> n, acks |-> acks, asks |-> asks]
             b == [op |-> "sent", sess |-> session, tr |-> transport, c |-> conn, n |-> n,
                   acks |-> acks, asks |-> asks]
  <1>1. /\ conn # NoConn
        /\ asks # {} => asked < MaxAsks
        /\ asked' = IF asks = {} THEN asked ELSE n
        /\ UNCHANGED <<session, processed, scheduled, txns, wanted, resend, ask, born, late,
                       transport, conn, nextConn, down, doomed, produced, unacked, sentOn, heard,
                       lost, handled, silent, breaks>>
    BY DEF Transaction, store, services, server
  <1>2. /\ any => up' = Append(up, u) /\ mq' = Append(mq, b)
        /\ ~any => up' = up /\ mq' = mq
    BY DEF Transaction
  <1>3. ~any => asks = {}
    OBVIOUS
  <1>4. FlagsOK'
    <2>1. asking' \in BOOLEAN /\ fresh' \in BOOLEAN
      BY Zenon DEF Transaction
    <2> QED
      BY <1>1, <2>1, Zenon DEF IndInv, TypeOK, FlagsOK
  <1>5. acks \subseteq scheduled /\ acks \in SUBSET Msg /\ asks \in SUBSET Msg
    BY DEF IndInv, TypeOK
  <1>6. asks \subseteq produced
    BY DEF IndInv, ProducedOK
  <1> HIDE DEF acks, asks, any
  <1>7. CASE ~any
    <2>1. asked' = asked /\ up' = up /\ mq' = mq
      BY <1>1, <1>2, <1>3, <1>7
    <2> QED
      BY <1>1, <1>4, <2>1, SameStep
  <1>8. CASE any
    <2>1. session \in Numbers /\ transport \in Numbers /\ conn \in Conn /\ n \in Asks /\ asked \in Nat
      BY <1>1 DEF IndInv, TypeOK, Numbers, Asks
    <2> HIDE DEF n
    <2>2. u \in Upload /\ b \in Blocks
      BY <1>5, <2>1 DEF Upload, Blocks, SentBlock
    <2>3. /\ up' \in Seq(Upload) /\ Added(up', up, u) /\ mq' \in Seq(Blocks) /\ Added(mq', mq, b)
      BY <1>2, <1>8, <2>2, AppendAdds DEF IndInv, QueuesOK
    <2>4. /\ u.sess = session /\ u.n = n /\ u.acks = acks /\ u.asks = asks
          /\ b.op = "sent" /\ b.sess = session /\ b.tr = transport /\ b.c = conn /\ b.n = n
          /\ b.acks = acks /\ b.asks = asks
      OBVIOUS
    <2> HIDE DEF u, b
    <2>5. QueuesOK'
      BY <1>1, <2>3 DEF IndInv, QueuesOK
    <2>6. TypeOK'
      <3>1. asked' \in 0..MaxAsks
        BY <1>1, IncomingAssumption DEF IndInv, TypeOK, n
      <3> QED
        BY <1>1, <1>4, <3>1 DEF IndInv, TypeOK
    <2>7. CountsOK'
      <3>1. \A i \in 1..Len(mq') : /\ mq'[i].c < nextConn
                                   /\ mq'[i].op # "failed" => mq'[i].tr <= transport
                                   /\ mq'[i].op = "sent" => mq'[i].sess <= session
        <4>1. b.c < nextConn /\ b.tr <= transport /\ b.sess <= session
          BY <2>1, <2>4 DEF IndInv, CountsOK, Numbers
        <4> QED
          BY <2>3, <4>1 DEF IndInv, CountsOK, Added
      <3>2. \A i \in 1..Len(up') : up'[i].sess = session
        BY <2>3, <2>4 DEF IndInv, CountsOK, Added
      <3> QED
        BY <1>1, <3>1, <3>2 DEF IndInv, CountsOK
    <2>8. NumbersOK'
      <3>1. PICK k \in {0, 1} : asked' = asked + k /\ (asks # {} => k = 1)
        BY <1>1, <2>1 DEF n
      <3>2. \A m \in Msg : ask[m] <= asked + k
        BY <2>1 DEF IndInv, NumbersOK, TypeOK
      <3>3. \A i \in 1..Len(mq) : mq[i].op = "sent" => mq[i].n \in Nat
        BY BlockFacts DEF IndInv, Asks
      <3>4. \A i \in 1..Len(up) : up[i].n \in Nat
        <4>1. \A i \in 1..Len(up) : up[i] \in Upload
          BY DEF IndInv, QueuesOK
        <4> QED
          BY <4>1 DEF Upload, Asks
      <3>5. \A i \in 1..Len(mq') : mq'[i].op = "sent" /\ mq'[i].asks # {} => mq'[i].n <= asked + k
        <4> SUFFICES ASSUME NEW i \in 1..Len(mq'), mq'[i].op = "sent", mq'[i].asks # {}
                     PROVE  mq'[i].n <= asked + k
          OBVIOUS
        <4>1. CASE i \in 1..Len(mq)
          BY <2>1, <2>3, <3>3, <4>1 DEF IndInv, NumbersOK, Added
        <4>2. CASE mq'[i] = b
          BY <2>1, <2>4, <3>1, <4>2 DEF n
        <4> QED
          BY <2>3, <4>1, <4>2 DEF Added
      <3>6. ASSUME NEW i \in 1..Len(up'), up'[i].asks # {}
            PROVE  up'[i].n <= asked + k /\ \A j \in 1..Len(up') : i < j => up'[i].n < up'[j].n
        <4>1. CASE i \in 1..Len(up)
          <5>1. up'[i] = up[i] /\ up[i].n <= asked /\ up[i].n \in Nat
            BY <2>3, <3>4, <3>6, <4>1 DEF IndInv, NumbersOK, Added
          <5>2. ASSUME NEW j \in 1..Len(up'), i < j
                PROVE  up[i].n < up'[j].n
            <6>1. CASE j \in 1..Len(up)
              BY <2>3, <3>6, <4>1, <5>1, <5>2, <6>1 DEF IndInv, NumbersOK, Added
            <6>2. CASE up'[j] = u
              BY <2>1, <2>4, <5>1, <6>2 DEF n
            <6> QED
              BY <2>3, <6>1, <6>2 DEF Added
          <5> QED
            BY <2>1, <5>1, <5>2
        <4>2. CASE i = Len(up')
          <5>1. up'[i] = u /\ \A j \in 1..Len(up') : ~(i < j)
            BY <2>3, <4>2 DEF Added
          <5> QED
            BY <2>1, <2>4, <3>1, <3>6, <5>1 DEF n
        <4> QED
          BY <2>3, <4>1, <4>2 DEF Added
      <3>7. /\ \A m \in Msg : ask'[m] <= asked' /\ (resend'[m] \in Conn => ask'[m] # 0)
        BY <1>1, <3>1, <3>2 DEF IndInv, NumbersOK
      <3> QED
        BY <3>1, <3>5, <3>6, <3>7 DEF NumbersOK
    <2>9. ProducedOK'
      <3>1. acks \cup asks \subseteq produced
        BY <1>5, <1>6 DEF IndInv, ProducedOK
      <3> QED
        BY <1>1, <2>3, <2>4, <3>1 DEF IndInv, ProducedOK, Added
    <2>10. GoneOK'
      BY <1>1, <2>3, <2>4 DEF IndInv, GoneOK, Added
    <2>11. SettledOK' /\ HandledOK'
      BY <1>1, <1>5, <2>3, <2>4 DEF IndInv, SettledOK, HandledOK, Added
    <2>12. /\ \A m : InAcks(m) \/ m \in acks => InAcks(m)'
           /\ \A m, a : InAsks(m, a) \/ (m \in asks /\ a = n) => InAsks(m, a)'
           /\ \A a \in Nat : Behind(a) /\ a <= asked => Behind(a)'
      <3>1. \A m : InAcks(m) \/ m \in acks => InAcks(m)'
        BY <2>3, <2>4 DEF InAcks, Added
      <3>2. \A m, a : InAsks(m, a) \/ (m \in asks /\ a = n) => InAsks(m, a)'
        BY <2>3, <2>4 DEF InAsks, Added
      <3>3. ASSUME NEW a \in Nat, Behind(a), a <= asked
            PROVE  Behind(a)'
        <4>1. a < n
          BY <2>1, <3>3 DEF n
        <4> QED
          BY <2>3, <2>4, <3>3, <4>1 DEF Behind, Added
      <3> QED
        BY <3>1, <3>2, <3>3
    <2>13. TakenOK'
      <3> SUFFICES ASSUME NEW m \in unacked, Taken(m, conn, Len(mq) + 1)'
                   PROVE  InAcks(m)' \/ m \in silent
        BY <1>1 DEF TakenOK
      <3>1. Taken(m, conn, Len(mq) + 1) \/ m \in acks
        <4>1. \/ MarkBefore(mq, session, m, conn, Len(mq) + 1) \/ m \in acks
              \/ ~MarkBefore(mq', session, m, conn, Len(mq') + 1)
          BY <2>3, <2>4, MarksAdded
        <4> QED
          BY <1>1, <4>1 DEF Taken
      <3> QED
        BY <1>1, <2>12, <3>1 DEF IndInv, TakenOK
    <2>14. ASSUME NEW m, NEW i \in Nat, Elsewhere(m, i)
           PROVE  Elsewhere(m, i)'
      BY <1>1, <2>3, <2>12, <2>14, WhenAdded DEF Elsewhere, InDown
    <2>15. RemovalOK'
      <3> SUFFICES ASSUME NEW m \in unacked, NEW i \in 1..Len(mq'), mq'[i].op = "data",
                          mq'[i].tr = transport, Taken(m, mq[i].c, i)'
                   PROVE  Elsewhere(m, i)'
        BY <1>1 DEF RemovalOK
      <3>1. i \in 1..Len(mq) /\ mq'[i] = mq[i] /\ i \in Nat
        BY <2>3, <2>4 DEF Added
      <3>2. Taken(m, mq[i].c, i)
        <4>1. MarkBefore(mq', session, m, mq[i].c, i) => MarkBefore(mq, session, m, mq[i].c, i)
          BY <2>3, MarksAdded
        <4> QED
          BY <1>1, <3>1, <4>1 DEF Taken
      <3>3. Elsewhere(m, i)
        BY <3>1, <3>2 DEF IndInv, RemovalOK
      <3> QED
        BY <2>14, <3>1, <3>3
    <2>16. KeptOK'
      BY <1>1, <2>14 DEF IndInv, KeptOK
    <2>17. ASSUME NEW m, NEW c, NEW a \in Nat, a <= asked, NEW i \in Nat, Watched(m, c, a, i)
           PROVE  Watched(m, c, a, i)'
      <3>1. /\ InAsks(m, a) => InAsks(m, a)'
            /\ Behind(a) => Behind(a)'
            /\ Answered(m, a) => Answered(m, a)'
        BY <1>1, <2>12, <2>17 DEF Answered
      <3>2. /\ WordAfter(mq, transport, m, c, a, i) => WordAfter(mq', transport, m, c, a, i)
            /\ FailureAfter(mq, c, i) => FailureAfter(mq', c, i)
        BY <2>3, WhenAdded
      <3> QED
        BY <1>1, <2>17, <3>1, <3>2 DEF Watched
    <2>18. ResendOK'
      <3> SUFFICES ASSUME NEW m \in Msg, resend[m] \in Conn, m \notin late
                   PROVE  Watched(m, resend[m], ask[m], 0)'
        BY <1>1 DEF ResendOK
      <3>1. Watched(m, resend[m], ask[m], 0) /\ ask[m] \in Nat /\ ask[m] <= asked
        BY DEF IndInv, ResendOK, TypeOK, NumbersOK
      <3> QED
        BY <1>1, <2>17, <3>1
    <2>19. QuestionOK'
      <3> SUFFICES ASSUME NEW s \in 1..Len(mq'), mq'[s].op = "sent", mq'[s].tr = transport,
                          NEW m \in mq'[s].asks
                   PROVE  Watched(m, mq[s].c, mq[s].n, s)'
        BY <1>1 DEF QuestionOK
      <3>1. CASE s \in 1..Len(mq)
        <4>1. mq'[s] = mq[s] /\ s \in Nat
          BY <2>3, <3>1 DEF Added
        <4>2. Watched(m, mq[s].c, mq[s].n, s) /\ mq[s].n \in Nat /\ mq[s].n <= asked
          BY <3>1, <4>1, BlockFacts DEF IndInv, QuestionOK, NumbersOK, Asks
        <4> QED
          BY <2>17, <4>1, <4>2
      <3>2. CASE mq'[s] = b
        BY <1>1, <2>4, <2>12, <3>2 DEF Watched
      <3> QED
        BY <2>3, <3>1, <3>2 DEF Added
    <2> QED
      BY <2>5, <2>6, <2>7, <2>8, <2>9, <2>10, <2>11, <2>13, <2>15, <2>16, <2>18, <2>19 DEF IndInv
  <1> QED
    BY <1>7, <1>8

(* Data comes in and goes to the manager queue.  A confirmation that this  *)
(* connection took is still on its way when the server has not read it.    *)
LEMMA ArriveStep ==
    ASSUME IndInv, Arrive
    PROVE  IndInv'
  <1> DEFINE x == down[1]
             b == [op |-> "data", tr |-> transport, c |-> conn, x |-> x]
  <1>1. /\ down # <<>> /\ down' = Tail(down) /\ mq' = Append(mq, b)
        /\ UNCHANGED <<session, processed, scheduled, txns, wanted, resend, ask, born, late,
                       transport, asked, conn, nextConn, up, doomed, produced, unacked, sentOn,
                       heard, lost, handled, silent, breaks>>
    BY TailDrops DEF Arrive, client, store, services, server, IndInv, QueuesOK
  <1>2. FlagsOK'
    <2>1. UNCHANGED <<asking, fresh>>
      BY DEF Arrive, client
    <2> QED
      BY <1>1, <2>1, Zenon DEF IndInv, TypeOK, FlagsOK
  <1>3. /\ down' \in Seq(Payload) /\ Dropped(down', down) /\ 1 \in 1..Len(down) /\ x \in Payload
    BY <1>1, TailDrops DEF IndInv, QueuesOK
  <1>4. transport \in Numbers /\ conn \in Conn /\ conn # NoConn
    BY <1>1 DEF IndInv, TypeOK, CountsOK, Numbers
  <1>5. b \in Blocks
    BY <1>3, <1>4 DEF Blocks, DataBlock
  <1>6. mq' \in Seq(Blocks) /\ Added(mq', mq, b)
    BY <1>1, <1>5, AppendAdds DEF IndInv, QueuesOK
  <1>7. /\ b.op = "data" /\ b.tr = transport /\ b.c = conn /\ b.x = x
        /\ \A m \in Msg : Names(x, m) => m \in produced
        /\ x.k = "state" => x.m \notin unacked
    BY <1>3 DEF IndInv, ProducedOK, GoneOK
  <1> HIDE DEF b, x
  <1>8. QueuesOK'
    BY <1>1, <1>3, <1>6 DEF IndInv, QueuesOK
  <1>9. TypeOK'
    BY <1>1, <1>2 DEF IndInv, TypeOK
  <1>10. CountsOK'
    <2>1. b.c < nextConn /\ b.tr <= transport
      BY <1>4, <1>7 DEF IndInv, CountsOK, Numbers
    <2>2. \A i \in 1..Len(mq') : /\ mq'[i].c < nextConn
                                 /\ mq'[i].op # "failed" => mq'[i].tr <= transport
                                 /\ mq'[i].op = "sent" => mq'[i].sess <= session
      BY <1>6, <1>7, <2>1 DEF IndInv, CountsOK, Added
    <2> QED
      BY <1>1, <1>4, <2>2 DEF IndInv, CountsOK
  <1>11. NumbersOK'
    <2>1. \A i \in 1..Len(mq') : mq'[i].op = "sent" /\ mq'[i].asks # {} => mq'[i].n <= asked
      BY <1>6, <1>7 DEF IndInv, NumbersOK, Added
    <2> QED
      BY <1>1, <2>1 DEF IndInv, NumbersOK
  <1>12. ProducedOK'
    <2>1. \A m \in Msg, i \in 1..Len(down') : Names(down'[i], m) => m \in produced
      BY <1>3 DEF IndInv, ProducedOK, Dropped
    <2>2. \A i \in 1..Len(mq') :
             /\ mq'[i].op = "data" => \A m \in Msg : Names(mq'[i].x, m) => m \in produced
             /\ mq'[i].op = "sent" => mq'[i].acks \cup mq'[i].asks \subseteq produced
      BY <1>6, <1>7 DEF IndInv, ProducedOK, Added
    <2> QED
      BY <1>1, <2>1, <2>2 DEF IndInv, ProducedOK
  <1>13. GoneOK'
    BY <1>1, <1>3, <1>6, <1>7 DEF IndInv, GoneOK, Added, Dropped
  <1>14. SettledOK' /\ HandledOK'
    BY <1>1 DEF IndInv, SettledOK, HandledOK
  <1>15. /\ \A m : InDown(m) => InDown(m)' \/ Names(x, m)
         /\ \A m, a : Answered(m, a) => Answered(m, a)' \/ Settles(x, m, a)
    BY <1>3 DEF InDown, Answered, Dropped, x
  <1>16. /\ \A m : \A i \in 1..Len(mq') : Names(x, m) => DataFrom(mq', transport, m, i)
         /\ \A m, a : \A i \in 0..Len(mq) :
              Settles(x, m, a) => WordAfter(mq', transport, m, conn, a, i)
    BY <1>6, <1>7 DEF Added, DataFrom, WordAfter
  <1>17. TakenOK'
    <2> SUFFICES ASSUME NEW m \in unacked, Taken(m, conn, Len(mq) + 1)'
                 PROVE  InAcks(m)' \/ m \in silent
      BY <1>1 DEF TakenOK
    <2>1. Taken(m, conn, Len(mq) + 1)
      <3>1. \/ MarkBefore(mq, session, m, conn, Len(mq) + 1)
            \/ ~MarkBefore(mq', session, m, conn, Len(mq') + 1)
        BY <1>6, <1>7, MarksAdded
      <3> QED
        BY <1>1, <3>1 DEF Taken
    <2> QED
      BY <1>1, <1>4, <2>1 DEF IndInv, TakenOK, InAcks
  <1>18. ASSUME NEW m, NEW i \in 1..Len(mq'), Elsewhere(m, i)
         PROVE  Elsewhere(m, i)'
    <2>1. i \in Nat
      BY <1>6 DEF Added
    <2> QED
      BY <1>1, <1>6, <1>15, <1>16, <1>18, <2>1, WhenAdded DEF Elsewhere, InAcks
  <1>19. RemovalOK'
    <2> SUFFICES ASSUME NEW m \in unacked, NEW i \in 1..Len(mq'), mq'[i].op = "data",
                        mq'[i].tr = transport, Taken(m, mq[i].c, i)'
                 PROVE  Elsewhere(m, i)'
      BY <1>1 DEF RemovalOK
    <2>1. CASE i \in 1..Len(mq)
      <3>1. mq'[i] = mq[i]
        BY <1>6, <2>1 DEF Added
      <3>2. Taken(m, mq[i].c, i)
        <4>1. MarkBefore(mq', session, m, mq[i].c, i) => MarkBefore(mq, session, m, mq[i].c, i)
          BY <1>6, MarksAdded
        <4> QED
          BY <1>1, <3>1, <4>1 DEF Taken
      <3>3. Elsewhere(m, i)
        BY <2>1, <3>1, <3>2 DEF IndInv, RemovalOK
      <3> QED
        BY <1>18, <3>3
    <2>2. CASE i = Len(mq')
      <3>1. mq'[i].c = conn /\ i = Len(mq) + 1
        BY <1>6, <1>7, <2>2 DEF Added
      <3>2. Taken(m, conn, Len(mq) + 1)
        <4>1. MarkBefore(mq', session, m, conn, i) => MarkBefore(mq, session, m, conn, i)
          BY <1>6, MarksAdded
        <4> QED
          BY <1>1, <3>1, <4>1 DEF Taken
      <3>3. InAcks(m) \/ m \in silent
        BY <1>4, <3>2 DEF IndInv, TakenOK
      <3> QED
        BY <1>1, <3>3 DEF Elsewhere, InAcks
    <2> QED
      BY <1>6, <2>1, <2>2 DEF Added
  <1>20. KeptOK'
    <2>1. 1 \in 1..Len(mq')
      BY <1>6 DEF Added
    <2> QED
      BY <1>1, <1>18, <2>1 DEF IndInv, KeptOK
  <1>21. ASSUME NEW m, NEW c, NEW a, NEW i \in 0..Len(mq), Watched(m, c, a, i)
         PROVE  Watched(m, c, a, i)'
    <2>1. i \in Nat
      BY <1>6 DEF Added
    <2>2. /\ WordAfter(mq, transport, m, c, a, i) => WordAfter(mq', transport, m, c, a, i)
          /\ FailureAfter(mq, c, i) => FailureAfter(mq', c, i)
      BY <1>6, <2>1, WhenAdded
    <2> QED
      BY <1>1, <1>15, <1>16, <1>21, <2>2 DEF Watched, InAsks, Behind
  <1>22. ResendOK'
    <2>1. 0 \in 0..Len(mq)
      BY <1>6 DEF Added
    <2> QED
      BY <1>1, <1>21, <2>1 DEF IndInv, ResendOK
  <1>23. QuestionOK'
    <2> SUFFICES ASSUME NEW s \in 1..Len(mq'), mq'[s].op = "sent", mq'[s].tr = transport,
                        NEW m \in mq'[s].asks
                 PROVE  Watched(m, mq[s].c, mq[s].n, s)'
      BY <1>1 DEF QuestionOK
    <2>1. s \in 1..Len(mq) /\ mq'[s] = mq[s] /\ s \in 0..Len(mq)
      BY <1>6, <1>7 DEF Added
    <2>2. Watched(m, mq[s].c, mq[s].n, s)
      BY <2>1 DEF IndInv, QuestionOK
    <2> QED
      BY <1>21, <2>1, <2>2
  <1> QED
    BY <1>8, <1>9, <1>10, <1>11, <1>12, <1>13, <1>14, <1>17, <1>19, <1>20, <1>22, <1>23 DEF IndInv

-----------------------------------------------------------------------------
(* A connection is lost: what was on its way comes again or is asked for   *)
(* again, when the block that says so runs.                                *)
LEMMA CloseStep ==
    ASSUME IndInv, ConnectionCloses
    PROVE  IndInv'
  <1> DEFINE b == [op |-> "failed", c |-> conn]
  <1>1. /\ conn # NoConn /\ mq' = Append(mq, b)
        /\ conn' = NoConn /\ up' = <<>> /\ down' = <<>> /\ sentOn' = {} /\ silent' = {}
        /\ UNCHANGED <<session, processed, scheduled, txns, wanted, resend, ask, born, late,
                       transport, asked, nextConn, produced, unacked, lost, handled>>
    BY DEF ConnectionCloses, Report, CutConnection, store, services
  <1>2. ~heard' /\ ~doomed' /\ FlagsOK'
    <2>1. heard' = FALSE /\ doomed' = FALSE /\ fresh' = FALSE /\ UNCHANGED <<asking, lost>>
      BY DEF ConnectionCloses, CutConnection
    <2> QED
      BY <2>1, Zenon DEF IndInv, TypeOK, FlagsOK
  <1>3. \/ doomed /\ breaks' = breaks
        \/ breaks < MaxBreaks /\ breaks' = breaks + 1
    BY DEF ConnectionCloses, Break
  <1>4. conn \in Conn
    BY <1>1 DEF IndInv, TypeOK
  <1>5. b \in Blocks
    BY <1>4 DEF Blocks, FailedBlock
  <1>6. mq' \in Seq(Blocks) /\ Added(mq', mq, b)
    BY <1>1, <1>5, AppendAdds DEF IndInv, QueuesOK
  <1>7. b.op = "failed" /\ b.c = conn
    OBVIOUS
  <1> HIDE DEF b
  <1>8. QueuesOK'
    BY <1>1, <1>6 DEF IndInv, QueuesOK
  <1>9. TypeOK'
    <2>1. breaks' \in 0..MaxBreaks
      BY <1>3, IncomingAssumption DEF IndInv, TypeOK
    <2> QED
      BY <1>1, <1>2, <2>1 DEF IndInv, TypeOK
  <1>10. CountsOK'
    <2>1. /\ nextConn \in Nat /\ breaks \in Nat /\ session \in Nat /\ transport \in Nat
          /\ nextConn <= breaks + 2 /\ conn < nextConn /\ conn \in Nat
          /\ session <= breaks + 1 /\ transport <= breaks + 1
      BY <1>4 DEF IndInv, TypeOK, CountsOK, Conn
    <2>2. doomed => nextConn <= breaks + 1
      BY DEF IndInv, CountsOK
    <2>3. nextConn <= breaks' + 1 /\ session <= breaks' + 1 /\ transport <= breaks' + 1
      <3>1. CASE doomed /\ breaks' = breaks
        BY <2>1, <2>2, <3>1
      <3>2. CASE breaks' = breaks + 1
        BY <2>1, <3>2
      <3> QED
        BY <1>3, <3>1, <3>2
    <2>4. NoConn < nextConn
      BY <1>4, <2>1 DEF NoConn, Conn
    <2>5. \A i \in 1..Len(mq') : /\ mq'[i].c < nextConn
                                 /\ mq'[i].op # "failed" => mq'[i].tr <= transport
                                 /\ mq'[i].op = "sent" => mq'[i].sess <= session
      BY <1>6, <1>7, <2>1 DEF IndInv, CountsOK, Added
    <2>6. \A m \in Msg : \A c \in txns[m] : c < nextConn
      BY DEF IndInv, CountsOK
    <2> QED
      BY <1>1, <1>2, <2>3, <2>4, <2>5, <2>6 DEF CountsOK
  <1>11. NumbersOK'
    <2>1. \A i \in 1..Len(mq') : mq'[i].op = "sent" /\ mq'[i].asks # {} => mq'[i].n <= asked
      BY <1>6, <1>7 DEF IndInv, NumbersOK, Added
    <2> QED
      BY <1>1, <2>1 DEF IndInv, NumbersOK
  <1>12. ProducedOK' /\ GoneOK'
    <2>1. ProducedOK'
      BY <1>1, <1>6, <1>7 DEF IndInv, ProducedOK, Added
    <2>2. GoneOK'
      BY <1>1, <1>6, <1>7 DEF IndInv, GoneOK, Added
    <2> QED
      BY <2>1, <2>2
  <1>13. SettledOK' /\ HandledOK'
    BY <1>1 DEF IndInv, SettledOK, HandledOK
  <1>14. TakenOK' /\ RemovalOK' /\ KeptOK'
    BY <1>1 DEF TakenOK, RemovalOK, KeptOK, Elsewhere
  <1>15. ASSUME NEW m, NEW c, NEW a, NEW i \in 0..Len(mq), Watched(m, c, a, i)
         PROVE  Watched(m, c, a, i)'
    <2>1. i \in Nat
      BY <1>6 DEF Added
    <2>2. c = conn => FailureAfter(mq', c, i)
      BY <1>6, <1>7 DEF FailureAfter, Added
    <2>3. /\ WordAfter(mq, transport, m, c, a, i) => WordAfter(mq', transport, m, c, a, i)
          /\ FailureAfter(mq, c, i) => FailureAfter(mq', c, i)
      BY <1>6, <2>1, WhenAdded
    <2> QED
      BY <1>1, <1>15, <2>2, <2>3 DEF Watched
  <1>16. ResendOK'
    <2>1. 0 \in 0..Len(mq)
      BY <1>6 DEF Added
    <2> QED
      BY <1>1, <1>15, <2>1 DEF IndInv, ResendOK
  <1>17. QuestionOK'
    <2> SUFFICES ASSUME NEW s \in 1..Len(mq'), mq'[s].op = "sent", mq'[s].tr = transport,
                        NEW m \in mq'[s].asks
                 PROVE  Watched(m, mq[s].c, mq[s].n, s)'
      BY <1>1 DEF QuestionOK
    <2>1. s \in 1..Len(mq) /\ mq'[s] = mq[s] /\ s \in 0..Len(mq)
      BY <1>6, <1>7 DEF Added
    <2>2. Watched(m, mq[s].c, mq[s].n, s)
      BY <2>1 DEF IndInv, QuestionOK
    <2> QED
      BY <1>15, <2>1, <2>2
  <1> QED
    BY <1>8, <1>9, <1>10, <1>11, <1>12, <1>13, <1>14, <1>16, <1>17 DEF IndInv

(* A new transport: what waits on the manager queue is from an earlier     *)
(* one, and no service counts on its question.                             *)
LEMMA TransportReplaced ==
    ASSUME IndInv, breaks < MaxBreaks, breaks' = breaks + 1, transport' = transport + 1,
           conn' = NoConn, up' = <<>>, down' = <<>>, sentOn' = {}, ~heard', ~doomed',
           UNCHANGED <<nextConn, produced, unacked, asked>>,
           session' = session \/ session' = session + 1,
           \A m \in Msg : \A c \in txns'[m] : c < nextConn,
           \A m \in Msg : resend'[m] \notin Conn /\ ask'[m] <= asked,
           \A i \in 1..Len(mq') : \/ mq'[i].op = "failed" /\ mq'[i].c < nextConn
                                  \/ \E j \in 1..Len(mq) : mq'[i] = mq[j]
    PROVE  /\ session' \in 1..(MaxBreaks + 1) /\ transport' \in 1..(MaxBreaks + 1)
           /\ breaks' \in 0..MaxBreaks
           /\ CountsOK' /\ NumbersOK' /\ GoneOK'
           /\ TakenOK' /\ RemovalOK' /\ KeptOK' /\ ResendOK' /\ QuestionOK'
  <1>1. /\ nextConn \in Nat /\ nextConn >= 1 /\ breaks \in Nat /\ MaxBreaks \in Nat
        /\ session \in Nat /\ session >= 1 /\ transport \in Nat /\ transport >= 1
        /\ nextConn <= breaks + 2 /\ session <= breaks + 1 /\ transport <= breaks + 1
    BY IncomingAssumption DEF IndInv, TypeOK, CountsOK
  <1>2. /\ session' \in 1..(MaxBreaks + 1) /\ transport' \in 1..(MaxBreaks + 1)
        /\ breaks' \in 0..MaxBreaks
    BY <1>1
  <1>3. ASSUME NEW i \in 1..Len(mq')
        PROVE  /\ mq'[i].c < nextConn
               /\ mq'[i].op # "failed" => mq'[i].tr <= transport' /\ mq'[i].tr # transport'
               /\ mq'[i].op = "sent" => mq'[i].sess <= session'
    <2>1. CASE mq'[i].op = "failed" /\ mq'[i].c < nextConn
      BY <2>1
    <2>2. CASE \E j \in 1..Len(mq) : mq'[i] = mq[j]
      <3>1. PICK j \in 1..Len(mq) : mq'[i] = mq[j]
        BY <2>2
      <3>2. /\ mq[j].c < nextConn
            /\ mq[j].op # "failed" => mq[j].tr <= transport
            /\ mq[j].op = "sent" => mq[j].sess <= session
        BY DEF IndInv, CountsOK
      <3>3. /\ mq[j].op # "failed" => mq[j].tr \in Numbers
            /\ mq[j].op = "sent" => mq[j].sess \in Numbers
        BY BlockFacts DEF IndInv
      <3> QED
        BY <1>1, <3>1, <3>2, <3>3 DEF Numbers
    <2> QED
      BY <2>1, <2>2
  <1>4. CountsOK'
    <2>1. /\ NoConn < nextConn /\ nextConn <= breaks' + 1
          /\ session' <= breaks' + 1 /\ transport' <= breaks' + 1
      BY <1>1 DEF NoConn
    <2> QED
      BY <1>3, <2>1 DEF CountsOK
  <1>5. NumbersOK' /\ GoneOK'
    <2>1. \A i \in 1..Len(mq') : mq'[i].op = "sent" /\ mq'[i].asks # {} => mq'[i].n <= asked
      BY DEF IndInv, NumbersOK
    <2>2. NumbersOK'
      BY <2>1 DEF NumbersOK
    <2>3. GoneOK'
      BY DEF IndInv, GoneOK
    <2> QED
      BY <2>2, <2>3
  <1>6. TakenOK' /\ RemovalOK' /\ KeptOK'
    BY <1>3 DEF TakenOK, RemovalOK, KeptOK, Elsewhere
  <1>7. ResendOK' /\ QuestionOK'
    BY <1>3 DEF ResendOK, QuestionOK
  <1> QED
    BY <1>2, <1>4, <1>5, <1>6, <1>7

(* The transport is replaced inside the session. *)
LEMMA ReplaceStep ==
    ASSUME IndInv, NEW reported \in BOOLEAN, ReplaceTransport(reported)
    PROVE  IndInv'
  <1> DEFINE b == [op |-> "failed", c |-> conn]
  <1>1. /\ breaks < MaxBreaks /\ breaks' = breaks + 1 /\ transport' = transport + 1
        /\ conn' = NoConn /\ up' = <<>> /\ down' = <<>> /\ sentOn' = {} /\ silent' = {}
        /\ resend' = [m \in Msg |-> IF resend[m] # Off THEN NoConn ELSE resend[m]]
        /\ late' \subseteq late
        /\ mq' = mq \/ (conn # NoConn /\ mq' = Append(mq, b))
        /\ UNCHANGED <<session, processed, scheduled, txns, wanted, ask, born, asked, nextConn,
                       produced, unacked, lost, handled>>
    BY DEF ReplaceTransport, Break, AskAgain, Report, CutConnection, store
  <1>2. ~heard' /\ ~doomed' /\ FlagsOK'
    <2>1. heard' = FALSE /\ doomed' = FALSE /\ fresh' = FALSE /\ asking' = TRUE /\ lost' = lost
      BY DEF ReplaceTransport, CutConnection
    <2> QED
      BY <2>1, Zenon DEF IndInv, TypeOK, FlagsOK
  <1>3. /\ mq' \in Seq(Blocks)
        /\ \A i \in 1..Len(mq') : \/ mq'[i].op = "failed" /\ mq'[i].c < nextConn
                                  \/ \E j \in 1..Len(mq) : mq'[i] = mq[j]
    <2>1. CASE mq' = mq
      BY <2>1 DEF IndInv, QueuesOK
    <2>2. CASE conn # NoConn /\ mq' = Append(mq, b)
      <3>1. b \in Blocks
        BY <2>2 DEF IndInv, TypeOK, Blocks, FailedBlock
      <3>2. mq' \in Seq(Blocks) /\ Added(mq', mq, b)
        BY <2>2, <3>1, AppendAdds DEF IndInv, QueuesOK
      <3>3. b.op = "failed" /\ b.c < nextConn
        BY DEF IndInv, CountsOK
      <3> QED
        BY <3>2, <3>3 DEF Added
    <2> QED
      BY <1>1, <2>1, <2>2
  <1>4. /\ resend' \in [Msg -> {Off, NoConn} \cup Conn]
        /\ \A m \in Msg : resend'[m] \notin Conn /\ ask'[m] <= asked
        /\ \A m \in Msg : resend'[m] = Off <=> resend[m] = Off
    BY <1>1 DEF IndInv, TypeOK, NumbersOK, Conn, Off, NoConn
  <1>5. \A m \in Msg : \A c \in txns'[m] : c < nextConn
    BY <1>1 DEF IndInv, CountsOK
  <1>6. /\ session' \in 1..(MaxBreaks + 1) /\ transport' \in 1..(MaxBreaks + 1)
        /\ breaks' \in 0..MaxBreaks
        /\ CountsOK' /\ NumbersOK' /\ GoneOK'
        /\ TakenOK' /\ RemovalOK' /\ KeptOK' /\ ResendOK' /\ QuestionOK'
    <2> HIDE DEF b
    <2> QED
      BY <1>1, <1>2, <1>3, <1>4, <1>5, TransportReplaced
  <1>7. TypeOK'
    BY <1>1, <1>2, <1>4, <1>6 DEF IndInv, TypeOK
  <1>8. QueuesOK' /\ SettledOK' /\ HandledOK'
    BY <1>1, <1>3 DEF IndInv, QueuesOK, SettledOK, HandledOK
  <1>9. ProducedOK'
    <2>1. \A i \in 1..Len(mq') :
             /\ mq'[i].op = "data" => \A m \in Msg : Names(mq'[i].x, m) => m \in produced
             /\ mq'[i].op = "sent" => mq'[i].acks \cup mq'[i].asks \subseteq produced
      BY <1>3 DEF IndInv, ProducedOK
    <2> QED
      BY <1>1, <1>4, <2>1 DEF IndInv, ProducedOK
  <1> QED
    BY <1>6, <1>7, <1>8, <1>9 DEF IndInv

(* The session is given up. *)
LEMMA ResetStep ==
    ASSUME IndInv, ResetSessionInfo
    PROVE  IndInv'
  <1>1. /\ breaks < MaxBreaks /\ breaks' = breaks + 1
        /\ session' = session + 1 /\ transport' = transport + 1
        /\ processed' = {} /\ scheduled' = {} /\ wanted' = {} /\ silent' = {}
        /\ txns' = [m \in Msg |-> {}] /\ handled' = [m \in Msg |-> 0]
        /\ resend' = [m \in Msg |-> Off] /\ ask' = [m \in Msg |-> 0] /\ born' = [m \in Msg |-> 0]
        /\ late' \subseteq late
        /\ conn' = NoConn /\ up' = <<>> /\ down' = <<>> /\ sentOn' = {}
        /\ UNCHANGED <<mq, nextConn, produced, unacked, asked, lost>>
    BY DEF ResetSessionInfo, Break, Complete, CutConnection
  <1>2. ~heard' /\ ~doomed' /\ FlagsOK'
    <2>1. heard' = FALSE /\ doomed' = FALSE /\ fresh' = FALSE /\ asking' = TRUE /\ lost' = lost
      BY DEF ResetSessionInfo, CutConnection
    <2> QED
      BY <2>1, Zenon DEF IndInv, TypeOK, FlagsOK
  <1>3. /\ \A m \in Msg : \A c \in txns'[m] : c < nextConn
        /\ \A m \in Msg : resend'[m] \notin Conn /\ ask'[m] <= asked
        /\ \A i \in 1..Len(mq') : \E j \in 1..Len(mq) : mq'[i] = mq[j]
    BY <1>1 DEF IndInv, TypeOK, Conn, Off
  <1>4. /\ session' \in 1..(MaxBreaks + 1) /\ transport' \in 1..(MaxBreaks + 1)
        /\ breaks' \in 0..MaxBreaks
        /\ CountsOK' /\ NumbersOK' /\ GoneOK'
        /\ TakenOK' /\ RemovalOK' /\ KeptOK' /\ ResendOK' /\ QuestionOK'
    BY <1>1, <1>2, <1>3, TransportReplaced
  <1>5. TypeOK'
    <2>1. 0 \in 0..MaxAsks /\ 0 \in 0..(MaxAsks + 1)
      BY IncomingAssumption
    <2> QED
      BY <1>1, <1>2, <1>4, <2>1 DEF IndInv, TypeOK
  <1>6. QueuesOK' /\ SettledOK' /\ HandledOK' /\ ProducedOK'
    BY <1>1 DEF IndInv, QueuesOK, SettledOK, HandledOK, ProducedOK
  <1> QED
    BY <1>4, <1>5, <1>6 DEF IndInv

(* A new connection: nothing was handed to it yet. *)
LEMMA ConnectStep ==
    ASSUME IndInv, Connect
    PROVE  IndInv'
  <1>1. /\ conn = NoConn /\ conn' = nextConn /\ nextConn' = nextConn + 1
        /\ UNCHANGED <<session, processed, scheduled, txns, wanted, resend, ask, born, late,
                       transport, asked, up, down, doomed, mq, produced, unacked, sentOn, heard,
                       lost, handled, silent, breaks>>
    BY DEF Connect, store, services, server
  <1>2. FlagsOK'
    <2>1. fresh' = TRUE /\ asking' = TRUE
      BY DEF Connect
    <2> QED
      BY <1>1, <2>1, Zenon DEF IndInv, TypeOK, FlagsOK
  <1>3. /\ nextConn \in Nat /\ breaks \in Nat /\ MaxBreaks \in Nat /\ nextConn >= 1
        /\ nextConn <= breaks + 1 /\ breaks <= MaxBreaks
    BY <1>1, IncomingAssumption DEF IndInv, TypeOK, CountsOK
  <1>4. conn' \in Conn /\ nextConn' \in 1..(MaxBreaks + 2)
    BY <1>1, <1>3 DEF Conn
  <1>5. /\ QueuesOK' /\ NumbersOK' /\ ProducedOK' /\ GoneOK' /\ SettledOK' /\ HandledOK'
    BY <1>1 DEF IndInv, QueuesOK, NumbersOK, ProducedOK, GoneOK, SettledOK, HandledOK
  <1>6. TypeOK'
    BY <1>1, <1>2, <1>4 DEF IndInv, TypeOK
  <1>7. \A i \in 1..Len(mq) : mq[i].c \in Conn /\ mq[i].c # NoConn
    BY BlockFacts DEF IndInv, Conn, NoConn
  <1>8. CountsOK'
    <2>1. \A i \in 1..Len(mq) : mq[i].c < nextConn'
      BY <1>1, <1>3, <1>7 DEF IndInv, CountsOK, Conn
    <2>2. \A m \in Msg : \A c \in txns[m] : c < nextConn'
      <3> SUFFICES ASSUME NEW m \in Msg, NEW c \in txns[m]
                   PROVE  c < nextConn'
        OBVIOUS
      <3>1. c \in Conn /\ c < nextConn
        BY DEF IndInv, TypeOK, CountsOK
      <3> QED
        BY <1>1, <1>3, <3>1 DEF Conn
    <2>3. conn' # NoConn /\ conn' < nextConn' /\ nextConn' <= breaks' + 2
      BY <1>1, <1>3 DEF NoConn
    <2>4. ~doomed' /\ ~heard'
      BY <1>1 DEF IndInv, CountsOK
    <2> QED
      BY <1>1, <2>1, <2>2, <2>3, <2>4 DEF IndInv, CountsOK
  <1>9. \A m \in unacked : ~Taken(m, conn, Len(mq) + 1)'
    <2> SUFFICES ASSUME NEW m \in unacked, Taken(m, conn, Len(mq) + 1)'
                 PROVE  FALSE
      OBVIOUS
    <2>1. m \in Msg
      BY DEF IndInv, TypeOK
    <2>2. nextConn \notin txns[m]
      BY <1>3, <2>1 DEF IndInv, CountsOK
    <2>3. \A i \in 1..Len(mq) : mq[i].c # nextConn
      BY <1>3 DEF IndInv, CountsOK
    <2> QED
      BY <1>1, <2>2, <2>3 DEF Taken, MarkBefore
  <1>10. TakenOK'
    BY <1>1, <1>9 DEF TakenOK
  <1>11. RemovalOK' /\ KeptOK'
    BY <1>1 DEF IndInv, RemovalOK, KeptOK, Taken, Elsewhere, InAcks, InDown
  <1>12. ASSUME NEW m, NEW c \in Conn, NEW a, NEW i, Watched(m, c, a, i)
         PROVE  Watched(m, c, a, i)'
    BY <1>1, <1>12 DEF Watched, Conn, NoConn
  <1>13. ResendOK'
    BY <1>1, <1>12 DEF IndInv, ResendOK
  <1>14. QuestionOK'
    BY <1>1, <1>7, <1>12 DEF IndInv, QuestionOK
  <1> QED
    BY <1>5, <1>6, <1>8, <1>10, <1>11, <1>13, <1>14 DEF IndInv

(* A request is dropped: nobody waits for its answer. *)
LEMMA CancelStep ==
    ASSUME IndInv, NEW n \in Msg, CancelRequest(n)
    PROVE  IndInv'
  <1>1. /\ wanted' = wanted \ {n}
        /\ UNCHANGED <<session, processed, scheduled, txns, resend, ask, born, late, transport,
                       asking, fresh, asked, conn, nextConn, up, down, doomed, mq, produced,
                       unacked, sentOn, heard, lost, handled, silent, breaks>>
    BY DEF CancelRequest, services, wires, server
  <1>2. TypeOK' /\ QueuesOK' /\ CountsOK'
    BY <1>1 DEF IndInv, TypeOK, FlagsOK, QueuesOK, CountsOK
  <1>3. NumbersOK' /\ ProducedOK' /\ GoneOK' /\ HandledOK'
    BY <1>1 DEF IndInv, NumbersOK, ProducedOK, GoneOK, HandledOK
  <1>4. SettledOK'
    BY <1>1 DEF IndInv, SettledOK
  <1>5. TakenOK' /\ RemovalOK' /\ KeptOK'
    BY <1>1 DEF IndInv, TakenOK, RemovalOK, KeptOK, Taken, Elsewhere, InAcks, InDown
  <1>6. ResendOK' /\ QuestionOK'
    BY <1>1 DEF IndInv, ResendOK, QuestionOK, Watched, InAsks, Answered, Behind
  <1> QED
    BY <1>2, <1>3, <1>4, <1>5, <1>6 DEF IndInv

-----------------------------------------------------------------------------
(* The server makes a message: nobody has spoken of it. *)
LEMMA ProduceStep ==
    ASSUME IndInv, NEW n \in Msg, Produce(n)
    PROVE  IndInv'
  <1>1. /\ n \notin produced /\ produced' = produced \cup {n} /\ unacked' = unacked \cup {n}
        /\ UNCHANGED <<session, processed, scheduled, txns, wanted, resend, ask, born, late,
                       transport, asking, fresh, asked, conn, nextConn, up, down, doomed, mq,
                       sentOn, heard, lost, handled, silent, breaks>>
    BY DEF Produce, client, store, services
  <1>2. TypeOK' /\ QueuesOK' /\ CountsOK' /\ NumbersOK' /\ SettledOK' /\ HandledOK'
    BY <1>1 DEF IndInv, TypeOK, FlagsOK, QueuesOK, CountsOK, NumbersOK, SettledOK, HandledOK
  <1>3. ProducedOK'
    BY <1>1 DEF IndInv, ProducedOK
  <1>4. GoneOK'
    <2>1. \A i \in 1..Len(down) : down[i].k = "state" => down[i].m # n
      BY <1>1 DEF IndInv, ProducedOK, Names
    <2>2. \A i \in 1..Len(mq) : mq[i].op = "data" => (mq[i].x.k = "state" => mq[i].x.m # n)
      BY <1>1 DEF IndInv, ProducedOK, Names
    <2> QED
      BY <1>1, <2>1, <2>2 DEF IndInv, GoneOK
  <1>5. \A c, i : ~Taken(n, c, i)
    BY <1>1 DEF IndInv, ProducedOK, Taken, MarkBefore
  <1>6. /\ \A m, c, i : Taken(m, c, i)' <=> Taken(m, c, i)
        /\ \A m, i : Elsewhere(m, i)' <=> Elsewhere(m, i)
        /\ \A m : InAcks(m)' <=> InAcks(m)
    BY <1>1 DEF Taken, Elsewhere, InAcks, InDown
  <1>7. TakenOK' /\ RemovalOK'
    BY <1>1, <1>5, <1>6 DEF IndInv, TakenOK, RemovalOK
  <1>8. KeptOK'
    BY <1>1, <1>6 DEF IndInv, ProducedOK, KeptOK
  <1>9. ResendOK' /\ QuestionOK'
    BY <1>1 DEF IndInv, ResendOK, QuestionOK, Watched, InAsks, Answered, Behind
  <1> QED
    BY <1>2, <1>3, <1>4, <1>7, <1>8, <1>9 DEF IndInv

(* A fault is counted: the bounds grow with it. *)
LEMMA Counted ==
    ASSUME IndInv, breaks < MaxBreaks, breaks' = breaks + 1,
           UNCHANGED <<session, transport, conn, nextConn, doomed>>
    PROVE  /\ breaks' \in 0..MaxBreaks
           /\ conn' < nextConn'
           /\ nextConn' <= breaks' + 1 \/ (conn' # NoConn /\ nextConn' <= breaks' + 2)
           /\ doomed' => conn' # NoConn /\ nextConn' <= breaks' + 1
           /\ session' <= breaks' + 1 /\ transport' <= breaks' + 1
  <1>1. /\ nextConn \in Nat /\ breaks \in Nat /\ session \in Nat /\ transport \in Nat
        /\ nextConn <= breaks + 1 \/ (conn # NoConn /\ nextConn <= breaks + 2)
        /\ session <= breaks + 1 /\ transport <= breaks + 1 /\ conn < nextConn
        /\ MaxBreaks \in Nat
    BY IncomingAssumption DEF IndInv, TypeOK, CountsOK
  <1>2. doomed => conn # NoConn /\ nextConn <= breaks + 1
    BY DEF IndInv, CountsOK
  <1>3. /\ breaks' \in 0..MaxBreaks
        /\ nextConn <= breaks' + 1 \/ (conn # NoConn /\ nextConn <= breaks' + 2)
        /\ session <= breaks' + 1 /\ transport <= breaks' + 1
        /\ nextConn <= breaks + 1 => nextConn <= breaks' + 1
    BY <1>1
  <1> QED
    BY <1>1, <1>2, <1>3

(* The server gives a message up. *)
LEMMA ForgetStep ==
    ASSUME IndInv, NEW n \in Msg, ServerForgets(n)
    PROVE  IndInv'
  <1>1. /\ unacked' = unacked \ {n} /\ breaks < MaxBreaks /\ breaks' = breaks + 1
        /\ UNCHANGED <<session, processed, scheduled, txns, wanted, resend, ask, born, late,
                       transport, asking, fresh, asked, conn, nextConn, up, down, doomed, mq,
                       produced, sentOn, heard, lost, handled, silent>>
    BY DEF ServerForgets, Break, client, store, services
  <1>2. TypeOK' /\ CountsOK'
    <2>1. /\ breaks' \in 0..MaxBreaks
          /\ conn' < nextConn'
          /\ nextConn' <= breaks' + 1 \/ (conn' # NoConn /\ nextConn' <= breaks' + 2)
          /\ doomed' => conn' # NoConn /\ nextConn' <= breaks' + 1
          /\ session' <= breaks' + 1 /\ transport' <= breaks' + 1
      BY <1>1, Counted
    <2>2. TypeOK'
      BY <1>1, <2>1 DEF IndInv, TypeOK, FlagsOK
    <2>3. CountsOK'
      BY <1>1, <2>1 DEF IndInv, CountsOK
    <2> QED
      BY <2>2, <2>3
  <1>3. QueuesOK' /\ NumbersOK' /\ ProducedOK' /\ GoneOK' /\ SettledOK' /\ HandledOK'
    BY <1>1 DEF IndInv, QueuesOK, NumbersOK, ProducedOK, GoneOK, SettledOK, HandledOK
  <1>4. TakenOK' /\ RemovalOK' /\ KeptOK'
    BY <1>1 DEF IndInv, TakenOK, RemovalOK, KeptOK, Taken, Elsewhere, InAcks, InDown
  <1>5. ResendOK' /\ QuestionOK'
    BY <1>1 DEF IndInv, ResendOK, QuestionOK, Watched, InAsks, Answered, Behind
  <1> QED
    BY <1>2, <1>3, <1>4, <1>5 DEF IndInv

(* The server starts anew: it keeps nothing, and will say so to whoever    *)
(* has a question on its way or without an answer.                         *)
LEMMA RestartStep ==
    ASSUME IndInv, ServerRestarts
    PROVE  IndInv'
  <1>1. /\ unacked' = {} /\ down' = <<>> /\ breaks < MaxBreaks /\ breaks' = breaks + 1
        /\ UNCHANGED <<session, processed, scheduled, txns, wanted, resend, ask, born, late,
                       transport, asked, conn, nextConn, up, doomed, mq, produced, sentOn, heard,
                       handled, silent>>
    BY DEF ServerRestarts, Break, client, store, services
  <1>2. lost' /\ FlagsOK'
    <2>1. lost' = TRUE /\ UNCHANGED <<asking, fresh, doomed, heard>>
      BY DEF ServerRestarts, client
    <2> QED
      BY <2>1, Zenon DEF IndInv, TypeOK, FlagsOK
  <1>3. TypeOK' /\ CountsOK'
    <2>1. /\ breaks' \in 0..MaxBreaks
          /\ conn' < nextConn'
          /\ nextConn' <= breaks' + 1 \/ (conn' # NoConn /\ nextConn' <= breaks' + 2)
          /\ doomed' => conn' # NoConn /\ nextConn' <= breaks' + 1
          /\ session' <= breaks' + 1 /\ transport' <= breaks' + 1
      BY <1>1, Counted
    <2>2. TypeOK'
      BY <1>1, <1>2, <2>1 DEF IndInv, TypeOK
    <2>3. CountsOK'
      BY <1>1, <2>1 DEF IndInv, CountsOK
    <2> QED
      BY <2>2, <2>3
  <1>4. QueuesOK' /\ NumbersOK' /\ ProducedOK' /\ GoneOK' /\ SettledOK' /\ HandledOK'
    BY <1>1 DEF IndInv, QueuesOK, NumbersOK, ProducedOK, GoneOK, SettledOK, HandledOK
  <1>5. TakenOK' /\ RemovalOK' /\ KeptOK'
    BY <1>1 DEF TakenOK, RemovalOK, KeptOK
  <1>6. ResendOK' /\ QuestionOK'
    <2>1. \A m, c, a, i : Watched(m, c, a, i) => Watched(m, c, a, i)'
      BY <1>1, <1>2 DEF Watched, InAsks, Behind
    <2> QED
      BY <1>1, <2>1 DEF IndInv, ResendOK, QuestionOK
  <1> QED
    BY <1>3, <1>4, <1>5, <1>6 DEF IndInv

(* The server sends or announces a message. *)
LEMMA SendsStep ==
    ASSUME IndInv, NEW n \in Msg, NEW kind \in {"msg", "info"}, ServerSends(n, kind)
    PROVE  IndInv'
  <1> DEFINE x == [k |-> kind, m |-> n]
  <1>1. /\ heard /\ n \in unacked /\ down' = Append(down, x) /\ sentOn' = sentOn \cup {n}
        /\ UNCHANGED <<session, processed, scheduled, txns, wanted, resend, ask, born, late,
                       transport, asking, fresh, asked, conn, nextConn, up, doomed, mq, produced,
                       unacked, heard, lost, handled, silent, breaks>>
    BY DEF ServerSends, Say, client, store, services
  <1>2. x \in Payload /\ x.k # "state" /\ \A m : Names(x, m) <=> m = n
    BY DEF Payload, Names
  <1>3. down' \in Seq(Payload) /\ Added(down', down, x)
    BY <1>1, <1>2, AppendAdds DEF IndInv, QueuesOK
  <1> HIDE DEF x
  <1>4. QueuesOK' /\ NumbersOK' /\ SettledOK' /\ HandledOK'
    BY <1>1, <1>3 DEF IndInv, QueuesOK, NumbersOK, SettledOK, HandledOK
  <1>5. TypeOK'
    BY <1>1 DEF IndInv, TypeOK, FlagsOK
  <1>6. CountsOK'
    <2>1. conn # NoConn
      BY <1>1 DEF IndInv, CountsOK
    <2> QED
      BY <1>1, <2>1 DEF IndInv, CountsOK
  <1>7. ProducedOK'
    <2>1. n \in produced
      BY <1>1 DEF IndInv, TypeOK
    <2>2. \A m \in Msg, i \in 1..Len(down') : Names(down'[i], m) => m \in produced
      BY <1>2, <1>3, <2>1 DEF IndInv, ProducedOK, Added
    <2> QED
      BY <1>1, <2>2 DEF IndInv, ProducedOK
  <1>8. GoneOK'
    BY <1>1, <1>2, <1>3 DEF IndInv, GoneOK, Added
  <1>9. /\ \A m : InDown(m) \/ m = n => InDown(m)'
        /\ \A m, a : Answered(m, a) => Answered(m, a)'
    BY <1>2, <1>3 DEF InDown, Answered, Added
  <1>10. \A m, i : Elsewhere(m, i) => Elsewhere(m, i)'
    BY <1>1, <1>9 DEF Elsewhere, InAcks
  <1>11. TakenOK' /\ RemovalOK' /\ KeptOK'
    BY <1>1, <1>10 DEF IndInv, TakenOK, RemovalOK, KeptOK, Taken, InAcks
  <1>12. ResendOK' /\ QuestionOK'
    BY <1>1, <1>9 DEF IndInv, ResendOK, QuestionOK, Watched, InAsks, Behind
  <1> QED
    BY <1>4, <1>5, <1>6, <1>7, <1>8, <1>11, <1>12 DEF IndInv

(* The server is done with the first payload: what it confirmed is settled *)
(* or rejected, its questions are answered, and those before it still are. *)
LEMMA PayloadTaken ==
    ASSUME IndInv, Dropped(up', up), 1 \in 1..Len(up),
           \A m \in Msg : \A a \in Nat : m \in up[1].asks /\ a = up[1].n => Answered(m, a)',
           \A m \in Msg : \A a \in Nat : Answered(m, a) => Answered(m, a)',
           lost => lost' \/ \A m \in Msg : \A a \in Nat : a < up[1].n => Answered(m, a)',
           unacked' \subseteq unacked, unacked' \cap up[1].acks \subseteq silent',
           silent \subseteq silent', sentOn' \subseteq sentOn \cup up[1].asks,
           \A m \in Msg : InDown(m) => InDown(m)',
           \A m \in up[1].asks \cap unacked' \cap sentOn' : InDown(m)' \/ m \in sentOn,
           UNCHANGED <<session, processed, scheduled, txns, resend, ask, late, transport, conn, mq,
                       doomed>>
    PROVE  TakenOK' /\ RemovalOK' /\ KeptOK' /\ ResendOK' /\ QuestionOK'
  <1>1. \A m \in unacked' : InAcks(m) => InAcks(m)' \/ m \in silent'
    BY DEF InAcks, Dropped
  <1>2. unacked' \subseteq Msg /\ unacked' \subseteq unacked
    BY DEF IndInv, TypeOK
  <1>3. ASSUME NEW m \in unacked', NEW i, Elsewhere(m, i)
        PROVE  Elsewhere(m, i)'
    BY <1>1, <1>2, <1>3 DEF Elsewhere
  <1>4. \A m, c, i : Taken(m, c, i)' <=> Taken(m, c, i)
    BY DEF Taken
  <1>5. TakenOK'
    BY <1>1, <1>2, <1>4 DEF IndInv, TakenOK
  <1>6. RemovalOK' /\ KeptOK'
    BY <1>2, <1>3, <1>4 DEF IndInv, RemovalOK, KeptOK
  <1>7. ASSUME NEW m \in Msg, NEW c, NEW a \in Nat, NEW i, Watched(m, c, a, i)
        PROVE  Watched(m, c, a, i)'
    <2>1. CASE c = conn /\ InAsks(m, a)
      <3>1. PICK j \in 1..Len(up) : m \in up[j].asks /\ up[j].n = a
        BY <2>1 DEF InAsks
      <3>2. CASE j = 1
        <4>1. \A l \in 1..Len(up) : 1 < l => a < up[l].n
          BY <3>1, <3>2 DEF IndInv, NumbersOK
        <4>2. Behind(a)'
          BY <4>1 DEF Behind, Dropped
        <4>3. Answered(m, a)'
          BY <3>1, <3>2
        <4> QED
          BY <2>1, <4>2, <4>3 DEF Watched
      <3>3. CASE j # 1
        <4>1. InAsks(m, a)'
          BY <3>1, <3>3 DEF InAsks, Dropped
        <4> QED
          BY <2>1, <4>1 DEF Watched
      <3> QED
        BY <3>2, <3>3
    <2>2. CASE c = conn /\ Behind(a) /\ (Answered(m, a) \/ lost)
      <3>1. a < up[1].n /\ Behind(a)'
        BY <2>2 DEF Behind, Dropped
      <3>2. Answered(m, a)' \/ lost'
        BY <2>2, <3>1
      <3> QED
        BY <2>2, <3>1, <3>2 DEF Watched
    <2>3. CASE WordAfter(mq, transport, m, c, a, i) \/ FailureAfter(mq, c, i)
      BY <2>3 DEF Watched
    <2> QED
      BY <1>7, <2>1, <2>2, <2>3 DEF Watched
  <1>8. ResendOK'
    <2> SUFFICES ASSUME NEW m \in Msg, resend[m] \in Conn, m \notin late
                 PROVE  Watched(m, resend[m], ask[m], 0)'
      BY DEF ResendOK
    <2>1. Watched(m, resend[m], ask[m], 0) /\ ask[m] \in Nat
      BY DEF IndInv, ResendOK, TypeOK
    <2> QED
      BY <1>7, <2>1
  <1>9. QuestionOK'
    <2> SUFFICES ASSUME NEW s \in 1..Len(mq), mq[s].op = "sent", mq[s].tr = transport,
                        NEW m \in mq[s].asks
                 PROVE  Watched(m, mq[s].c, mq[s].n, s)'
      BY DEF QuestionOK
    <2>1. Watched(m, mq[s].c, mq[s].n, s) /\ mq[s].n \in Nat /\ m \in Msg
      BY BlockFacts DEF IndInv, QuestionOK, Asks
    <2> QED
      BY <1>7, <2>1
  <1> QED
    BY <1>5, <1>6, <1>8, <1>9

(* The server reads a payload: what it confirms is forgotten, what it asks *)
(* for is answered.                                                        *)
LEMMA ReadsStep ==
    ASSUME IndInv, ServerReads
    PROVE  IndInv'
  <1> DEFINE p == up[1]
             left == unacked \ p.acks
             reply(m) == IF m \in left THEN [k |-> "msg", m |-> m]
                                       ELSE [k |-> "state", m |-> m, n |-> p.n]
             news == IF lost THEN <<[k |-> "new", n |-> p.n]>> ELSE <<>>
             pong == IF heard THEN <<>> ELSE <<[k |-> "pong"]>>
             asks == SetToSeq(p.asks)
             answers == [i \in DOMAIN asks |-> reply(asks[i])]
  <1>1. /\ up # <<>> /\ up' \in Seq(Upload) /\ Dropped(up', up) /\ Head(up) = p
        /\ 1 \in 1..Len(up) /\ p \in Upload
    BY TailDrops DEF ServerReads, IndInv, QueuesOK
  <1>2. /\ unacked' = left /\ down' = down \o news \o pong \o answers
        /\ sentOn' = sentOn \cup (p.asks \cap left)
        /\ UNCHANGED <<session, processed, scheduled, txns, wanted, resend, ask, born, late,
                       transport, asked, conn, nextConn, doomed, mq, produced, handled, silent,
                       breaks>>
    BY <1>1 DEF ServerReads, client, store, services
  <1>3. FlagsOK'
    <2>1. heard' = TRUE /\ lost' = FALSE /\ UNCHANGED <<asking, fresh, doomed>>
      BY DEF ServerReads, client
    <2> QED
      BY <2>1, Zenon DEF IndInv, TypeOK, FlagsOK
  <1>4. /\ p.acks \in SUBSET Msg /\ p.asks \in SUBSET Msg /\ p.asks \subseteq produced
        /\ p.n \in Asks
    BY <1>1 DEF Upload, IndInv, ProducedOK
  <1>5. /\ asks \in Seq(p.asks)
        /\ \A m \in p.asks : \E i \in 1..Len(asks) : asks[i] = m
    BY <1>4, IncomingAssumption, FS_Subset, SetToSeqLists
  <1>6. conn # NoConn
    BY <1>1 DEF IndInv, CountsOK
  <1> HIDE DEF left, asks
  <1>7. /\ answers \in Seq(Payload) /\ Len(answers) = Len(asks)
        /\ \A i \in 1..Len(asks) : answers[i] = reply(asks[i]) /\ asks[i] \in p.asks
    <2>1. DOMAIN asks = 1..Len(asks) /\ Len(asks) \in Nat /\ \A i \in 1..Len(asks) : asks[i] \in p.asks
      BY <1>5
    <2>2. \A m \in p.asks : reply(m) \in Payload
      BY <1>4 DEF Payload
    <2> HIDE DEF reply
    <2>3. answers \in [1..Len(asks) -> Payload]
      BY <2>1, <2>2
    <2> QED
      BY <2>1, <2>3
  <1>8. /\ pong \in Seq(Payload) /\ \A i \in 1..Len(pong) : pong[i].k = "pong"
    <2>1. [k |-> "pong"] \in Payload
      BY DEF Payload
    <2>2. CASE heard
      BY <2>2
    <2>3. CASE ~heard
      BY <2>1, <2>3
    <2> QED
      BY <2>2, <2>3
  <1>9. /\ news \in Seq(Payload) /\ \A i \in 1..Len(news) : news[i].k = "new"
        /\ lost => \E i \in 1..Len(news) : news[i].k = "new" /\ news[i].n = p.n
    <2>1. [k |-> "new", n |-> p.n] \in Payload
      BY <1>4 DEF Payload
    <2>2. CASE lost
      <3> DEFINE x == [k |-> "new", n |-> p.n]
      <3>1. x.k = "new" /\ x.n = p.n
        OBVIOUS
      <3> HIDE DEF x
      <3>2. news = <<x>>
        BY <2>2 DEF x
      <3>3. x \in Payload
        BY <2>1 DEF x
      <3> HIDE DEF news
      <3>4. news \in Seq(Payload) /\ Len(news) = 1 /\ news[1] = x
        BY <3>2, <3>3
      <3> QED
        BY <3>1, <3>4
    <2>3. CASE ~lost
      BY <2>3
    <2> QED
      BY <2>2, <2>3
  <1>10. /\ \A m : reply(m).k \in {"msg", "state"} /\ reply(m).m = m
         /\ \A m : reply(m).k = "state" => m \notin left /\ reply(m).n = p.n
    OBVIOUS
  <1> HIDE DEF p, reply, news, pong, answers
  <1>11. /\ down' \in Seq(Payload)
         /\ \A i \in 1..Len(down) : \E j \in 1..Len(down') : down'[j] = down[i]
         /\ lost => \E j \in 1..Len(down') : down'[j].k = "new" /\ down'[j].n = p.n
         /\ \A m \in p.asks : \E j \in 1..Len(down') : down'[j] = reply(m)
         /\ \A j \in 1..Len(down') : \/ \E i \in 1..Len(down) : down'[j] = down[i]
                                     \/ down'[j].k \in {"pong", "new"}
                                     \/ \E m \in p.asks : down'[j] = reply(m)
    <2> DEFINE h == down \o news
               d == h \o pong
    <2>0. h \in Seq(Payload) /\ Joined(h, down, news)
      BY <1>9, ConcatJoins DEF IndInv, QueuesOK
    <2> HIDE DEF h
    <2>1. d \in Seq(Payload) /\ Joined(d, h, pong)
      BY <1>8, <2>0, ConcatJoins
    <2> HIDE DEF d
    <2>2. d \o answers \in Seq(Payload) /\ Joined(d \o answers, d, answers)
      BY <1>7, <2>1, ConcatJoins
    <2>3. down' \in Seq(Payload) /\ Joined(down', d, answers)
      BY <1>2, <2>2 DEF d, h
    <2>4. ASSUME NEW l \in 1..Len(h)
          PROVE  \E j \in 1..Len(down') : down'[j] = h[l]
      <3>1. PICK j \in 1..Len(d) : d[j] = h[l]
        BY <2>1 DEF Joined
      <3>2. PICK i \in 1..Len(down') : down'[i] = d[j]
        BY <2>3 DEF Joined
      <3> QED
        BY <3>1, <3>2
    <2>5. ASSUME NEW i \in 1..Len(down)
          PROVE  \E j \in 1..Len(down') : down'[j] = down[i]
      <3>1. PICK l \in 1..Len(h) : h[l] = down[i]
        BY <2>0 DEF Joined
      <3> QED
        BY <2>4, <3>1
    <2>6. ASSUME lost
          PROVE  \E j \in 1..Len(down') : down'[j].k = "new" /\ down'[j].n = p.n
      <3>1. PICK i \in 1..Len(news) : news[i].k = "new" /\ news[i].n = p.n
        BY <1>9, <2>6
      <3>2. PICK l \in 1..Len(h) : h[l] = news[i]
        BY <2>0 DEF Joined
      <3>3. PICK j \in 1..Len(down') : down'[j] = h[l]
        BY <2>4
      <3> QED
        BY <3>1, <3>2, <3>3
    <2>7. ASSUME NEW m \in p.asks
          PROVE  \E j \in 1..Len(down') : down'[j] = reply(m)
      <3>1. PICK i \in 1..Len(asks) : asks[i] = m
        BY <1>5
      <3>2. i \in 1..Len(answers) /\ answers[i] = reply(m)
        BY <1>7, <3>1
      <3> QED
        BY <2>3, <3>2 DEF Joined
    <2>8. ASSUME NEW j \in 1..Len(down')
          PROVE  \/ \E i \in 1..Len(down) : down'[j] = down[i]
                 \/ down'[j].k \in {"pong", "new"}
                 \/ \E m \in p.asks : down'[j] = reply(m)
      <3>1. CASE \E i \in 1..Len(d) : down'[j] = d[i]
        <4>1. PICK i \in 1..Len(d) : down'[j] = d[i]
          BY <3>1
        <4>2. \/ \E l \in 1..Len(h) : d[i] = h[l]
              \/ \E l \in 1..Len(pong) : d[i] = pong[l]
          BY <2>1 DEF Joined
        <4>3. CASE \E l \in 1..Len(pong) : d[i] = pong[l]
          BY <1>8, <4>1, <4>3
        <4>4. CASE \E l \in 1..Len(h) : d[i] = h[l]
          <5>1. PICK l \in 1..Len(h) : d[i] = h[l]
            BY <4>4
          <5>2. \/ \E n \in 1..Len(down) : h[l] = down[n]
                \/ \E n \in 1..Len(news) : h[l] = news[n]
            BY <2>0, <5>1 DEF Joined
          <5>3. \A n \in 1..Len(news) : news[n].k \in {"pong", "new"}
            BY <1>9
          <5> QED
            BY <4>1, <5>1, <5>2, <5>3
        <4> QED
          BY <4>2, <4>3, <4>4
      <3>2. CASE \E i \in 1..Len(answers) : down'[j] = answers[i]
        <4>1. PICK i \in 1..Len(asks) : down'[j] = answers[i]
          BY <1>7, <3>2
        <4>2. asks[i] \in p.asks /\ down'[j] = reply(asks[i])
          BY <1>7, <4>1
        <4> QED
          BY <4>2
      <3> QED
        BY <2>3, <3>1, <3>2 DEF Joined
    <2> QED
      BY <2>3, <2>5, <2>6, <2>7, <2>8
  <1>12. QueuesOK' /\ HandledOK'
    BY <1>1, <1>2, <1>11 DEF IndInv, QueuesOK, HandledOK
  <1>13. TypeOK'
    BY <1>2, <1>3, <1>4 DEF IndInv, TypeOK, left
  <1>14. CountsOK'
    BY <1>1, <1>2, <1>6 DEF IndInv, CountsOK, Dropped
  <1>15. NumbersOK'
    <2>1. \A i \in 1..Len(up') : up'[i].asks # {} =>
             up'[i].n <= asked /\ \A j \in 1..Len(up') : i < j => up'[i].n < up'[j].n
      <3> SUFFICES ASSUME NEW i \in 1..Len(up'), up'[i].asks # {}
                   PROVE  up'[i].n <= asked /\ \A j \in 1..Len(up') : i < j => up'[i].n < up'[j].n
        OBVIOUS
      <3>1. i + 1 \in 1..Len(up) /\ up'[i] = up[i + 1]
        BY <1>1 DEF Dropped
      <3>2. /\ up[i + 1].n <= asked
            /\ \A l \in 1..Len(up) : i + 1 < l => up[i + 1].n < up[l].n
        BY <3>1 DEF IndInv, NumbersOK
      <3>3. \A j \in 1..Len(up') : i < j =>
               j + 1 \in 1..Len(up) /\ up'[j] = up[j + 1] /\ i + 1 < j + 1
        BY <1>1 DEF Dropped
      <3> QED
        BY <3>1, <3>2, <3>3
    <2> QED
      BY <1>2, <2>1 DEF IndInv, NumbersOK
  <1>16. ProducedOK'
    <2>1. \A m \in Msg, i \in 1..Len(down') : Names(down'[i], m) => m \in produced
      <3> SUFFICES ASSUME NEW m \in Msg, NEW i \in 1..Len(down'), Names(down'[i], m)
                   PROVE  m \in produced
        OBVIOUS
      <3>1. CASE \E j \in 1..Len(down) : down'[i] = down[j]
        BY <3>1 DEF IndInv, ProducedOK
      <3>2. CASE \E r \in p.asks : down'[i] = reply(r)
        BY <1>4, <1>10, <3>2 DEF Names
      <3> QED
        BY <1>11, <3>1, <3>2 DEF Names
    <2>2. \A i \in 1..Len(up') : up'[i].acks \cup up'[i].asks \subseteq produced
      BY <1>1 DEF IndInv, ProducedOK, Dropped
    <2> QED
      BY <1>2, <2>1, <2>2 DEF IndInv, ProducedOK
  <1>17. GoneOK'
    <2>1. \A i \in 1..Len(down') : down'[i].k = "state" => down'[i].m \notin left
      BY <1>10, <1>11 DEF IndInv, GoneOK, left
    <2> QED
      BY <1>2, <2>1 DEF IndInv, GoneOK, left
  <1>18. SettledOK'
    BY <1>1, <1>2 DEF IndInv, SettledOK, Dropped
  <1>19. /\ \A m \in Msg : InDown(m) => InDown(m)'
         /\ \A m \in p.asks : InDown(m)'
    <2>1. \A m \in Msg : InDown(m) => InDown(m)'
      BY <1>11 DEF InDown
    <2>2. ASSUME NEW m \in p.asks
          PROVE  InDown(m)'
      <3>1. PICK j \in 1..Len(down') : down'[j] = reply(m)
        BY <1>11
      <3>2. Names(down'[j], m)
        BY <1>10, <3>1 DEF Names
      <3> QED
        BY <3>2 DEF InDown
    <2> QED
      BY <2>1, <2>2
  <1>20. /\ \A m \in Msg : \A a \in Nat : Answered(m, a) => Answered(m, a)'
         /\ \A m \in Msg : \A a \in Nat : m \in p.asks /\ a = p.n => Answered(m, a)'
         /\ lost => \A m \in Msg : \A a \in Nat : a < p.n => Answered(m, a)'
    <2>1. \A m \in Msg : \A a \in Nat : Answered(m, a) => Answered(m, a)'
      BY <1>11 DEF Answered
    <2>2. ASSUME NEW m \in p.asks, NEW a \in Nat, a = p.n
          PROVE  Answered(m, a)'
      <3>1. PICK j \in 1..Len(down') : down'[j] = reply(m)
        BY <1>11
      <3>2. Settles(down'[j], m, a)
        BY <1>10, <2>2, <3>1 DEF Settles
      <3> QED
        BY <3>2 DEF Answered
    <2>3. ASSUME lost, NEW m \in Msg, NEW a \in Nat, a < p.n
          PROVE  Answered(m, a)'
      <3>1. PICK j \in 1..Len(down') : down'[j].k = "new" /\ down'[j].n = p.n
        BY <1>11, <2>3
      <3>2. down'[j].n > a
        BY <1>4, <2>3, <3>1 DEF Asks
      <3>3. Settles(down'[j], m, a)
        BY <3>1, <3>2 DEF Settles
      <3> QED
        BY <3>3 DEF Answered
    <2> QED
      BY <2>1, <2>2, <2>3
  <1>21. TakenOK' /\ RemovalOK' /\ KeptOK' /\ ResendOK' /\ QuestionOK'
    <2>1. /\ unacked' \subseteq unacked /\ unacked' \cap p.acks = {}
          /\ sentOn' \subseteq sentOn \cup p.asks
      BY <1>2 DEF left
    <2> QED
      BY <1>1, <1>2, <1>19, <1>20, <2>1, PayloadTaken DEF p
  <1> QED
    BY <1>12, <1>13, <1>14, <1>15, <1>16, <1>17, <1>18, <1>21 DEF IndInv

(* The server rejects a payload: its confirmations are silent from now on, *)
(* its questions have been answered.                                       *)
LEMMA RejectStep ==
    ASSUME IndInv, ServerRejects
    PROVE  IndInv'
  <1> DEFINE p == up[1]
             x == [k |-> "bad", n |-> p.n, asks |-> p.asks]
  <1>1. /\ up # <<>> /\ up' \in Seq(Upload) /\ Dropped(up', up) /\ Head(up) = p
        /\ 1 \in 1..Len(up) /\ p \in Upload
    BY TailDrops DEF ServerRejects, IndInv, QueuesOK
  <1>2. /\ breaks < MaxBreaks /\ breaks' = breaks + 1
        /\ down' = Append(down, x) /\ silent' = silent \cup p.acks
        /\ UNCHANGED <<session, processed, scheduled, txns, wanted, resend, ask, born, late,
                       transport, asked, conn, nextConn, doomed, mq, produced, unacked, sentOn,
                       lost, handled>>
    BY <1>1 DEF ServerRejects, Break, Say, client, store, services
  <1>3. FlagsOK'
    <2>1. heard' = TRUE /\ UNCHANGED <<asking, fresh, doomed, lost>>
      BY DEF ServerRejects, client
    <2> QED
      BY <2>1, Zenon DEF IndInv, TypeOK, FlagsOK
  <1>4. p.acks \in SUBSET Msg /\ p.asks \in SUBSET Msg /\ p.n \in Asks
    BY <1>1 DEF Upload
  <1>5. conn # NoConn
    BY <1>1 DEF IndInv, CountsOK
  <1>6. x \in Payload /\ x.k = "bad" /\ x.n = p.n /\ x.asks = p.asks
    BY <1>4 DEF Payload
  <1>7. down' \in Seq(Payload) /\ Added(down', down, x)
    BY <1>2, <1>6, AppendAdds DEF IndInv, QueuesOK
  <1> HIDE DEF p, x
  <1>8. QueuesOK' /\ HandledOK'
    BY <1>1, <1>2, <1>7 DEF IndInv, QueuesOK, HandledOK
  <1>9. TypeOK' /\ CountsOK'
    <2>1. /\ breaks' \in 0..MaxBreaks
          /\ conn' < nextConn'
          /\ nextConn' <= breaks' + 1 \/ (conn' # NoConn /\ nextConn' <= breaks' + 2)
          /\ doomed' => conn' # NoConn /\ nextConn' <= breaks' + 1
          /\ session' <= breaks' + 1 /\ transport' <= breaks' + 1
      BY <1>2, Counted
    <2>2. TypeOK'
      BY <1>2, <1>3, <1>4, <2>1 DEF IndInv, TypeOK
    <2>3. CountsOK'
      BY <1>1, <1>2, <1>5, <2>1 DEF IndInv, CountsOK, Dropped
    <2> QED
      BY <2>2, <2>3
  <1>10. NumbersOK'
    <2>1. \A i \in 1..Len(up') : up'[i].asks # {} =>
             up'[i].n <= asked /\ \A j \in 1..Len(up') : i < j => up'[i].n < up'[j].n
      <3> SUFFICES ASSUME NEW i \in 1..Len(up'), up'[i].asks # {}
                   PROVE  up'[i].n <= asked /\ \A j \in 1..Len(up') : i < j => up'[i].n < up'[j].n
        OBVIOUS
      <3>1. i + 1 \in 1..Len(up) /\ up'[i] = up[i + 1]
        BY <1>1 DEF Dropped
      <3>2. /\ up[i + 1].n <= asked
            /\ \A l \in 1..Len(up) : i + 1 < l => up[i + 1].n < up[l].n
        BY <3>1 DEF IndInv, NumbersOK
      <3>3. \A j \in 1..Len(up') : i < j =>
               j + 1 \in 1..Len(up) /\ up'[j] = up[j + 1] /\ i + 1 < j + 1
        BY <1>1 DEF Dropped
      <3> QED
        BY <3>1, <3>2, <3>3
    <2> QED
      BY <1>2, <2>1 DEF IndInv, NumbersOK
  <1>11. ProducedOK' /\ GoneOK' /\ SettledOK'
    <2>1. \A m \in Msg, i \in 1..Len(down') : Names(down'[i], m) => m \in produced
      BY <1>6, <1>7 DEF IndInv, ProducedOK, Names, Added
    <2>2. \A i \in 1..Len(up') : up'[i].acks \cup up'[i].asks \subseteq produced
      BY <1>1 DEF IndInv, ProducedOK, Dropped
    <2>3. ProducedOK'
      BY <1>2, <2>1, <2>2 DEF IndInv, ProducedOK
    <2>4. GoneOK'
      BY <1>2, <1>6, <1>7 DEF IndInv, GoneOK, Added
    <2>5. SettledOK'
      BY <1>1, <1>2 DEF IndInv, SettledOK, Dropped
    <2> QED
      BY <2>3, <2>4, <2>5
  <1>12. /\ \A m \in Msg : InDown(m) => InDown(m)'
         /\ \A m \in Msg : \A a \in Nat : Answered(m, a) => Answered(m, a)'
         /\ \A m \in Msg : \A a \in Nat : m \in p.asks /\ a = p.n => Answered(m, a)'
    <2>1. /\ \A m \in Msg : InDown(m) => InDown(m)'
          /\ \A m \in Msg : \A a \in Nat : Answered(m, a) => Answered(m, a)'
      BY <1>7 DEF InDown, Answered, Added
    <2>2. \A m \in Msg : \A a \in Nat : m \in p.asks /\ a = p.n => Settles(x, m, a)
      BY <1>6 DEF Settles
    <2>3. \A m \in Msg : \A a \in Nat : Settles(x, m, a) => Answered(m, a)'
      BY <1>7 DEF Answered, Added
    <2> QED
      BY <2>1, <2>2, <2>3
  <1>13. TakenOK' /\ RemovalOK' /\ KeptOK' /\ ResendOK' /\ QuestionOK'
    BY <1>1, <1>2, <1>12, PayloadTaken DEF p
  <1> QED
    BY <1>8, <1>9, <1>10, <1>11, <1>13 DEF IndInv

-----------------------------------------------------------------------------
(* The inductive invariant holds in every reachable state. *)
THEOREM Invariance == Spec => []IndInv
  <1>1. Init => IndInv
    <2> SUFFICES ASSUME Init PROVE IndInv
      OBVIOUS
    <2>1. /\ session = 1 /\ transport = 1 /\ processed = {} /\ scheduled = {} /\ wanted = Answer
          /\ txns = [m \in Msg |-> {}] /\ resend = [m \in Msg |-> Off] /\ late = {}
          /\ ask = [m \in Msg |-> 0] /\ born = [m \in Msg |-> 0] /\ asked = 0
          /\ conn = NoConn /\ nextConn = 1 /\ mq = <<>> /\ up = <<>> /\ down = <<>>
          /\ produced = {} /\ unacked = {} /\ sentOn = {}
          /\ handled = [m \in Msg |-> 0] /\ silent = {} /\ breaks = 0
          /\ MaxBreaks \in Nat /\ MaxAsks \in Nat
      BY IncomingAssumption DEF Init
    <2>2. ~heard /\ ~doomed /\ FlagsOK
      <3>1. heard = FALSE /\ doomed = FALSE /\ asking = FALSE /\ fresh = FALSE /\ lost = FALSE
        BY DEF Init
      <3> QED
        BY <3>1, Zenon DEF FlagsOK
    <2>3. TypeOK
      BY <2>1, <2>2 DEF TypeOK, Conn
    <2>4. QueuesOK
      BY <2>1 DEF QueuesOK
    <2>5. CountsOK
      BY <2>1, <2>2 DEF CountsOK, NoConn
    <2>6. NumbersOK /\ ProducedOK /\ GoneOK /\ SettledOK /\ HandledOK
      BY <2>1 DEF NumbersOK, ProducedOK, GoneOK, SettledOK, HandledOK, Conn, Off
    <2>7. TakenOK /\ RemovalOK /\ KeptOK /\ ResendOK /\ QuestionOK
      BY <2>1 DEF TakenOK, RemovalOK, KeptOK, ResendOK, QuestionOK, Conn, Off
    <2> QED
      BY <2>3, <2>4, <2>5, <2>6, <2>7 DEF IndInv
  <1>2. IndInv /\ [Next]_vars => IndInv'
    <2> SUFFICES ASSUME IndInv, [Next]_vars PROVE IndInv'
      OBVIOUS
    <2>1. CASE Manager \/ RunNoise
      BY <2>1, DataStep, SentStep, FailedStep DEF Manager
    <2>2. CASE ConnectionCloses \/ Connect \/ ResetSessionInfo
      BY <2>2, CloseStep, ConnectStep, ResetStep
    <2>3. CASE \E high \in BOOLEAN : Transaction(high)
      BY <2>3, TransactionStep
    <2>4. CASE \E reported \in BOOLEAN : ReplaceTransport(reported)
      BY <2>4, ReplaceStep
    <2>5. CASE \E m \in Msg : CancelRequest(m) \/ Produce(m) \/ ServerForgets(m)
      BY <2>5, CancelStep, ProduceStep, ForgetStep
    <2>6. CASE \E m \in Msg : \E kind \in {"msg", "info"} : ServerSends(m, kind)
      BY <2>6, SendsStep
    <2>7. CASE ServerReads \/ ServerRejects \/ ServerRestarts \/ Arrive
      BY <2>7, ReadsStep, RejectStep, RestartStep, ArriveStep
    <2>8. CASE UNCHANGED vars
      <3>1. /\ UNCHANGED <<session, processed, scheduled, txns, wanted, resend, ask, born, late,
                           transport, asked, conn, nextConn, up, down, doomed, mq, produced,
                           unacked, sentOn, heard, lost, handled, silent, breaks>>
            /\ UNCHANGED <<asking, fresh>>
        BY <2>8 DEF vars, store, services, wires, server
      <3>2. FlagsOK'
        BY <3>1 DEF IndInv, TypeOK, FlagsOK
      <3> QED
        BY <3>1, <3>2, SameStep
    <2> QED
      BY <2>1, <2>2, <2>3, <2>4, <2>5, <2>6, <2>7, <2>8 DEF Next
  <1> QED
    BY <1>1, <1>2, PTL DEF Spec

(* The shape of the state, and no processed message is asked for. *)
THEOREM TypeCorrect == Spec => []TypeOK
  <1>1. IndInv => TypeOK
    BY DEF IndInv
  <1> QED
    BY <1>1, Invariance, PTL

(* Within a session no message is given to the services twice, however     *)
(* often the server sends it (_processIncomingMessage).                    *)
THEOREM NotHandledTwice == Spec => []HandledOnce
  <1>1. IndInv => HandledOnce
    BY DEF IndInv, HandledOK, HandledOnce
  <1> QED
    BY <1>1, Invariance, PTL

(* Only what was seen in this session, or is not wanted, is confirmed to   *)
(* the server (transportReadyForTransaction).                              *)
THEOREM OnlySettledConfirmed == Spec => []ConfirmedIsSettled
  <1>1. IndInv => ConfirmedIsSettled
    <2>1. up \in Seq(Upload) => DOMAIN up = 1..Len(up)
      OBVIOUS
    <2> QED
      BY <2>1 DEF IndInv, QueuesOK, SettledOK, ConfirmedIsSettled
  <1> QED
    BY <1>1, Invariance, PTL

(* Removing confirmations when data comes in on the connection that took   *)
(* them (removeScheduledMessageConfirmationsWithTransactionIds) never      *)
(* leaves a processed message the server holds without a confirmation to   *)
(* come, but for the cases NoLostConfirmation names, which end with the    *)
(* connection.                                                             *)
THEOREM ConfirmationNotLost == Spec => []NoLostConfirmation
  <1>1. IndInv => NoLostConfirmation
    <2> SUFFICES ASSUME IndInv, NEW m \in processed \cap unacked,
                        m \notin scheduled, m \in sentOn, ~doomed, m \notin silent
                 PROVE  \/ \E i \in DOMAIN up : m \in up[i].acks
                        \/ OnItsWay(m)
      BY DEF NoLostConfirmation
    <2>1. DOMAIN up = 1..Len(up) /\ DOMAIN down = 1..Len(down) /\ DOMAIN mq = 1..Len(mq)
      BY DEF IndInv, QueuesOK
    <2>2. InAcks(m) \/ InDown(m) \/ DataFrom(mq, transport, m, 1)
      BY DEF IndInv, KeptOK, Elsewhere
    <2>3. InAcks(m) => \E i \in DOMAIN up : m \in up[i].acks
      BY <2>1 DEF InAcks
    <2>4. InDown(m) \/ DataFrom(mq, transport, m, 1) => OnItsWay(m)
      BY <2>1 DEF InDown, DataFrom, OnItsWay, Incoming
    <2> QED
      BY <2>2, <2>3, <2>4
  <1> QED
    BY <1>1, Invariance, PTL

(* A resend service that counts on its question being answered has it on   *)
(* its way, or word of it, or the server that lost it will say so, or it   *)
(* hears of the lost connection (MTResendMessageService                    *)
(* transactionsMayHaveFailed); unless its completion ran after the         *)
(* transport had been replaced.                                            *)
THEOREM QuestionWatched == Spec => []ResendIsWatched
  <1>1. IndInv => ResendIsWatched
    <2> SUFFICES ASSUME IndInv, NEW m \in Msg, resend[m] \in Conn, m \notin late
                 PROVE  \/ /\ resend[m] = conn
                           /\ \/ \E i \in DOMAIN up : m \in up[i].asks /\ up[i].n = ask[m]
                              \/ \E i \in DOMAIN down : Settles(down[i], m, ask[m])
                              \/ lost
                        \/ \E i \in DOMAIN mq : Incoming(i) /\ Settles(mq[i].x, m, ask[m])
                        \/ Contains(mq, [op |-> "failed", c |-> resend[m]])
      BY DEF ResendIsWatched
    <2>1. DOMAIN up = 1..Len(up) /\ DOMAIN down = 1..Len(down) /\ DOMAIN mq = 1..Len(mq)
      BY DEF IndInv, QueuesOK
    <2>2. Watched(m, resend[m], ask[m], 0)
      BY DEF IndInv, ResendOK
    <2>3. CASE resend[m] = conn /\ InAsks(m, ask[m])
      BY <2>1, <2>3 DEF InAsks
    <2>4. CASE resend[m] = conn /\ (Answered(m, ask[m]) \/ lost)
      BY <2>1, <2>4 DEF Answered
    <2>5. CASE WordAfter(mq, transport, m, resend[m], ask[m], 0)
      BY <2>1, <2>5 DEF WordAfter, Incoming
    <2>6. CASE FailureAfter(mq, resend[m], 0)
      <3>1. PICK j \in 1..Len(mq) : mq[j].op = "failed" /\ mq[j].c = resend[m]
        BY <2>6 DEF FailureAfter
      <3>2. mq[j] \in FailedBlock
        <4>1. mq[j] \in Blocks
          BY BlockFacts DEF IndInv
        <4> QED
          BY <3>1, <4>1 DEF Blocks, DataBlock, SentBlock
      <3>3. mq[j] = [op |-> "failed", c |-> resend[m]]
        BY <3>1, <3>2 DEF FailedBlock
      <3> QED
        BY <3>3 DEF Contains
    <2> QED
      BY <2>2, <2>3, <2>4, <2>5, <2>6 DEF Watched
  <1> QED
    BY <1>1, Invariance, PTL
=============================================================================
