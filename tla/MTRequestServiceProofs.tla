----------------------- MODULE MTRequestServiceProofs -----------------------
(***************************************************************************)
(* Proofs about MTRequestService: a request that waits for its message id  *)
(* is in a block that will answer it, ids do not outlive their session,    *)
(* and the connection a request counts on is watched.  The invariant       *)
(* follows the blocks through the three queues: what a completion will     *)
(* record was true of the current transport when the block was posted, or  *)
(* the report of the failure is behind it on the same queue.  From it, and *)
(* from a second invariant (WakeInv, in the second half), a request that   *)
(* can be sent is never forgotten: something will make the client look.    *)
(***************************************************************************)
EXTENDS MTRequestService, QueueTheorems, NaturalsInduction, WellFoundedInduction

-----------------------------------------------------------------------------
(*                               The invariant                             *)

TransportContext ==
    [conn : Nat, open : BOOLEAN, want : BOOLEAN, will : BOOLEAN, ping : BOOLEAN,
     lock : BOOLEAN, again : BOOLEAN, live : BOOLEAN, stopped : BOOLEAN]

Answers == {"ack", "res", "dropped", "new", "bad"}

FailedBlock(c) == [op |-> "failed", c |-> c]

(* The connection of the transport t, when there is one. *)
ConnOf(s, t) == IF t = NoTransport THEN NoConn ELSE s[t].conn

(* The messages of a block of the transport t: their ids were made (n is   *)
(* the next), and, when t is the current transport t0, in this session (b  *)
(* is its first) unless a late completion (l) brought them back.           *)
Messages(ms, t, t0, n, b, l) ==
    \A m \in ms :
        /\ m.id \in 1..(n - 1)
        /\ t = t0 /\ m.kind = "req" => m.id >= b \/ \E x \in l : x[1] = m.ref

(* A block of tcpTransportQueue, among T transports, with cl closed. *)
TqBlock(e, T, t0, cl, n, b, l) ==
    /\ e.t \in 1..T
    /\ e.op = "send" =>
         /\ IsQueue(e.payloads) /\ (e.batch # {} => e.payloads # <<>>)
         /\ \A j \in 1..Len(e.payloads) : Messages(e.payloads[j].msgs, e.t, t0, n, b, l)
    /\ e.op = "closed" => e.c \in cl
    /\ e.op = "stop" => e.t # t0

(* A block of tcpQueue, among N connections, cn being the current one. *)
CqBlock(e, T, N, t0, cn, cl, n, b, l) ==
    /\ e.t \in 1..T /\ e.c \in 1..N
    /\ e.op = "write" => /\ e.t = t0 => e.c = cn \/ e.c \in cl
                         /\ Messages(e.p.msgs, e.t, t0, n, b, l)

(* A block of the manager queue. *)
MqBlock(e, T, N, t0, n, b, l) ==
    /\ e.op = "ready" => e.t \in 1..T
    /\ e.op = "sent" => /\ e.t \in 1..T /\ e.ok \in BOOLEAN
                        /\ e.ok => e.c \in 1..N
                        /\ Messages(e.msgs, e.t, t0, n, b, l)
    /\ e.op = "data" => e.x.k \in Answers

(* A socket is made before it is closed. *)
StartBefore(q, c, i) == \E j \in 1..Len(q) : j < i /\ q[j].op = "start" /\ q[j].c = c

CloseOK(q, st) ==
    \A i \in 1..Len(q) : q[i].op = "close" => q[i].c \in st \/ StartBefore(q, q[i].c, i)

(* A completion names the current connection, or one whose failure is      *)
(* reported behind it.                                                     *)
FailsAfter(q, c, i) == \E j \in 1..Len(q) : j > i /\ q[j] = FailedBlock(c)

SentOK(q, t0, cn) ==
    \A i \in 1..Len(q) : q[i].op = "sent" /\ q[i].ok /\ q[i].t = t0 =>
        q[i].c = cn \/ FailsAfter(q, q[i].c, i)

(* Some block with this op will answer r. *)
Carries(q, op, r) == \E i \in 1..Len(q) : q[i].op = op /\ r \in q[i].batch

(* The parts of TypeOK. *)
ListOK ==
    /\ requests \in Seq(Request) /\ IsInjective(requests)
    /\ finished \subseteq Request \ Queued

CtxOK ==
    /\ ctx \in [Request -> Context]
    /\ \A r \in Request :
         /\ ctx[r].msg = 0 => ctx[r] = NoCtx
         /\ ctx[r].msg < nextMsg /\ ctx[r].txn <= Len(net)

ErrOK ==
    /\ err \in [Request -> [on : BOOLEAN, wait : Wait, token : BOOLEAN]]
    /\ timer \in Wait \cup {NoTimer}

DropsOK ==
    /\ IsFiniteSet(drops)
    /\ drops \subseteq [of : 1..(nextMsg - 1), id : 0..(nextMsg - 1)]

ConnsOK ==
    /\ \A t \in 1..Len(tr) : tr[t].conn \in 0..Len(net)
    /\ closed \subseteq started /\ started \subseteq 1..Len(net)

Basics ==
    /\ nextMsg \in Nat /\ born \in 1..nextMsg
    /\ tr \in Seq(TransportContext) /\ transport \in 0..Len(tr)
    /\ IsQueue(mq) /\ IsQueue(tq) /\ IsQueue(cq) /\ IsQueue(net)

TqOK == \A i \in 1..Len(tq) :
            TqBlock(tq[i], Len(tr), transport, closed, nextMsg, born, late)

CqOK == /\ CloseOK(cq, started)
        /\ \A i \in 1..Len(cq) :
            CqBlock(cq[i], Len(tr), Len(net), transport, ConnOf(tr, transport), closed,
                    nextMsg, born, late)

MqOK == /\ SentOK(mq, transport, ConnOf(tr, transport))
        /\ \A i \in 1..Len(mq) :
            MqBlock(mq[i], Len(tr), Len(net), transport, nextMsg, born, late)

TrOK ==
    /\ transport # NoTransport => tr[transport].live
    /\ \A t \in 1..Len(tr) : tr[t].conn # NoConn =>
         tr[t].conn \in started \/ StartBefore(cq, tr[t].conn, Len(cq) + 1)

Recorded ==
    \A r \in Request : ctx[r].txn # NoConn =>
        \/ <<r, ctx[r].txn>> \in late
        \/ ConnOf(tr, transport) = ctx[r].txn
        \/ FailsAfter(mq, ctx[r].txn, 0)

Waits ==
    \A r \in Request : ctx[r].waiting =>
        Carries(tq, "send", r) \/ Carries(cq, "write", r) \/ Carries(mq, "sent", r)

Ids ==
    /\ late = {} => \A d \in drops : d.of >= born
    /\ \A r \in Request : ctx[r] # NoCtx =>
         ctx[r].msg >= born \/ \E x \in late : x[1] = r

ServerOK == /\ DOMAIN srv = {"sess", "conn", "seen", "refused", "out"}
            /\ \A x \in srv.out : x.k \in Answers

(* A request that is not in the list has no context. *)
Unqueued == \A r \in Request \ Queued : ctx[r] = NoCtx

IndInv ==
    /\ ListOK /\ CtxOK /\ ErrOK /\ DropsOK /\ ConnsOK /\ Basics /\ TqOK /\ CqOK /\ MqOK /\ TrOK
    /\ Recorded /\ Waits /\ Ids /\ ServerOK /\ Unqueued

-----------------------------------------------------------------------------
(*                     What a step does to the queues                      *)

(* Nothing is unmade; a transport that is replaced does not come back. *)
Grows ==
    /\ Len(tr) <= Len(tr') /\ Len(net) <= Len(net') /\ nextMsg <= nextMsg'
    /\ late \subseteq late' /\ closed \subseteq closed' /\ started \subseteq started'
    /\ \/ transport' = transport /\ born' = born
       \/ transport' \notin 1..Len(tr)

(* A start that is taken makes the socket. *)
StartTaken(q, k, st) == k = 1 /\ q[1].op = "start" => q[1].c \in st

(* The connection c is new. *)
Starts(E, c) == \E e \in E : e.op = "start" /\ e.c = c

(* The transport t keeps its connection, loses it, or starts a new one. *)
ConnStep(s, s2, t, E) ==
    \/ s2[t].conn = s[t].conn \/ s2[t].conn = NoConn
    \/ Starts(E, s2[t].conn)

(* What is known of the completions in q. *)
SentTyped(q, T, N) ==
    \A i \in 1..Len(q) : q[i].op = "sent" => q[i].t \in 1..T /\ (q[i].ok => q[i].c \in 1..N)

(* A new completion of the transport t names the connection c. *)
SentNames(E, t, c) == \A e \in E : e.op = "sent" /\ e.ok /\ e.t = t => e.c = c

(* The current connection stays, or there was none, or its failure is      *)
(* posted to the manager queue.                                            *)
Stays(cn, dn, E) == dn = cn \/ cn = NoConn \/ FailedBlock(cn) \in E

(* Posted: some block of E with this op answers r. *)
Posted(E, op, r) == \E e \in E : e.op = op /\ r \in e.batch

(* Taken: the block that was taken from q is one of those. *)
Taken(q, k, op, r) == k = 1 /\ q[1].op = op /\ r \in q[1].batch

(* The numbers behind it. *)
LEMMA Numbers ==
    ASSUME Basics
    PROVE  /\ Len(tr) \in Nat /\ Len(net) \in Nat /\ nextMsg \in Nat /\ born \in Nat
           /\ Len(tq) \in Nat /\ Len(cq) \in Nat /\ Len(mq) \in Nat
           /\ DOMAIN tr = 1..Len(tr) /\ DOMAIN net = 1..Len(net)
           /\ DOMAIN tq = 1..Len(tq) /\ DOMAIN cq = 1..Len(cq) /\ DOMAIN mq = 1..Len(mq)
           /\ \A t \in 1..Len(tr) : tr[t] \in TransportContext
  <1>1. PICK A, B, C, D : mq \in Seq(A) /\ tq \in Seq(B) /\ cq \in Seq(C) /\ net \in Seq(D)
    BY DEF Basics, IsQueue
  <1>2. tr \in Seq(TransportContext) /\ nextMsg \in Nat /\ born \in 1..nextMsg
    BY DEF Basics
  <1> QED
    BY <1>1, <1>2, LenProperties, ElementOfSeq

(* And after the step. *)
LEMMA NumbersNext ==
    ASSUME Basics'
    PROVE  /\ Len(tr') \in Nat /\ Len(net') \in Nat /\ nextMsg' \in Nat /\ born' \in Nat
           /\ Len(tq') \in Nat /\ Len(cq') \in Nat /\ Len(mq') \in Nat
           /\ \A t \in 1..Len(tr') : tr'[t] \in TransportContext
  <1>1. PICK A, B, C, D : mq' \in Seq(A) /\ tq' \in Seq(B) /\ cq' \in Seq(C) /\ net' \in Seq(D)
    BY DEF Basics, IsQueue
  <1>2. tr' \in Seq(TransportContext) /\ nextMsg' \in Nat /\ born' \in 1..nextMsg'
    BY DEF Basics
  <1> QED
    BY <1>1, <1>2, LenProperties, ElementOfSeq

(* Messages stay known. *)
LEMMA MessagesGrow ==
    ASSUME NEW ms, NEW t, NEW T \in Nat, NEW t0, NEW n \in Nat, NEW b, NEW l,
           NEW u0, NEW n2 \in Nat, NEW b2, NEW l2,
           t \in 1..T, Messages(ms, t, t0, n, b, l), n <= n2, l \subseteq l2,
           (u0 = t0 /\ b2 = b) \/ u0 \notin 1..T
    PROVE  Messages(ms, t, u0, n2, b2, l2)
  BY DEF Messages

(* What holds of a block of tcpTransportQueue keeps holding. *)
LEMMA TqBlockGrows ==
    ASSUME NEW e, NEW T \in Nat, NEW t0, NEW cl, NEW n \in Nat, NEW b, NEW l,
           NEW U \in Nat, NEW u0, NEW cl2, NEW n2 \in Nat, NEW b2, NEW l2,
           TqBlock(e, T, t0, cl, n, b, l), T <= U, cl \subseteq cl2, n <= n2, l \subseteq l2,
           (u0 = t0 /\ b2 = b) \/ u0 \notin 1..T
    PROVE  TqBlock(e, U, u0, cl2, n2, b2, l2)
  <1>1. e.t \in 1..T /\ e.t \in 1..U
    BY DEF TqBlock
  <1>2. e.op = "closed" => e.c \in cl2
    BY DEF TqBlock
  <1>3. e.op = "stop" => e.t # u0
    BY <1>1 DEF TqBlock
  <1>4. ASSUME e.op = "send"
        PROVE  /\ IsQueue(e.payloads) /\ (e.batch # {} => e.payloads # <<>>)
               /\ \A j \in 1..Len(e.payloads) :
                    Messages(e.payloads[j].msgs, e.t, u0, n2, b2, l2)
    <2>1. /\ IsQueue(e.payloads) /\ (e.batch # {} => e.payloads # <<>>)
          /\ \A j \in 1..Len(e.payloads) : Messages(e.payloads[j].msgs, e.t, t0, n, b, l)
      BY <1>4 DEF TqBlock
    <2>2. ASSUME NEW j \in 1..Len(e.payloads)
          PROVE  Messages(e.payloads[j].msgs, e.t, u0, n2, b2, l2)
      BY <2>1, <1>1, MessagesGrow
    <2> QED
      BY <2>1, <2>2
  <1> QED
    BY <1>1, <1>2, <1>3, <1>4 DEF TqBlock

(* The blocks of tcpTransportQueue after a step. *)
LEMMA TqStep ==
    ASSUME Basics, TqOK, Basics', Grows, NEW k \in {0, 1}, NEW E, Moved(tq', tq, k, E),
           \A e \in E : TqBlock(e, Len(tr'), transport', closed', nextMsg', born', late')
    PROVE  TqOK'
  <1>1. /\ Len(tr) \in Nat /\ Len(tr') \in Nat /\ nextMsg \in Nat /\ nextMsg' \in Nat
    BY Numbers, NumbersNext
  <1> SUFFICES ASSUME NEW i \in 1..Len(tq')
               PROVE  TqBlock(tq'[i], Len(tr'), transport', closed', nextMsg', born', late')
    BY DEF TqOK
  <1>2. \/ i + k \in 1..Len(tq) /\ tq'[i] = tq[i + k]
        \/ tq'[i] \in E
    BY DEF Moved
  <1>3. CASE tq'[i] \in E
    BY <1>3
  <1>4. CASE i + k \in 1..Len(tq) /\ tq'[i] = tq[i + k]
    <2>1. TqBlock(tq[i + k], Len(tr), transport, closed, nextMsg, born, late)
      BY <1>4 DEF TqOK
    <2>2. TqBlock(tq[i + k], Len(tr'), transport', closed', nextMsg', born', late')
      BY <2>1, <1>1, TqBlockGrows DEF Grows
    <2> QED
      BY <2>2, <1>4
  <1> QED
    BY <1>2, <1>3, <1>4

(* Blocks of tcpQueue. *)
LEMMA CqBlockGrows ==
    ASSUME NEW e, NEW T \in Nat, NEW N \in Nat, NEW t0, NEW cn, NEW cl, NEW n \in Nat, NEW b, NEW l,
           NEW U \in Nat, NEW M \in Nat, NEW u0, NEW dn, NEW cl2, NEW n2 \in Nat, NEW b2, NEW l2,
           CqBlock(e, T, N, t0, cn, cl, n, b, l), T <= U, N <= M, cl \subseteq cl2, n <= n2,
           l \subseteq l2, (u0 = t0 /\ b2 = b) \/ u0 \notin 1..T,
           u0 \in 1..T => dn = cn \/ cn = NoConn \/ cn \in cl2
    PROVE  CqBlock(e, U, M, u0, dn, cl2, n2, b2, l2)
  <1>1. e.t \in 1..T /\ e.t \in 1..U /\ e.c \in 1..N /\ e.c \in 1..M
    BY DEF CqBlock
  <1>2. ASSUME e.op = "write"
        PROVE  Messages(e.p.msgs, e.t, u0, n2, b2, l2)
    <2>1. Messages(e.p.msgs, e.t, t0, n, b, l)
      BY <1>2 DEF CqBlock
    <2> QED
      BY <2>1, <1>1, MessagesGrow
  <1>3. e.op = "write" /\ e.t = u0 => e.c = dn \/ e.c \in cl2
    BY <1>1 DEF CqBlock, NoConn
  <1> QED
    BY <1>1, <1>2, <1>3 DEF CqBlock

(* A socket is made before it is closed, also when blocks are taken and    *)
(* posted: a start that is taken makes the socket.                         *)
LEMMA CloseStep ==
    ASSUME NEW q, NEW q2, NEW st, NEW st2, NEW k \in {0, 1}, NEW E, Moved(q2, q, k, E),
           CloseOK(q, st), st \subseteq st2,
           StartTaken(q, k, st2),
           \A e \in E : e.op = "close" => e.c \in st \/ StartBefore(q, e.c, Len(q) + 1)
    PROVE  CloseOK(q2, st2)
  <1>1. /\ Len(q) \in Nat /\ Len(q2) \in Nat
        /\ \A i \in 1..Len(q) : i > k => i - k \in 1..Len(q2) /\ q2[i - k] = q[i]
        /\ \A i \in 1..Len(q2) : \/ i + k \in 1..Len(q) /\ q2[i] = q[i + k]
                                 \/ i > Len(q) - k /\ q2[i] \in E
    BY DEF Moved
  <1>2. ASSUME NEW c, NEW j \in 1..Len(q), NEW i \in 1..Len(q2), j < i + k,
               q[j].op = "start", q[j].c = c
        PROVE  c \in st2 \/ StartBefore(q2, c, i)
    <2>1. CASE j > k
      <3>1. j - k \in 1..Len(q2) /\ q2[j - k] = q[j] /\ j - k < i
        BY <2>1, <1>1, <1>2
      <3> QED
        BY <3>1, <1>2 DEF StartBefore
    <2>2. CASE ~(j > k)
      <3>1. k = 1 /\ j = 1
        BY <2>2, <1>1
      <3> QED
        BY <3>1, <1>2 DEF StartTaken
    <2> QED
      BY <2>1, <2>2
  <1>3. ASSUME NEW i \in 1..Len(q2), q2[i].op = "close"
        PROVE  q2[i].c \in st2 \/ StartBefore(q2, q2[i].c, i)
    <2>1. CASE i + k \in 1..Len(q) /\ q2[i] = q[i + k]
      <3>1. q2[i].c \in st \/ StartBefore(q, q2[i].c, i + k)
        BY <2>1, <1>3 DEF CloseOK
      <3>2. CASE StartBefore(q, q2[i].c, i + k)
        <4>1. PICK j \in 1..Len(q) : j < i + k /\ q[j].op = "start" /\ q[j].c = q2[i].c
          BY <3>2 DEF StartBefore
        <4> QED
          BY <4>1, <1>2
      <3> QED
        BY <3>1, <3>2
    <2>2. CASE i > Len(q) - k /\ q2[i] \in E
      <3>1. q2[i].c \in st \/ StartBefore(q, q2[i].c, Len(q) + 1)
        BY <2>2, <1>3
      <3>2. CASE StartBefore(q, q2[i].c, Len(q) + 1)
        <4>1. PICK j \in 1..Len(q) : q[j].op = "start" /\ q[j].c = q2[i].c
          BY <3>2 DEF StartBefore
        <4>2. j < i + k
          BY <2>2, <1>1
        <4> QED
          BY <4>1, <4>2, <1>2
      <3> QED
        BY <3>1, <3>2
    <2> QED
      BY <2>1, <2>2, <1>1
  <1> QED
    BY <1>3 DEF CloseOK

(* The blocks of tcpQueue after a step. *)
LEMMA CqStep ==
    ASSUME Basics, CqOK, Basics', Grows, NEW k \in {0, 1}, NEW E, Moved(cq', cq, k, E),
           \A e \in E :
             /\ CqBlock(e, Len(tr'), Len(net'), transport', ConnOf(tr', transport'), closed',
                        nextMsg', born', late')
             /\ e.op = "close" => e.c \in started \/ StartBefore(cq, e.c, Len(cq) + 1),
           StartTaken(cq, k, started'),
           transport' \in 1..Len(tr) =>
             \/ ConnOf(tr', transport') = ConnOf(tr, transport)
             \/ ConnOf(tr, transport) = NoConn \/ ConnOf(tr, transport) \in closed'
    PROVE  CqOK'
  <1>1. /\ Len(tr) \in Nat /\ Len(tr') \in Nat /\ nextMsg \in Nat /\ nextMsg' \in Nat
        /\ Len(net) \in Nat /\ Len(net') \in Nat
    BY Numbers, NumbersNext
  <1>2. CloseOK(cq', started')
    <2>1. CloseOK(cq, started) /\ started \subseteq started'
      BY DEF CqOK, Grows
    <2>2. \A e \in E : e.op = "close" => e.c \in started \/ StartBefore(cq, e.c, Len(cq) + 1)
      OBVIOUS
    <2> QED
      BY <2>1, <2>2, CloseStep
  <1>3. ASSUME NEW i \in 1..Len(cq')
        PROVE  CqBlock(cq'[i], Len(tr'), Len(net'), transport', ConnOf(tr', transport'),
                       closed', nextMsg', born', late')
    <2>1. \/ i + k \in 1..Len(cq) /\ cq'[i] = cq[i + k]
          \/ cq'[i] \in E
      BY DEF Moved
    <2>2. CASE cq'[i] \in E
      BY <2>2
    <2>3. CASE i + k \in 1..Len(cq) /\ cq'[i] = cq[i + k]
      <3>1. CqBlock(cq[i + k], Len(tr), Len(net), transport, ConnOf(tr, transport), closed,
                    nextMsg, born, late)
        BY <2>3 DEF CqOK
      <3>2. /\ Len(tr) <= Len(tr') /\ Len(net) <= Len(net') /\ nextMsg <= nextMsg'
            /\ late \subseteq late' /\ closed \subseteq closed'
            /\ (transport' = transport /\ born' = born) \/ transport' \notin 1..Len(tr)
        BY DEF Grows
      <3>3. CqBlock(cq[i + k], Len(tr'), Len(net'), transport', ConnOf(tr', transport'),
                    closed', nextMsg', born', late')
        BY <3>1, <3>2, <1>1, CqBlockGrows
      <3> QED
        BY <3>3, <2>3
    <2> QED
      BY <2>1, <2>2, <2>3
  <1> QED
    BY <1>2, <1>3 DEF CqOK

(* Blocks of the manager queue. *)
LEMMA MqBlockGrows ==
    ASSUME NEW e, NEW T \in Nat, NEW N \in Nat, NEW t0, NEW n \in Nat, NEW b, NEW l,
           NEW U \in Nat, NEW M \in Nat, NEW u0, NEW n2 \in Nat, NEW b2, NEW l2,
           MqBlock(e, T, N, t0, n, b, l), T <= U, N <= M, n <= n2, l \subseteq l2,
           (u0 = t0 /\ b2 = b) \/ u0 \notin 1..T
    PROVE  MqBlock(e, U, M, u0, n2, b2, l2)
  <1>1. e.op \in {"ready", "sent"} => e.t \in 1..T /\ e.t \in 1..U
    BY DEF MqBlock
  <1>2. ASSUME e.op = "sent"
        PROVE  Messages(e.msgs, e.t, u0, n2, b2, l2)
    <2>1. Messages(e.msgs, e.t, t0, n, b, l)
      BY <1>2 DEF MqBlock
    <2> QED
      BY <2>1, <1>1, <1>2, MessagesGrow
  <1>3. e.op = "sent" => e.ok \in BOOLEAN /\ (e.ok => e.c \in 1..M)
    BY DEF MqBlock
  <1>4. e.op = "data" => e.x.k \in Answers
    BY DEF MqBlock
  <1> QED
    BY <1>1, <1>2, <1>3, <1>4 DEF MqBlock

(* Reports keep their place behind the completions before them. *)
LEMMA FailsStep ==
    ASSUME NEW q, NEW q2, NEW k \in {0, 1}, NEW E, Moved(q2, q, k, E)
    PROVE  /\ \A c : FailedBlock(c) \in E => \A i \in 1..Len(q2) : i <= Len(q) - k => FailsAfter(q2, c, i)
           /\ \A c : FailedBlock(c) \in E => FailsAfter(q2, c, 0)
           /\ \A c : \A i \in 1..Len(q2) : FailsAfter(q, c, i + k) => FailsAfter(q2, c, i)
           /\ \A c : FailsAfter(q, c, k) => FailsAfter(q2, c, 0)
  <1>1. /\ Len(q) \in Nat /\ Len(q2) \in Nat /\ Len(q) - k <= Len(q2)
        /\ \A i \in 1..Len(q) : i > k => i - k \in 1..Len(q2) /\ q2[i - k] = q[i]
        /\ \A e \in E : \E i \in 1..Len(q2) : i > Len(q) - k /\ q2[i] = e
    BY DEF Moved
  <1>2. ASSUME NEW c, FailedBlock(c) \in E
        PROVE  /\ \A i \in 1..Len(q2) : i <= Len(q) - k => FailsAfter(q2, c, i)
               /\ FailsAfter(q2, c, 0)
    <2>1. PICK j \in 1..Len(q2) : j > Len(q) - k /\ q2[j] = FailedBlock(c)
      BY <1>1, <1>2
    <2> QED
      BY <2>1, <1>1 DEF FailsAfter
  <1>3. ASSUME NEW c, NEW i \in {0} \cup 1..Len(q2), FailsAfter(q, c, i + k)
        PROVE  FailsAfter(q2, c, i)
    <2>1. PICK j \in 1..Len(q) : j > i + k /\ q[j] = FailedBlock(c)
      BY <1>3 DEF FailsAfter
    <2>2. j - k \in 1..Len(q2) /\ q2[j - k] = FailedBlock(c) /\ j - k > i
      BY <2>1, <1>1
    <2> QED
      BY <2>2 DEF FailsAfter
  <1>4. ASSUME NEW c, FailsAfter(q, c, k)
        PROVE  FailsAfter(q2, c, 0)
    <2>1. 0 + k = k /\ 0 \in {0} \cup 1..Len(q2)
      OBVIOUS
    <2>2. FailsAfter(q, c, 0 + k)
      BY <2>1, <1>4
    <2> QED
      BY <2>1, <2>2, <1>3
  <1> QED
    BY <1>2, <1>3, <1>4

LEMMA SentStep ==
    ASSUME NEW q, NEW q2, NEW k \in {0, 1}, NEW E, Moved(q2, q, k, E),
           NEW T \in Nat, NEW N \in Nat, NEW t0, NEW u0, NEW cn, NEW dn, SentOK(q, t0, cn),
           SentTyped(q, T, N), u0 \in 1..T => u0 = t0 /\ Stays(cn, dn, E),
           SentNames(E, u0, dn)
    PROVE  SentOK(q2, u0, dn)
  <1>1. /\ Len(q) \in Nat /\ Len(q2) \in Nat
        /\ \A i \in 1..Len(q2) : \/ i + k \in 1..Len(q) /\ q2[i] = q[i + k]
                                 \/ i > Len(q) - k /\ q2[i] \in E
    BY DEF Moved
  <1> SUFFICES ASSUME NEW i \in 1..Len(q2), q2[i].op = "sent", q2[i].ok, q2[i].t = u0
               PROVE  q2[i].c = dn \/ FailsAfter(q2, q2[i].c, i)
    BY DEF SentOK
  <1>2. CASE q2[i] \in E
    BY <1>2 DEF SentNames
  <1>3. CASE i + k \in 1..Len(q) /\ q2[i] = q[i + k]
    <2>1. u0 \in 1..T /\ u0 = t0 /\ q2[i].c \in 1..N /\ i <= Len(q) - k
      BY <1>3, <1>1 DEF SentTyped
    <2>2. q2[i].c = cn \/ FailsAfter(q, q2[i].c, i + k)
      BY <1>3, <2>1 DEF SentOK
    <2>3. CASE FailsAfter(q, q2[i].c, i + k)
      BY <2>3, FailsStep
    <2>4. CASE q2[i].c = cn
      <3>1. dn = cn \/ FailedBlock(cn) \in E
        BY <2>1, <2>4 DEF NoConn, Stays
      <3>2. CASE FailedBlock(cn) \in E
        <4>1. FailsAfter(q2, cn, i)
          BY <3>2, <2>1, FailsStep
        <4> QED
          BY <4>1, <2>4
      <3> QED
        BY <3>1, <3>2, <2>4
    <2> QED
      BY <2>2, <2>3, <2>4
  <1> QED
    BY <1>1, <1>2, <1>3

(* The blocks of the manager queue after a step. *)
LEMMA MqStep ==
    ASSUME Basics, MqOK, Basics', Grows, NEW k \in {0, 1}, NEW E, Moved(mq', mq, k, E),
           \A e \in E : MqBlock(e, Len(tr'), Len(net'), transport', nextMsg', born', late'),
           SentNames(E, transport', ConnOf(tr', transport')),
           transport' \in 1..Len(tr) => Stays(ConnOf(tr, transport), ConnOf(tr', transport'), E)
    PROVE  MqOK'
  <1>1. /\ Len(tr) \in Nat /\ Len(tr') \in Nat /\ nextMsg \in Nat /\ nextMsg' \in Nat
        /\ Len(net) \in Nat /\ Len(net') \in Nat
    BY Numbers, NumbersNext
  <1>2. SentOK(mq', transport', ConnOf(tr', transport'))
    <2>1. SentOK(mq, transport, ConnOf(tr, transport))
      BY DEF MqOK
    <2>2. SentTyped(mq, Len(tr), Len(net))
      BY DEF MqOK, MqBlock, SentTyped
    <2>3. transport' \in 1..Len(tr) =>
            transport' = transport /\ Stays(ConnOf(tr, transport), ConnOf(tr', transport'), E)
      BY DEF Grows
    <2> QED
      BY <2>1, <2>2, <2>3, <1>1, SentStep
  <1>3. ASSUME NEW i \in 1..Len(mq')
        PROVE  MqBlock(mq'[i], Len(tr'), Len(net'), transport', nextMsg', born', late')
    <2>1. \/ i + k \in 1..Len(mq) /\ mq'[i] = mq[i + k]
          \/ mq'[i] \in E
      BY DEF Moved
    <2>2. CASE mq'[i] \in E
      BY <2>2
    <2>3. CASE i + k \in 1..Len(mq) /\ mq'[i] = mq[i + k]
      <3>1. MqBlock(mq[i + k], Len(tr), Len(net), transport, nextMsg, born, late)
        BY <2>3 DEF MqOK
      <3>2. /\ Len(tr) <= Len(tr') /\ Len(net) <= Len(net') /\ nextMsg <= nextMsg'
            /\ late \subseteq late'
            /\ (transport' = transport /\ born' = born) \/ transport' \notin 1..Len(tr)
        BY DEF Grows
      <3>3. MqBlock(mq[i + k], Len(tr'), Len(net'), transport', nextMsg', born', late')
        BY <3>1, <3>2, <1>1, MqBlockGrows
      <3> QED
        BY <3>3, <2>3
    <2> QED
      BY <2>1, <2>2, <2>3
  <1> QED
    BY <1>2, <1>3 DEF MqOK

(* What the contexts record after a step: something new, or what they did  *)
(* before, with the current connection kept and its report not yet taken.  *)
LEMMA RecordedStep ==
    ASSUME Recorded, Grows, NEW k \in {0, 1}, NEW E, Moved(mq', mq, k, E),
           Len(mq) \in Nat,
           \A r \in Request : ctx'[r].txn # NoConn =>
             \/ <<r, ctx'[r].txn>> \in late'
             \/ ConnOf(tr', transport') = ctx'[r].txn
             \/ FailsAfter(mq, ctx'[r].txn, k)
             \/ /\ ctx'[r].txn = ctx[r].txn
                /\ Stays(ConnOf(tr, transport), ConnOf(tr', transport'), E)
                /\ k = 1 => mq[1] # FailedBlock(ctx[r].txn)
    PROVE  Recorded'
  <1> SUFFICES ASSUME NEW r \in Request, ctx'[r].txn # NoConn
               PROVE  \/ <<r, ctx'[r].txn>> \in late'
                      \/ ConnOf(tr', transport') = ctx'[r].txn
                      \/ FailsAfter(mq', ctx'[r].txn, 0)
    BY DEF Recorded
  <1>1. PICK c, d, cn, dn, m2, l2 :
           c = ctx'[r].txn /\ d = ctx[r].txn /\ m2 = mq' /\ l2 = late'
           /\ cn = ConnOf(tr, transport) /\ dn = ConnOf(tr', transport')
    OBVIOUS
  <1>2. /\ c # NoConn /\ Moved(m2, mq, k, E) /\ late \subseteq l2
        /\ \/ <<r, c>> \in l2 \/ dn = c \/ FailsAfter(mq, c, k)
           \/ /\ c = d
              /\ dn = cn \/ cn = NoConn \/ FailedBlock(cn) \in E
              /\ k = 1 => mq[1] # FailedBlock(d)
        /\ d # NoConn => <<r, d>> \in late \/ cn = d \/ FailsAfter(mq, d, 0)
    BY <1>1 DEF Recorded, Grows, Stays
  <1>3. <<r, c>> \in l2 \/ dn = c \/ FailsAfter(m2, c, 0)
    <2> HIDE <1>1
    <2>1. CASE FailsAfter(mq, c, k)
      BY <1>2, <2>1, FailsStep
    <2>2. CASE /\ c = d
               /\ dn = cn \/ cn = NoConn \/ FailedBlock(cn) \in E
               /\ k = 1 => mq[1] # FailedBlock(d)
      <3>1. CASE FailsAfter(mq, c, 0)
        <4>1. PICK j \in 1..Len(mq) : mq[j] = FailedBlock(c)
          BY <3>1 DEF FailsAfter
        <4>2. j > k
          BY <4>1, <2>2
        <4>3. FailsAfter(mq, c, k)
          BY <4>1, <4>2 DEF FailsAfter
        <4> QED
          BY <4>3, <2>1
      <3>2. CASE cn = c /\ FailedBlock(cn) \in E
        BY <1>2, <3>2, FailsStep
      <3> QED
        BY <1>2, <2>2, <3>1, <3>2
    <2> QED
      BY <1>2, <2>1, <2>2
  <1> QED
    BY <1>1, <1>3

(* A request stays in the blocks of a queue unless the block is taken. *)
LEMMA CarriesStep ==
    ASSUME NEW q, NEW q2, NEW k \in {0, 1}, NEW E, Moved(q2, q, k, E), NEW op, NEW r
    PROVE  /\ Carries(q, op, r) =>
                Carries(q2, op, r) \/ Taken(q, k, op, r)
           /\ Posted(E, op, r) => Carries(q2, op, r)
  <1>1. /\ Len(q) \in Nat /\ Len(q2) \in Nat
        /\ \A i \in 1..Len(q) : i > k => i - k \in 1..Len(q2) /\ q2[i - k] = q[i]
        /\ \A e \in E : \E i \in 1..Len(q2) : i > Len(q) - k /\ q2[i] = e
    BY DEF Moved
  <1>2. ASSUME Carries(q, op, r)
        PROVE  Carries(q2, op, r) \/ Taken(q, k, op, r)
    <2>1. PICK i \in 1..Len(q) : q[i].op = op /\ r \in q[i].batch
      BY <1>2 DEF Carries
    <2>2. CASE i > k
      <3>1. i - k \in 1..Len(q2) /\ q2[i - k] = q[i]
        BY <2>2, <1>1
      <3> QED
        BY <3>1, <2>1 DEF Carries
    <2>3. CASE ~(i > k)
      <3>1. i = 1 /\ k = 1
        BY <2>3, <1>1
      <3> QED
        BY <3>1, <2>1 DEF Taken
    <2> QED
      BY <2>2, <2>3
  <1>3. ASSUME Posted(E, op, r)
        PROVE  Carries(q2, op, r)
    <2>1. PICK e \in E : e.op = op /\ r \in e.batch
      BY <1>3 DEF Posted
    <2>2. PICK i \in 1..Len(q2) : q2[i] = e
      BY <1>1
    <2> QED
      BY <2>1, <2>2 DEF Carries
  <1> QED
    BY <1>2, <1>3

(* Every request that waits is answered after a step, too: by a block that *)
(* is posted, or by the one that answered it before and was not taken.     *)
LEMMA WaitsStep ==
    ASSUME Waits, NEW kt \in {0, 1}, NEW Et, Moved(tq', tq, kt, Et),
           NEW kc \in {0, 1}, NEW Ec, Moved(cq', cq, kc, Ec),
           NEW km \in {0, 1}, NEW Em, Moved(mq', mq, km, Em),
           \A r \in Request : ctx'[r].waiting =>
             \/ Posted(Et, "send", r) \/ Posted(Ec, "write", r) \/ Posted(Em, "sent", r)
             \/ /\ ctx[r].waiting /\ ~Taken(tq, kt, "send", r)
                /\ ~Taken(cq, kc, "write", r) /\ ~Taken(mq, km, "sent", r)
    PROVE  Waits'
  <1> SUFFICES ASSUME NEW r \in Request, ctx'[r].waiting
               PROVE  Carries(tq', "send", r) \/ Carries(cq', "write", r) \/ Carries(mq', "sent", r)
    BY DEF Waits
  <1>1. /\ Carries(tq, "send", r) => Carries(tq', "send", r) \/ Taken(tq, kt, "send", r)
        /\ Posted(Et, "send", r) => Carries(tq', "send", r)
    BY CarriesStep
  <1>2. /\ Carries(cq, "write", r) => Carries(cq', "write", r) \/ Taken(cq, kc, "write", r)
        /\ Posted(Ec, "write", r) => Carries(cq', "write", r)
    BY CarriesStep
  <1>3. /\ Carries(mq, "sent", r) => Carries(mq', "sent", r) \/ Taken(mq, km, "sent", r)
        /\ Posted(Em, "sent", r) => Carries(mq', "sent", r)
    BY CarriesStep
  <1>4. ctx[r].waiting => Carries(tq, "send", r) \/ Carries(cq, "write", r) \/ Carries(mq, "sent", r)
    BY DEF Waits
  <1> QED
    BY <1>1, <1>2, <1>3, <1>4

(* A connection's socket is made, or will be. *)
LEMMA StartStep ==
    ASSUME NEW q, NEW q2, NEW k \in {0, 1}, NEW E, Moved(q2, q, k, E), NEW st2, NEW c,
           StartTaken(q, k, st2)
    PROVE  /\ StartBefore(q, c, Len(q) + 1) => c \in st2 \/ StartBefore(q2, c, Len(q2) + 1)
           /\ Starts(E, c) => StartBefore(q2, c, Len(q2) + 1)
  <1>1. /\ Len(q) \in Nat /\ Len(q2) \in Nat
        /\ \A i \in 1..Len(q) : i > k => i - k \in 1..Len(q2) /\ q2[i - k] = q[i]
        /\ \A e \in E : \E i \in 1..Len(q2) : i > Len(q) - k /\ q2[i] = e
    BY DEF Moved
  <1>2. ASSUME StartBefore(q, c, Len(q) + 1)
        PROVE  c \in st2 \/ StartBefore(q2, c, Len(q2) + 1)
    <2>1. PICK i \in 1..Len(q) : q[i].op = "start" /\ q[i].c = c
      BY <1>2 DEF StartBefore
    <2>2. CASE i > k
      <3>1. i - k \in 1..Len(q2) /\ q2[i - k] = q[i] /\ i - k < Len(q2) + 1
        BY <2>2, <1>1
      <3> QED
        BY <3>1, <2>1 DEF StartBefore
    <2>3. CASE ~(i > k)
      <3>1. i = 1 /\ k = 1
        BY <2>3, <1>1
      <3> QED
        BY <3>1, <2>1 DEF StartTaken
    <2> QED
      BY <2>2, <2>3
  <1>3. ASSUME Starts(E, c)
        PROVE  StartBefore(q2, c, Len(q2) + 1)
    <2>0. PICK e \in E : e.op = "start" /\ e.c = c
      BY <1>3 DEF Starts
    <2>1. PICK i \in 1..Len(q2) : q2[i] = e
      BY <1>1
    <2>2. i < Len(q2) + 1
      BY <1>1
    <2> QED
      BY <2>0, <2>1, <2>2 DEF StartBefore
  <1> QED
    BY <1>2, <1>3

LEMMA TrStep ==
    ASSUME TrOK, Len(tr) \in Nat, Len(tr') \in Nat, started \subseteq started',
           NEW k \in {0, 1}, NEW E, Moved(cq', cq, k, E),
           StartTaken(cq, k, started'),
           transport' # NoTransport => tr'[transport'].live,
           \A t \in 1..Len(tr') :
             tr'[t].conn = NoConn \/ (t \in 1..Len(tr) /\ ConnStep(tr, tr', t, E))
    PROVE  TrOK'
  <1> SUFFICES ASSUME NEW t \in 1..Len(tr'), tr'[t].conn # NoConn
               PROVE  tr'[t].conn \in started' \/ StartBefore(cq', tr'[t].conn, Len(cq') + 1)
    BY DEF TrOK
  <1>1. PICK c, d, c2, st2 : c = tr'[t].conn /\ d = tr[t].conn /\ c2 = cq' /\ st2 = started'
    OBVIOUS
  <1>2. /\ c # NoConn /\ t \in 1..Len(tr) /\ started \subseteq st2
        /\ d = c \/ Starts(E, c)
        /\ d # NoConn => d \in started \/ StartBefore(cq, d, Len(cq) + 1)
        /\ Moved(c2, cq, k, E) /\ StartTaken(cq, k, st2)
    BY <1>1 DEF ConnStep, TrOK
  <1>3. c \in st2 \/ StartBefore(c2, c, Len(c2) + 1)
    <2> HIDE <1>1
    <2>1. /\ StartBefore(cq, c, Len(cq) + 1) => c \in st2 \/ StartBefore(c2, c, Len(c2) + 1)
          /\ Starts(E, c) => StartBefore(c2, c, Len(c2) + 1)
      BY <1>2, StartStep
    <2> QED
      BY <1>2, <2>1
  <1> QED
    BY <1>1, <1>3

(* A step of the transport, the connection or the network, which posts the *)
(* blocks in C and M to tcpQueue and the manager queue.                    *)
NetGrows ==
    /\ IsQueue(net') /\ Len(net) <= Len(net') /\ ServerOK'
    /\ closed \subseteq closed' /\ started \subseteq started'
    /\ closed' \subseteq started' /\ started' \subseteq 1..Len(net')

TrMoves(C) ==
    /\ tr' \in Seq(TransportContext) /\ Len(tr') = Len(tr)
    /\ \A u \in 1..Len(tr) : /\ tr'[u].live = tr[u].live /\ tr'[u].conn \in 0..Len(net')
                             /\ ConnStep(tr, tr', u, C)

CurrentKept(M) ==
    \/ ConnOf(tr', transport) = ConnOf(tr, transport)
    \/ ConnOf(tr, transport) = NoConn
    \/ /\ ConnOf(tr, transport) \in closed'
       /\ FailedBlock(ConnOf(tr, transport)) \in M

CqPosts(C) ==
    \A e \in C :
        /\ CqBlock(e, Len(tr), Len(net'), transport, ConnOf(tr', transport), closed',
                   nextMsg, born, late)
        /\ e.op = "close" => e.c \in started \/ StartBefore(cq, e.c, Len(cq) + 1)

MqPosts(M) ==
    /\ \A e \in M : MqBlock(e, Len(tr), Len(net'), transport, nextMsg, born, late)
    /\ SentNames(M, transport, ConnOf(tr', transport))

(* A send that is taken is handed on. *)
HandedOn(kt, kc, C, M) ==
    \A r \in Request :
        /\ Taken(tq, kt, "send", r) => Posted(C, "write", r) \/ Posted(M, "sent", r)
        /\ Taken(cq, kc, "write", r) => Posted(M, "sent", r)

LEMMA TcpStep ==
    ASSUME IndInv, UNCHANGED <<service, sessInfo, transport, late>>,
           NEW kt \in {0, 1}, NEW Et, Moved(tq', tq, kt, Et),
           NEW kc \in {0, 1}, NEW Ec, Moved(cq', cq, kc, Ec),
           NEW Em, Moved(mq', mq, 0, Em),
           NetGrows, TrMoves(Ec), CurrentKept(Em), CqPosts(Ec), MqPosts(Em),
           HandedOn(kt, kc, Ec, Em), StartTaken(cq, kc, started'),
           \A e \in Et : TqBlock(e, Len(tr), transport, closed', nextMsg, born, late)
    PROVE  IndInv'
  <1>0. /\ tr' \in Seq(TransportContext) /\ Len(tr') = Len(tr) /\ IsQueue(net')
        /\ Len(net) <= Len(net') /\ closed \subseteq closed' /\ started \subseteq started'
        /\ closed' \subseteq started' /\ started' \subseteq 1..Len(net') /\ ServerOK'
        /\ \A t \in 1..Len(tr) : /\ tr'[t].live = tr[t].live /\ tr'[t].conn \in 0..Len(net')
                                 /\ ConnStep(tr, tr', t, Ec)
    BY DEF NetGrows, TrMoves
  <1>1. /\ requests' = requests /\ finished' = finished /\ ctx' = ctx /\ err' = err
        /\ timer' = timer /\ drops' = drops /\ born' = born /\ nextMsg' = nextMsg
        /\ transport' = transport /\ late' = late
    BY DEF service, sessInfo
  <1>2. /\ ListOK /\ CtxOK /\ ErrOK /\ DropsOK /\ ConnsOK /\ Basics /\ TqOK /\ CqOK
        /\ MqOK /\ TrOK /\ Recorded /\ Waits /\ Ids /\ Unqueued
    BY DEF IndInv
  <1>3. /\ Len(tr) \in Nat /\ Len(net) \in Nat /\ Len(net') \in Nat /\ Len(mq) \in Nat
    <2>1. Len(net') \in Nat
      BY <1>0, LenProperties DEF IsQueue
    <2> QED
      BY <2>1, <1>2, Numbers
  <1>4. Basics'
    BY <1>0, <1>1, <1>2 DEF Basics, Moved
  <1>5. Grows
    BY <1>0, <1>1, <1>2, <1>3 DEF Grows, Basics
  <1>6. ListOK' /\ ErrOK' /\ DropsOK' /\ Ids' /\ Unqueued'
    BY <1>1, <1>2 DEF ListOK, ErrOK, DropsOK, Ids, Unqueued, Queued
  <1>7. CtxOK'
    <2>1. ctx \in [Request -> Context]
      BY <1>2 DEF CtxOK
    <2>2. ASSUME NEW r \in Request
          PROVE  /\ ctx[r].msg = 0 => ctx[r] = NoCtx
                 /\ ctx[r].msg < nextMsg /\ ctx[r].txn <= Len(net')
      <3>1. ctx[r].txn \in Nat /\ ctx[r].txn <= Len(net)
        BY <1>2 DEF CtxOK, Context
      <3> QED
        BY <3>1, <1>0, <1>2, <1>3 DEF CtxOK
    <2> QED
      BY <2>1, <2>2, <1>1 DEF CtxOK
  <1>8. ConnsOK'
    BY <1>0, <1>1 DEF ConnsOK
  <1>9. TqOK'
    <2>1. \A e \in Et : TqBlock(e, Len(tr'), transport', closed', nextMsg', born', late')
      BY <1>0, <1>1
    <2> QED
      BY <1>2, <1>4, <1>5, <2>1, TqStep
  <1>10. CqOK'
    <2>1. \/ ConnOf(tr', transport') = ConnOf(tr, transport)
          \/ ConnOf(tr, transport) = NoConn \/ ConnOf(tr, transport) \in closed'
      BY <1>1 DEF CurrentKept
    <2>2. \A e \in Ec :
            /\ CqBlock(e, Len(tr'), Len(net'), transport', ConnOf(tr', transport'), closed',
                       nextMsg', born', late')
            /\ e.op = "close" => e.c \in started \/ StartBefore(cq, e.c, Len(cq) + 1)
      BY <1>0, <1>1 DEF CqPosts
    <2> QED
      BY <1>2, <1>4, <1>5, <2>1, <2>2, CqStep
  <1>11. Stays(ConnOf(tr, transport), ConnOf(tr', transport'), Em)
    BY <1>1 DEF Stays, CurrentKept
  <1>12. MqOK'
    <2>1. /\ \A e \in Em : MqBlock(e, Len(tr'), Len(net'), transport', nextMsg', born', late')
          /\ SentNames(Em, transport', ConnOf(tr', transport'))
      BY <1>0, <1>1 DEF MqPosts
    <2> QED
      BY <1>2, <1>4, <1>5, <1>11, <2>1, MqStep
  <1>13. TrOK'
    <2>1. transport # NoTransport => tr'[transport].live
      BY <1>0, <1>2 DEF TrOK, Basics, NoTransport
    <2> QED
      BY <1>0, <1>1, <1>2, <1>3, <2>1, TrStep
  <1>14. Recorded'
    BY <1>1, <1>2, <1>3, <1>5, <1>11, RecordedStep
  <1>15. Waits'
    <2>1. ASSUME NEW r \in Request, ctx'[r].waiting
          PROVE  \/ Posted(Ec, "write", r) \/ Posted(Em, "sent", r)
                 \/ /\ ctx[r].waiting /\ ~Taken(tq, kt, "send", r)
                    /\ ~Taken(cq, kc, "write", r) /\ ~Taken(mq, 0, "sent", r)
      BY <1>1, <2>1 DEF Taken, HandedOn
    <2> QED
      BY <1>2, <2>1, WaitsStep
  <1> QED
    BY <1>0, <1>4, <1>6, <1>7, <1>8, <1>9, <1>10, <1>12, <1>13, <1>14, <1>15 DEF IndInv

-----------------------------------------------------------------------------
(*                    The transport and the connection                     *)

(* The first block of each queue. *)
LEMMA HeadTq ==
    ASSUME IndInv, tq # <<>>
    PROVE  /\ Head(tq) = tq[1] /\ Moved(Tail(tq), tq, 1, {})
           /\ TqBlock(Head(tq), Len(tr), transport, closed, nextMsg, born, late)
           /\ Head(tq).t \in 1..Len(tr)
           /\ tr[Head(tq).t] \in TransportContext /\ tr[Head(tq).t].conn \in 0..Len(net)
  <1>1. /\ Head(tq) = tq[1] /\ Moved(Tail(tq), tq, 1, {}) /\ 1 \in 1..Len(tq)
    BY MovedTail DEF IndInv, Basics
  <1>2. TqBlock(tq[1], Len(tr), transport, closed, nextMsg, born, late)
    BY <1>1 DEF IndInv, TqOK
  <1>3. tq[1].t \in 1..Len(tr)
    BY <1>2 DEF TqBlock
  <1>4. tr[tq[1].t] \in TransportContext
    BY <1>3, Numbers DEF IndInv
  <1>5. tr[tq[1].t].conn \in 0..Len(net)
    BY <1>3 DEF IndInv, ConnsOK
  <1> QED
    BY <1>1, <1>2, <1>3, <1>4, <1>5

LEMMA HeadCq ==
    ASSUME IndInv, cq # <<>>
    PROVE  /\ Head(cq) = cq[1] /\ Moved(Tail(cq), cq, 1, {})
           /\ CqBlock(Head(cq), Len(tr), Len(net), transport, ConnOf(tr, transport), closed,
                      nextMsg, born, late)
           /\ Head(cq).t \in 1..Len(tr) /\ Head(cq).c \in 1..Len(net)
           /\ Head(cq).op = "close" => Head(cq).c \in started
  <1>1. /\ Head(cq) = cq[1] /\ Moved(Tail(cq), cq, 1, {}) /\ 1 \in 1..Len(cq)
    BY MovedTail DEF IndInv, Basics
  <1>2. CqBlock(cq[1], Len(tr), Len(net), transport, ConnOf(tr, transport), closed, nextMsg,
                born, late)
    BY <1>1 DEF IndInv, CqOK
  <1>3. cq[1].t \in 1..Len(tr) /\ cq[1].c \in 1..Len(net)
    BY <1>2 DEF CqBlock
  <1>4. cq[1].op = "close" => cq[1].c \in started
    <2>1. cq[1].op = "close" => cq[1].c \in started \/ StartBefore(cq, cq[1].c, 1)
      BY <1>1 DEF IndInv, CqOK, CloseOK
    <2>2. ~StartBefore(cq, cq[1].c, 1)
      BY Numbers DEF StartBefore, IndInv
    <2> QED
      BY <2>1, <2>2
  <1> QED
    BY <1>1, <1>2, <1>3, <1>4

(* One transport changes. *)
LEMMA TrUpdate ==
    ASSUME tr \in Seq(TransportContext), NEW t \in 1..Len(tr), NEW x \in TransportContext
    PROVE  LET s == [tr EXCEPT ![t] = x]
           IN  /\ s \in Seq(TransportContext) /\ Len(s) = Len(tr) /\ s[t] = x
               /\ \A u \in 1..Len(tr) : u # t => s[u] = tr[u]
  <1> DEFINE s == [tr EXCEPT ![t] = x]
  <1>1. Len(tr) \in Nat /\ tr \in [1..Len(tr) -> TransportContext]
    BY LenProperties
  <1>2. s \in [1..Len(tr) -> TransportContext]
    BY <1>1
  <1>3. s \in Seq(TransportContext) /\ Len(s) = Len(tr)
    BY <1>1, <1>2, LenProperties
  <1> QED
    BY <1>1, <1>3

(* s holds the blocks in F. *)
Lists(s, F) == /\ IsQueue(s) /\ (\A i \in 1..Len(s) : s[i] \in F)
               /\ \A e \in F : \E i \in 1..Len(s) : s[i] = e

LEMMA ListsFew ==
    /\ Lists(<<>>, {})
    /\ \A e : Lists(<<e>>, {e})
    /\ \A d, e : Lists(<<d, e>>, {d, e})
  <1>1. Lists(<<>>, {})
    <2>1. <<>> \in Seq({}) /\ \A i \in 1..Len(<<>>) : <<>>[i] \in {}
      OBVIOUS
    <2> QED
      BY <2>1 DEF Lists, IsQueue
  <1>2. ASSUME NEW e
        PROVE  Lists(<<e>>, {e})
    <2>1. PICK a : a = <<e>>
      OBVIOUS
    <2>2. a \in Seq({e}) /\ Len(a) = 1 /\ a[1] = e
      BY <2>1
    <2>3. IsQueue(a)
      BY <2>2 DEF IsQueue
    <2>4. (\A i \in 1..Len(a) : a[i] \in {e}) /\ \A d \in {e} : \E i \in 1..Len(a) : a[i] = d
      BY <2>2
    <2> QED
      BY <2>1, <2>3, <2>4 DEF Lists
  <1>3. ASSUME NEW d, NEW e
        PROVE  Lists(<<d, e>>, {d, e})
    <2>1. PICK a : a = <<d, e>>
      OBVIOUS
    <2>2. a \in Seq({d, e}) /\ Len(a) = 2 /\ a[1] = d /\ a[2] = e
      BY <2>1
    <2>3. IsQueue(a)
      BY <2>2 DEF IsQueue
    <2>4. \A i \in 1..Len(a) : a[i] \in {d, e}
      BY <2>2
    <2>5. 1 \in 1..Len(a) /\ 2 \in 1..Len(a)
      BY <2>2
    <2>6. \A f \in {d, e} : \E i \in 1..Len(a) : a[i] = f
      BY <2>2, <2>5
    <2> QED
      BY <2>1, <2>3, <2>4, <2>6 DEF Lists
  <1> QED
    BY <1>1, <1>2, <1>3

(* Every block of E asks for a transaction of t. *)
AllReady(E, t) == \A e \in E : e.op = "ready" /\ e.t = t

(* The delegate is asked, after what is posted. *)
LEMMA Asks ==
    ASSUME IndInv, NEW t \in 1..Len(tr), NEW x \in TransportContext, NEW p, NEW F,
           Lists(p, F), RequestTransaction(t, x, p)
    PROVE  /\ \E y \in TransportContext :
                tr' = [tr EXCEPT ![t] = y] /\ y.conn = x.conn /\ y.live = x.live
           /\ \E E : Moved(mq', mq, 0, F \cup E) /\ AllReady(E, t)
  <1>1. PICK slow \in BOOLEAN : /\ tr' = [tr EXCEPT ![t] = Asking(x, slow)]
                                /\ mq' = mq \o p \o Asked(t, x, slow)
    BY DEF RequestTransaction
  <1>2. /\ Asking(x, slow) \in TransportContext
        /\ Asking(x, slow).conn = x.conn /\ Asking(x, slow).live = x.live
    BY DEF Asking, TransportContext
  <1>3. Moved(mq \o p, mq, 0, {} \cup F)
    BY MovedSame, MovedConcat DEF IndInv, Basics, Lists
  <1>4. PICK a : a = Asked(t, x, slow)
    OBVIOUS
  <1>5. \E E : Lists(a, E) /\ AllReady(E, t)
    <2>1. CASE a = <<>>
      <3>1. Lists(a, {}) /\ AllReady({}, t)
        BY <2>1, ListsFew DEF AllReady
      <3> QED
        BY <3>1
    <2>2. CASE a = <<[op |-> "ready", t |-> t, ping |-> x.ping]>>
      <3>1. PICK e : e = [op |-> "ready", t |-> t, ping |-> x.ping]
        OBVIOUS
      <3>2. a = <<e>> /\ AllReady({e}, t)
        BY <2>2, <3>1 DEF AllReady
      <3>3. Lists(a, {e})
        BY <3>2, ListsFew
      <3> QED
        BY <3>2, <3>3
    <2> QED
      BY <1>4, <2>1, <2>2 DEF Asked
  <1>6. PICK E : Lists(a, E) /\ AllReady(E, t)
    BY <1>5
  <1>7. Moved((mq \o p) \o a, mq, 0, ({} \cup F) \cup E)
    BY <1>3, <1>6, MovedConcat DEF Lists
  <1>8. ({} \cup F) \cup E = F \cup E
    OBVIOUS
  <1>9. Moved(mq', mq, 0, F \cup E)
    BY <1>1, <1>4, <1>7, <1>8
  <1> QED
    BY <1>1, <1>2, <1>6, <1>9

(* Every transport keeps its connection and its delegate. *)
ConnsKept ==
    /\ tr' \in Seq(TransportContext) /\ Len(tr') = Len(tr)
    /\ \A u \in 1..Len(tr) : tr'[u].conn = tr[u].conn /\ tr'[u].live = tr[u].live

LEMMA ConnsKeptBy ==
    ASSUME IndInv,
           \/ tr' = tr
           \/ \E t \in 1..Len(tr) : \E y \in TransportContext :
                /\ tr' = [tr EXCEPT ![t] = y]
                /\ y.conn = tr[t].conn /\ y.live = tr[t].live
    PROVE  ConnsKept
  <1>1. tr \in Seq(TransportContext)
    BY DEF IndInv, Basics
  <1>2. CASE tr' = tr
    BY <1>1, <1>2 DEF ConnsKept
  <1>3. ASSUME NEW t \in 1..Len(tr), NEW y \in TransportContext, tr' = [tr EXCEPT ![t] = y],
               y.conn = tr[t].conn, y.live = tr[t].live
        PROVE  ConnsKept
    <2>1. /\ tr' \in Seq(TransportContext) /\ Len(tr') = Len(tr) /\ tr'[t] = y
          /\ \A u \in 1..Len(tr) : u # t => tr'[u] = tr[u]
      BY <1>1, <1>3, TrUpdate
    <2> QED
      BY <1>3, <2>1 DEF ConnsKept
  <1> QED
    BY <1>2, <1>3

(* A step that opens and closes no connection. *)
LEMMA QuietTcpStep ==
    ASSUME IndInv, UNCHANGED <<service, sessInfo, transport, late, started, closed>>,
           ConnsKept, IsQueue(net'), Len(net') = Len(net), ServerOK',
           NEW kt \in {0, 1}, NEW Et, Moved(tq', tq, kt, Et),
           NEW kc \in {0, 1}, NEW Ec, Moved(cq', cq, kc, Ec), kc = 1 => cq[1].op # "start",
           NEW Em, Moved(mq', mq, 0, Em),
           \A e \in Et : TqBlock(e, Len(tr), transport, closed, nextMsg, born, late),
           \A e \in Ec :
             /\ CqBlock(e, Len(tr), Len(net), transport, ConnOf(tr, transport), closed,
                        nextMsg, born, late)
             /\ e.op = "close" => e.c \in started \/ StartBefore(cq, e.c, Len(cq) + 1),
           \A e \in Em : MqBlock(e, Len(tr), Len(net), transport, nextMsg, born, late),
           SentNames(Em, transport, ConnOf(tr, transport)),
           \A r \in Request : Taken(tq, kt, "send", r) =>
             Posted(Ec, "write", r) \/ Posted(Em, "sent", r),
           \A r \in Request : Taken(cq, kc, "write", r) => Posted(Em, "sent", r)
    PROVE  IndInv'
  <1>1. started' = started /\ closed' = closed /\ transport' = transport
    OBVIOUS
  <1>2. Len(net) \in Nat /\ transport \in 0..Len(tr) /\ Len(tr) \in Nat
    BY Numbers DEF IndInv, Basics
  <1>3. ConnOf(tr', transport) = ConnOf(tr, transport)
    BY <1>2 DEF ConnOf, ConnsKept, NoTransport
  <1>4. closed \subseteq started /\ started \subseteq 1..Len(net)
    BY DEF IndInv, ConnsOK
  <1>5. NetGrows
    BY <1>1, <1>2, <1>4 DEF NetGrows
  <1>6. TrMoves(Ec)
    BY DEF ConnsKept, TrMoves, IndInv, ConnsOK, ConnStep
  <1>7. CurrentKept(Em) /\ StartTaken(cq, kc, started') /\ HandedOn(kt, kc, Ec, Em)
    BY <1>3 DEF CurrentKept, StartTaken, HandedOn
  <1>8. CqPosts(Ec) /\ MqPosts(Em)
    BY <1>1, <1>3 DEF CqPosts, MqPosts
  <1>9. \A e \in Et : TqBlock(e, Len(tr), transport, closed', nextMsg, born, late)
    BY <1>1
  <1>10. UNCHANGED <<service, sessInfo, transport, late>>
    OBVIOUS
  <1> QED
    BY <1>5, <1>6, <1>7, <1>8, <1>9, <1>10, TcpStep

(* setDelegateNeedsTransaction. *)
LEMMA RunNeedsInv ==
    ASSUME IndInv, RunNeeds
    PROVE  IndInv'
  <1>1. /\ tq # <<>> /\ Head(tq).op = "needs"
        /\ UNCHANGED <<service, sessInfo, transport, late, mq, cq, started, closed, net, srv>>
    BY DEF RunNeeds, proto, world, service, sessInfo
  <1>2. PICK t : t = Head(tq).t
    OBVIOUS
  <1>3. /\ t \in 1..Len(tr) /\ tr[t] \in TransportContext /\ tr[t].conn \in 0..Len(net)
        /\ Head(tq) = tq[1] /\ Moved(Tail(tq), tq, 1, {})
    BY <1>1, <1>2, HeadTq
  <1>4. PICK E : Moved(tq', tq, 1, E) /\ \A e \in E : e = [op |-> "pass", t |-> t]
    <2>1. PICK q : q = Tail(tq)
      OBVIOUS
    <2>2. CASE tq' = q
      BY <1>3, <2>1, <2>2
    <2>3. CASE tq' = Append(q, [op |-> "pass", t |-> t])
      <3>1. Moved(tq', tq, 1, {} \cup {[op |-> "pass", t |-> t]})
        BY <1>3, <2>1, <2>3, MovedAppend
      <3> QED
        BY <3>1
    <2> QED
      BY <1>1, <1>2, <2>1, <2>2, <2>3 DEF RunNeeds
  <1>5. ConnsKept
    <2>1. PICK y : y = [tr[t] EXCEPT !.will = TRUE]
      OBVIOUS
    <2>2. y \in TransportContext /\ y.conn = tr[t].conn /\ y.live = tr[t].live
      BY <1>3, <2>1 DEF TransportContext
    <2>3. tr' = [tr EXCEPT ![t] = y]
      BY <1>2, <2>1 DEF RunNeeds
    <2> QED
      BY <1>3, <2>2, <2>3, ConnsKeptBy
  <1>6. Moved(cq', cq, 0, {}) /\ Moved(mq', mq, 0, {}) /\ IsQueue(net') /\ ServerOK'
    BY <1>1, MovedSame DEF IndInv, Basics, ServerOK
  <1>7. \A e \in E : TqBlock(e, Len(tr), transport, closed, nextMsg, born, late)
    BY <1>3, <1>4 DEF TqBlock
  <1>8. \A r \in Request : ~Taken(tq, 1, "send", r) /\ ~Taken(cq, 0, "write", r)
    BY <1>1, <1>3 DEF Taken
  <1>9. SentNames({}, transport, ConnOf(tr, transport))
    BY DEF SentNames
  <1> QED
    BY <1>1, <1>4, <1>5, <1>6, <1>7, <1>8, <1>9, QuietTcpStep

(* A queue that is left alone. *)
LEMMA Still ==
    ASSUME IndInv
    PROVE  /\ Moved(tq, tq, 0, {}) /\ Moved(cq, cq, 0, {}) /\ Moved(mq, mq, 0, {})
           /\ IsQueue(net) /\ ServerOK
           /\ \A t, c : SentNames({}, t, c)
           /\ \A q, op, r : ~Taken(q, 0, op, r)
  BY MovedSame DEF IndInv, Basics, SentNames, Taken

(* Questions name no connection. *)
LEMMA ReadyBlocks ==
    ASSUME IndInv, NEW E, NEW t \in 1..Len(tr), AllReady(E, t)
    PROVE  /\ \A e \in E : MqBlock(e, Len(tr), Len(net), transport, nextMsg, born, late)
           /\ SentNames(E, transport, ConnOf(tr, transport))
  BY DEF AllReady, MqBlock, SentNames

LEMMA RunPassInv ==
    ASSUME IndInv, RunPass
    PROVE  IndInv'
  <1>1. /\ tq # <<>> /\ Head(tq).op = "pass" /\ tq' = Tail(tq)
        /\ UNCHANGED <<service, sessInfo, transport, late, cq, started, closed, net, srv>>
    BY DEF RunPass
  <1>2. PICK t : t = Head(tq).t
    OBVIOUS
  <1>3. /\ t \in 1..Len(tr) /\ tr[t] \in TransportContext
        /\ Head(tq) = tq[1] /\ Moved(tq', tq, 1, {})
    BY <1>1, <1>2, HeadTq
  <1>4. PICK x : x = [tr[t] EXCEPT !.will = FALSE]
    OBVIOUS
  <1>5. x \in TransportContext /\ x.conn = tr[t].conn /\ x.live = tr[t].live
    BY <1>3, <1>4 DEF TransportContext
  <1>6. ConnsKept /\ \E E : Moved(mq', mq, 0, E) /\ AllReady(E, t)
    <2>1. CASE x.open
      <3>1. RequestTransaction(t, x, <<>>)
        BY <1>2, <1>4, <2>1 DEF RunPass
      <3>2. Lists(<<>>, {})
        BY ListsFew
      <3>3. /\ \E y \in TransportContext :
                 tr' = [tr EXCEPT ![t] = y] /\ y.conn = x.conn /\ y.live = x.live
            /\ \E E : Moved(mq', mq, 0, {} \cup E) /\ AllReady(E, t)
        BY <1>3, <1>5, <3>1, <3>2, Asks
      <3>4. \A E : {} \cup E = E
        OBVIOUS
      <3>5. \E E : Moved(mq', mq, 0, E) /\ AllReady(E, t)
        BY <3>3, <3>4
      <3> QED
        BY <1>3, <1>5, <3>3, <3>5, ConnsKeptBy
    <2>2. CASE ~x.open
      <3>1. PICK w : w = (x.conn = NoConn /\ ~x.stopped) /\ w \in BOOLEAN
        BY Zenon
      <3>2. PICK y : y = [x EXCEPT !.want = w]
        OBVIOUS
      <3>3. y \in TransportContext /\ y.conn = x.conn /\ y.live = x.live
        BY <1>5, <3>1, <3>2 DEF TransportContext
      <3>4. /\ tr' = [tr EXCEPT ![t] = [x EXCEPT !.want = x.conn = NoConn /\ ~x.stopped]]
            /\ mq' = mq
        BY <1>2, <1>4, <2>2 DEF RunPass
      <3>5. tr' = [tr EXCEPT ![t] = y]
        BY <3>1, <3>2, <3>4
      <3>6. Moved(mq', mq, 0, {}) /\ AllReady({}, t)
        BY <3>4, Still DEF AllReady
      <3> QED
        BY <1>3, <1>5, <3>3, <3>5, <3>6, ConnsKeptBy
    <2> QED
      BY <2>1, <2>2
  <1>7. PICK E : Moved(mq', mq, 0, E) /\ AllReady(E, t)
    BY <1>6
  <1>8. /\ \A e \in E : MqBlock(e, Len(tr), Len(net), transport, nextMsg, born, late)
        /\ SentNames(E, transport, ConnOf(tr, transport))
    BY <1>3, <1>7, ReadyBlocks
  <1>9. \A r \in Request : ~Taken(tq, 1, "send", r) /\ ~Taken(cq, 0, "write", r)
    BY <1>1, <1>3 DEF Taken
  <1>10. Moved(cq', cq, 0, {}) /\ IsQueue(net') /\ Len(net') = Len(net) /\ ServerOK'
    BY <1>1, Still DEF ServerOK
  <1> QED
    BY <1>1, <1>3, <1>6, <1>7, <1>8, <1>9, <1>10, QuietTcpStep

LEMMA OpenedInv ==
    ASSUME IndInv, NEW t \in DOMAIN tr, Opened(t)
    PROVE  IndInv'
  <1>1. UNCHANGED <<service, sessInfo, transport, late, tq, cq, started, closed, net, srv>>
    BY DEF Opened
  <1>2. t \in 1..Len(tr) /\ tr[t] \in TransportContext
    BY Numbers DEF IndInv
  <1>3. PICK x : x = [tr[t] EXCEPT !.open = TRUE, !.ping = TRUE]
    OBVIOUS
  <1>4. x \in TransportContext /\ x.conn = tr[t].conn /\ x.live = tr[t].live
    BY <1>2, <1>3 DEF TransportContext
  <1>5. RequestTransaction(t, x, <<>>) /\ Lists(<<>>, {})
    BY <1>3, ListsFew DEF Opened
  <1>6. /\ \E y \in TransportContext :
             tr' = [tr EXCEPT ![t] = y] /\ y.conn = x.conn /\ y.live = x.live
        /\ \E E : Moved(mq', mq, 0, {} \cup E) /\ AllReady(E, t)
    BY <1>2, <1>4, <1>5, Asks
  <1>7. ConnsKept
    BY <1>2, <1>4, <1>6, ConnsKeptBy
  <1>8. PICK E : Moved(mq', mq, 0, E) /\ AllReady(E, t)
    <2>1. \A E : {} \cup E = E
      OBVIOUS
    <2> QED
      BY <1>6, <2>1
  <1>9. /\ \A e \in E : MqBlock(e, Len(tr), Len(net), transport, nextMsg, born, late)
        /\ SentNames(E, transport, ConnOf(tr, transport))
    BY <1>2, <1>8, ReadyBlocks
  <1>10. /\ Moved(tq', tq, 0, {}) /\ Moved(cq', cq, 0, {}) /\ IsQueue(net')
         /\ Len(net') = Len(net) /\ ServerOK'
         /\ \A r \in Request : ~Taken(tq, 0, "send", r) /\ ~Taken(cq, 0, "write", r)
    BY <1>1, Still DEF ServerOK
  <1> QED
    BY <1>1, <1>7, <1>8, <1>9, <1>10, QuietTcpStep

(* activeTransactionIds. *)
LEMMA RunActiveInv ==
    ASSUME IndInv, RunActive
    PROVE  IndInv'
  <1>1. /\ tq # <<>> /\ Head(tq).op = "active" /\ tq' = Tail(tq)
        /\ UNCHANGED <<service, sessInfo, transport, late, tr, cq, started, closed, net, srv>>
    BY DEF RunActive, world
  <1>2. PICK c : c = tr[Head(tq).t].conn
    OBVIOUS
  <1>3. Head(tq) = tq[1] /\ Moved(tq', tq, 1, {})
    BY <1>1, HeadTq
  <1>4. PICK E : Moved(mq', mq, 0, E) /\ \A e \in E : e = FailedBlock(c)
    <2>1. CASE mq' = mq
      BY <2>1, Still
    <2>2. CASE mq' = Append(mq, FailedBlock(c))
      <3>1. Moved(mq', mq, 0, {} \cup {FailedBlock(c)})
        BY <2>2, Still, MovedAppend
      <3> QED
        BY <3>1
    <2> QED
      BY <1>2, <2>1, <2>2 DEF RunActive, FailedBlock
  <1>5. /\ \A e \in E : MqBlock(e, Len(tr), Len(net), transport, nextMsg, born, late)
        /\ SentNames(E, transport, ConnOf(tr, transport))
    BY <1>4 DEF MqBlock, SentNames, FailedBlock
  <1>6. ConnsKept
    BY <1>1, ConnsKeptBy
  <1>7. /\ Moved(cq', cq, 0, {}) /\ IsQueue(net') /\ Len(net') = Len(net) /\ ServerOK'
        /\ \A r \in Request : ~Taken(tq, 1, "send", r) /\ ~Taken(cq, 0, "write", r)
    BY <1>1, <1>3, Still DEF ServerOK, Taken
  <1> QED
    BY <1>1, <1>3, <1>4, <1>5, <1>6, <1>7, QuietTcpStep

(* What is on its way on one connection changes. *)
LEMMA NetUpdate ==
    ASSUME IsQueue(net), NEW c \in 1..Len(net), NEW v
    PROVE  LET n == [net EXCEPT ![c] = v]
           IN  IsQueue(n) /\ Len(n) = Len(net)
  <1>1. PICK S : net \in Seq(S)
    BY DEF IsQueue
  <1>2. Len(net) \in Nat /\ net \in [1..Len(net) -> S]
    BY <1>1, LenProperties
  <1> DEFINE n == [net EXCEPT ![c] = v]
  <1>3. n \in [1..Len(net) -> S \cup {v}]
    BY <1>2
  <1>4. n \in Seq(S \cup {v}) /\ Len(n) = Len(net)
    BY <1>2, <1>3, LenProperties
  <1>5. IsQueue(n)
    BY <1>4 DEF IsQueue
  <1> QED
    BY <1>4, <1>5

(* sendDatas. *)
LEMMA RunWriteInv ==
    ASSUME IndInv, RunWrite
    PROVE  IndInv'
  <1>1. /\ cq # <<>> /\ Head(cq).op = "write" /\ cq' = Tail(cq)
        /\ UNCHANGED <<service, sessInfo, transport, late, tr, tq, started, closed, srv>>
    BY DEF RunWrite
  <1>2. PICK e : e = Head(cq)
    OBVIOUS
  <1>3. /\ e = cq[1] /\ Moved(cq', cq, 1, {}) /\ e.op = "write"
        /\ CqBlock(e, Len(tr), Len(net), transport, ConnOf(tr, transport), closed, nextMsg,
                   born, late)
        /\ e.t \in 1..Len(tr) /\ e.c \in 1..Len(net)
    BY <1>1, <1>2, HeadCq
  <1>4. PICK ok : ok = (e.c \notin closed) /\ ok \in BOOLEAN
    BY Zenon
  <1>5. PICK d : d = [op |-> "sent", ok |-> ok, t |-> e.t, c |-> IF ok THEN e.c ELSE NoConn,
                      msgs |-> e.p.msgs, batch |-> e.batch]
    OBVIOUS
  <1>6. mq' = Append(mq, d)
    <2>1. mq' = Append(mq, [op |-> "sent", ok |-> e.c \notin closed, t |-> e.t,
                            c |-> IF e.c \notin closed THEN e.c ELSE NoConn,
                            msgs |-> e.p.msgs, batch |-> e.batch])
      BY <1>2 DEF RunWrite
    <2> QED
      BY <1>4, <1>5, <2>1
  <1>7. Moved(mq', mq, 0, {} \cup {d})
    BY <1>6, Still, MovedAppend
  <1>8. PICK E : E = {d}
    OBVIOUS
  <1>9. Moved(mq', mq, 0, E)
    <2>1. {} \cup {d} = E
      BY <1>8
    <2> QED
      BY <1>7, <2>1
  <1>10. \A x \in E : MqBlock(x, Len(tr), Len(net), transport, nextMsg, born, late)
    <2>1. MqBlock(d, Len(tr), Len(net), transport, nextMsg, born, late)
      BY <1>3, <1>4, <1>5 DEF MqBlock, CqBlock
    <2> QED
      BY <1>8, <2>1
  <1>11. SentNames(E, transport, ConnOf(tr, transport))
    <2>1. d.ok = ok /\ d.t = e.t /\ (ok => d.c = e.c)
      BY <1>5
    <2>2. ok /\ e.t = transport => e.c = ConnOf(tr, transport)
      BY <1>3, <1>4 DEF CqBlock
    <2> QED
      BY <1>8, <2>1, <2>2 DEF SentNames
  <1>12. IsQueue(net') /\ Len(net') = Len(net)
    <2>1. net' = net \/ net' = [net EXCEPT ![e.c] = Append(@, e.p)]
      BY <1>2 DEF RunWrite
    <2>2. PICK c, v : c = e.c /\ v = Append(net[c], e.p)
      OBVIOUS
    <2>3. net' = net \/ net' = [net EXCEPT ![c] = v]
      BY <2>1, <2>2
    <2>4. IsQueue(net) /\ c \in 1..Len(net)
      BY <1>3, <2>2, Still
    <2>5. CASE net' = [net EXCEPT ![c] = v]
      BY <2>4, <2>5, NetUpdate
    <2> QED
      BY <2>3, <2>4, <2>5
  <1>13. ConnsKept
    BY <1>1, ConnsKeptBy
  <1>14. /\ Moved(tq', tq, 0, {}) /\ ServerOK' /\ Moved(cq', cq, 1, {}) /\ cq[1].op # "start"
         /\ \A r \in Request : Taken(tq, 0, "send", r) =>
              Posted({}, "write", r) \/ Posted(E, "sent", r)
         /\ \A r \in Request : Taken(cq, 1, "write", r) => Posted(E, "sent", r)
         /\ UNCHANGED <<service, sessInfo, transport, late, started, closed>>
    BY <1>1, <1>3, <1>5, <1>8, Still DEF ServerOK, Taken, Posted
  <1> QED
    BY <1>9, <1>10, <1>11, <1>12, <1>13, <1>14, QuietTcpStep

(* reset. *)
LEMMA RunResetInv ==
    ASSUME IndInv, RunReset
    PROVE  IndInv'
  <1>1. /\ tq # <<>> /\ Head(tq).op = "reset" /\ tq' = Tail(tq)
        /\ UNCHANGED <<service, sessInfo, transport, late, tr, mq, started, closed, net, srv>>
    BY DEF RunReset, proto, world, service, sessInfo
  <1>2. PICK t, c : t = Head(tq).t /\ c = tr[t].conn
    OBVIOUS
  <1>3. /\ Head(tq) = tq[1] /\ Moved(tq', tq, 1, {}) /\ t \in 1..Len(tr) /\ c \in 0..Len(net)
    BY <1>1, <1>2, HeadTq
  <1>4. PICK E : Moved(cq', cq, 0, E)
                 /\ \A e \in E : c # NoConn /\ e = [op |-> "close", c |-> c, t |-> t]
    <2>1. CASE c = NoConn
      <3>1. cq' = cq
        BY <1>2, <2>1 DEF RunReset
      <3> QED
        BY <3>1, Still
    <2>2. CASE c # NoConn
      <3>1. cq' = Append(cq, [op |-> "close", c |-> c, t |-> t])
        BY <1>2, <2>2 DEF RunReset
      <3>2. Moved(cq', cq, 0, {} \cup {[op |-> "close", c |-> c, t |-> t]})
        BY <3>1, Still, MovedAppend
      <3> QED
        BY <2>2, <3>2
    <2> QED
      BY <2>1, <2>2
  <1>5. c # NoConn => c \in started \/ StartBefore(cq, c, Len(cq) + 1)
    BY <1>2, <1>3 DEF IndInv, TrOK
  <1>6. Len(net) \in Nat /\ Len(tr) \in Nat
    BY Numbers DEF IndInv
  <1>7. \A e \in E :
          /\ CqBlock(e, Len(tr), Len(net), transport, ConnOf(tr, transport), closed,
                     nextMsg, born, late)
          /\ e.op = "close" => e.c \in started \/ StartBefore(cq, e.c, Len(cq) + 1)
    BY <1>3, <1>4, <1>5, <1>6 DEF CqBlock, NoConn
  <1>8. ConnsKept
    BY <1>1, ConnsKeptBy
  <1>9. /\ Moved(mq', mq, 0, {}) /\ IsQueue(net') /\ Len(net') = Len(net) /\ ServerOK'
        /\ SentNames({}, transport, ConnOf(tr, transport))
        /\ \A r \in Request : ~Taken(tq, 1, "send", r) /\ ~Taken(cq, 0, "write", r)
    BY <1>1, <1>3, Still DEF ServerOK, Taken
  <1> QED
    BY <1>1, <1>3, <1>4, <1>7, <1>8, <1>9, QuietTcpStep

(* Only the network and the server act. *)
LEMMA WorldStep ==
    ASSUME IndInv, UNCHANGED <<service, proto, tcp, late>>, IsQueue(net'),
           Len(net') = Len(net), ServerOK'
    PROVE  IndInv'
  <1>1. UNCHANGED <<service, sessInfo, transport, late, tr, tq, cq, mq, started, closed>>
    BY DEF proto, tcp
  <1>2. ConnsKept
    BY <1>1, ConnsKeptBy
  <1>3. /\ Moved(tq', tq, 0, {}) /\ Moved(cq', cq, 0, {}) /\ Moved(mq', mq, 0, {})
        /\ SentNames({}, transport, ConnOf(tr, transport))
        /\ \A r \in Request : ~Taken(tq, 0, "send", r) /\ ~Taken(cq, 0, "write", r)
    BY <1>1, Still
  <1> QED
    BY <1>1, <1>2, <1>3, QuietTcpStep

LEMMA LoseInv ==
    ASSUME IndInv, NEW c \in DOMAIN net, Lose(c)
    PROVE  IndInv'
  <1>1. UNCHANGED <<service, proto, tcp, srv, late>> /\ net' = [net EXCEPT ![c] = <<>>]
    BY DEF Lose
  <1>2. c \in 1..Len(net) /\ IsQueue(net) /\ ServerOK
    BY Numbers, Still DEF IndInv
  <1>3. IsQueue(net') /\ Len(net') = Len(net)
    BY <1>1, <1>2, NetUpdate
  <1>4. ServerOK'
    BY <1>1, <1>2 DEF ServerOK
  <1> QED
    BY <1>1, <1>3, <1>4, WorldStep

(* What the server has to say is of a known kind. *)
Says(s) == /\ DOMAIN s = {"sess", "conn", "seen", "refused", "out"}
           /\ \A x \in s.out : x.k \in Answers

LEMMA HeardSays ==
    ASSUME ServerOK, NEW c, NEW p, NEW first
    PROVE  Says(Heard(c, p, first))
  <1>1. Says(srv)
    BY DEF ServerOK, Says
  <1>2. CASE p.sess = srv.sess
    <2>1. PICK s : s = Heard(c, p, first)
      OBVIOUS
    <2>2. PICK m : m = Max({srv.conn, c})
      OBVIOUS
    <2>3. s = [srv EXCEPT !.conn = m]
      BY <1>2, <2>1, <2>2 DEF Heard
    <2>4. DOMAIN s = DOMAIN srv /\ s.out = srv.out
      BY <1>1, <2>3 DEF Says
    <2> QED
      BY <1>1, <2>1, <2>4 DEF Says
  <1>3. CASE p.sess # srv.sess
    <2>1. PICK n : n = [k |-> "new", m |-> first, how |-> ""]
      OBVIOUS
    <2>2. n.k \in Answers
      BY <2>1 DEF Answers
    <2>3. Heard(c, p, first) = [sess |-> p.sess, conn |-> c, seen |-> {}, refused |-> {},
                                out |-> {n}]
      BY <1>3, <2>1 DEF Heard
    <2> QED
      BY <2>2, <2>3 DEF Says
  <1> QED
    BY <1>2, <1>3

(* Something is added to what it has to say. *)
LEMMA SaysMore ==
    ASSUME NEW s, Says(s), NEW S, NEW R, NEW X, \A x \in X : x.k \in Answers
    PROVE  /\ Says([s EXCEPT !.seen = S, !.out = @ \cup X])
           /\ Says([s EXCEPT !.refused = R, !.out = @ \cup X])
  BY DEF Says

LEMMA ExecutedSays ==
    ASSUME NEW s, Says(s), NEW p, NEW how
    PROVE  Says(Executed(s, p, how))
  <1>1. ASSUME NEW k \in {"res", "ack", "dropped"}, NEW ids, NEW h
        PROVE  \A x \in Told(k, ids, h) : x.k \in Answers
    BY DEF Told, Answers
  <1> DEFINE ids == {m.id : m \in NewTo(s, p)}
  <1>2. PICK X, S :
          /\ X = Told("res", ids, how) \cup Told("ack", {i \in ids : how = "ack"}, "")
                 \cup Told("dropped", {x.id : x \in {y \in p.msgs : y.kind = "drop"}}, "")
          /\ S = s.seen \cup {[id |-> m.id, ref |-> m.ref, ran |-> how \notin {"wait", "token"}] :
                              m \in NewTo(s, p)}
    OBVIOUS
  <1>3. \A x \in X : x.k \in Answers
    BY <1>1, <1>2
  <1>4. Executed(s, p, how) = [s EXCEPT !.seen = S, !.out = @ \cup X]
    BY <1>2, Zenon DEF Executed
  <1>5. Says([s EXCEPT !.seen = S, !.out = @ \cup X])
    BY <1>3, SaysMore
  <1> QED
    BY <1>4, <1>5

LEMMA ServerExecutesInv ==
    ASSUME IndInv, NEW c \in DOMAIN net, ServerExecutes(c)
    PROVE  IndInv'
  <1>1. UNCHANGED <<service, proto, tcp, late>>
    BY DEF ServerExecutes
  <1>2. c \in 1..Len(net) /\ IsQueue(net) /\ ServerOK
    BY Numbers, Still DEF IndInv
  <1>3. IsQueue(net') /\ Len(net') = Len(net)
    <2>1. PICK v : v = Tail(net[c])
      OBVIOUS
    <2>2. net' = [net EXCEPT ![c] = v]
      BY <2>1 DEF ServerExecutes
    <2> QED
      BY <1>2, <2>2, NetUpdate
  <1>4. ServerOK'
    <2>1. PICK p : p = Head(net[c])
      OBVIOUS
    <2>2. \/ srv' = srv
          \/ \E first, how : srv' = Executed(Heard(c, p, first), p, how)
      BY <2>1 DEF ServerExecutes
    <2>3. CASE srv' = srv
      BY <1>2, <2>3 DEF ServerOK
    <2>4. ASSUME NEW first, NEW how, srv' = Executed(Heard(c, p, first), p, how)
          PROVE  ServerOK'
      <3>1. PICK s : s = Heard(c, p, first)
        OBVIOUS
      <3>2. Says(s)
        BY <1>2, <3>1, HeardSays
      <3>3. Says(Executed(s, p, how))
        BY <3>2, ExecutedSays
      <3>4. Says(srv')
        BY <2>4, <3>1, <3>3
      <3> QED
        BY <3>4 DEF Says, ServerOK
    <2> QED
      BY <2>2, <2>3, <2>4
  <1> QED
    BY <1>1, <1>3, <1>4, WorldStep

LEMMA ServerRejectsInv ==
    ASSUME IndInv, NEW c \in DOMAIN net, ServerRejects(c)
    PROVE  IndInv'
  <1>1. UNCHANGED <<service, proto, tcp, late>>
    BY DEF ServerRejects
  <1>2. c \in 1..Len(net) /\ IsQueue(net) /\ ServerOK
    BY Numbers, Still DEF IndInv
  <1>3. IsQueue(net') /\ Len(net') = Len(net)
    <2>1. PICK v : v = Tail(net[c])
      OBVIOUS
    <2>2. net' = [net EXCEPT ![c] = v]
      BY <2>1 DEF ServerRejects
    <2> QED
      BY <1>2, <2>2, NetUpdate
  <1>4. ServerOK'
    <2>1. PICK p, id, f : /\ p = Head(net[c])
                          /\ id = IF p.box # 0 THEN p.box ELSE Min({m.id : m \in p.msgs})
                          /\ f = Min(FirstIds(p))
      OBVIOUS
    <2>2. PICK code : srv' = [Heard(c, p, f) EXCEPT
                               !.refused = @ \cup {m.id : m \in p.msgs},
                               !.out = @ \cup {[k |-> "bad", m |-> id, how |-> code]}]
      BY <2>1 DEF ServerRejects
    <2>3. PICK s, R, X : /\ s = Heard(c, p, f) /\ R = s.refused \cup {m.id : m \in p.msgs}
                         /\ X = {[k |-> "bad", m |-> id, how |-> code]}
      OBVIOUS
    <2>4. Says(s) /\ \A x \in X : x.k \in Answers
      BY <1>2, <2>3, HeardSays DEF Answers
    <2>5. srv' = [s EXCEPT !.refused = R, !.out = @ \cup X]
      BY <2>2, <2>3
    <2>6. Says(srv')
      BY <2>4, <2>5, SaysMore
    <2> QED
      BY <2>6 DEF Says, ServerOK
  <1> QED
    BY <1>1, <1>3, <1>4, WorldStep

LEMMA ServerPushInv ==
    ASSUME IndInv, ServerPush
    PROVE  IndInv'
  <1>1. UNCHANGED <<service, sessInfo, transport, late, tr, tq, cq, started, closed, net, srv>>
    BY DEF ServerPush, tcp, world
  <1>2. PICK t \in DOMAIN tr, x \in srv.out : mq' = Append(mq, [op |-> "data", t |-> t, x |-> x])
    BY DEF ServerPush
  <1>3. PICK d, E : d = [op |-> "data", t |-> t, x |-> x] /\ E = {d}
    OBVIOUS
  <1>4. Moved(mq', mq, 0, E)
    <2>1. Moved(mq', mq, 0, {} \cup {d})
      BY <1>2, <1>3, Still, MovedAppend
    <2>2. {} \cup {d} = E
      BY <1>3
    <2> QED
      BY <2>1, <2>2
  <1>5. /\ \A e \in E : MqBlock(e, Len(tr), Len(net), transport, nextMsg, born, late)
        /\ SentNames(E, transport, ConnOf(tr, transport))
    <2>1. x.k \in Answers
      BY <1>2, Still DEF ServerOK
    <2> QED
      BY <1>3, <2>1 DEF MqBlock, SentNames
  <1>6. ConnsKept
    BY <1>1, ConnsKeptBy
  <1>7. /\ Moved(tq', tq, 0, {}) /\ Moved(cq', cq, 0, {}) /\ IsQueue(net')
        /\ Len(net') = Len(net) /\ ServerOK'
        /\ \A r \in Request : ~Taken(tq, 0, "send", r) /\ ~Taken(cq, 0, "write", r)
    BY <1>1, Still DEF ServerOK
  <1> QED
    BY <1>1, <1>4, <1>5, <1>6, <1>7, QuietTcpStep

(* A sequence given by its elements. *)
LEMMA ListsAll ==
    ASSUME NEW n \in Nat, NEW s, s = [i \in 1..n |-> s[i]]
    PROVE  Lists(s, {s[i] : i \in 1..n}) /\ Len(s) = n
  <1> DEFINE F == {s[i] : i \in 1..n}
  <1>1. s \in [1..n -> F]
    OBVIOUS
  <1>2. s \in Seq(F) /\ Len(s) = n
    BY <1>1, LenProperties
  <1>3. IsQueue(s)
    BY <1>2 DEF IsQueue
  <1>4. \A i \in 1..Len(s) : s[i] \in F
    BY <1>2
  <1>5. \A e \in F : \E i \in 1..Len(s) : s[i] = e
    BY <1>2
  <1> QED
    BY <1>2, <1>3, <1>4, <1>5 DEF Lists

(* The completions and the writes of a transactionReady block e on the     *)
(* connection c of the transport t.                                        *)
FailedSend(e, t, i) ==
    [op |-> "sent", ok |-> FALSE, t |-> t, c |-> NoConn,
     msgs |-> e.payloads[i].msgs, batch |-> e.batch]

WriteOf(e, t, c, i) ==
    [op |-> "write", c |-> c, t |-> t, p |-> e.payloads[i], batch |-> e.batch]

LEMMA SendBlocks ==
    ASSUME IndInv, tq # <<>>, NEW e, e = Head(tq), e.op = "send", NEW t, t = e.t,
           NEW c, c = tr[t].conn, NEW n, n = Len(e.payloads)
    PROVE  /\ n \in Nat
           /\ \A i \in 1..n :
                /\ MqBlock(FailedSend(e, t, i), Len(tr), Len(net), transport, nextMsg, born, late)
                /\ ~FailedSend(e, t, i).ok
                /\ c # NoConn =>
                     CqBlock(WriteOf(e, t, c, i), Len(tr), Len(net), transport,
                             ConnOf(tr, transport), closed, nextMsg, born, late)
                /\ WriteOf(e, t, c, i).op # "close"
           /\ \A r \in Request : Taken(tq, 1, "send", r) =>
                /\ 1 \in 1..n
                /\ FailedSend(e, t, 1).op = "sent" /\ r \in FailedSend(e, t, 1).batch
                /\ WriteOf(e, t, c, 1).op = "write" /\ r \in WriteOf(e, t, c, 1).batch
  <1>1. /\ e = tq[1] /\ TqBlock(e, Len(tr), transport, closed, nextMsg, born, late)
        /\ t \in 1..Len(tr) /\ c \in 0..Len(net)
    BY HeadTq
  <1>2. /\ IsQueue(e.payloads) /\ (e.batch # {} => e.payloads # <<>>)
        /\ \A j \in 1..n : Messages(e.payloads[j].msgs, t, transport, nextMsg, born, late)
    BY <1>1 DEF TqBlock
  <1>3. n \in Nat /\ (e.batch # {} => 1 \in 1..n)
    <2>1. PICK S : e.payloads \in Seq(S)
      BY <1>2 DEF IsQueue
    <2>2. n \in Nat /\ (e.payloads # <<>> => n # 0)
      BY <2>1, LenProperties, EmptySeq
    <2> QED
      BY <1>2, <2>2
  <1>4. ASSUME NEW i \in 1..n
        PROVE  /\ MqBlock(FailedSend(e, t, i), Len(tr), Len(net), transport, nextMsg, born, late)
               /\ ~FailedSend(e, t, i).ok
    BY <1>1, <1>2 DEF MqBlock, FailedSend
  <1>5. ASSUME c # NoConn, NEW i \in 1..n
        PROVE  CqBlock(WriteOf(e, t, c, i), Len(tr), Len(net), transport, ConnOf(tr, transport),
                       closed, nextMsg, born, late)
    <2>1. c \in 1..Len(net) /\ (t = transport => c = ConnOf(tr, transport))
      BY <1>1, <1>5, Numbers DEF NoConn, ConnOf, NoTransport, IndInv
    <2> QED
      BY <1>1, <1>2, <2>1 DEF CqBlock, WriteOf
  <1>6. \A i \in 1..n : WriteOf(e, t, c, i).op # "close"
    BY DEF WriteOf
  <1>7. ASSUME NEW r \in Request, Taken(tq, 1, "send", r)
        PROVE  /\ 1 \in 1..n
               /\ FailedSend(e, t, 1).op = "sent" /\ r \in FailedSend(e, t, 1).batch
               /\ WriteOf(e, t, c, 1).op = "write" /\ r \in WriteOf(e, t, c, 1).batch
    <2>1. r \in e.batch
      BY <1>1, <1>7 DEF Taken
    <2> QED
      BY <1>3, <2>1 DEF FailedSend, WriteOf
  <1> QED
    BY <1>3, <1>4, <1>5, <1>6, <1>7

LEMMA RunSendInv ==
    ASSUME IndInv, RunSend
    PROVE  IndInv'
  <1>1. /\ tq # <<>> /\ Head(tq).op = "send" /\ tq' = Tail(tq)
        /\ UNCHANGED <<service, sessInfo, transport, late, started, closed, net, srv>>
    BY DEF RunSend
  <1>2. PICK e, t, c, n, x :
          /\ e = Head(tq) /\ t = e.t /\ c = tr[t].conn /\ n = Len(e.payloads)
          /\ x = [tr[t] EXCEPT !.lock = FALSE, !.again = FALSE]
    OBVIOUS
  <1>3. PICK failed, written : /\ failed = [i \in 1..n |-> FailedSend(e, t, i)]
                               /\ written = [i \in 1..n |-> WriteOf(e, t, c, i)]
    OBVIOUS
  <1>4. PICK F, W : F = {failed[i] : i \in 1..n} /\ W = {written[i] : i \in 1..n}
    OBVIOUS
  <1>5. PICK answer : answer = IF c = NoConn THEN failed ELSE <<>>
    OBVIOUS
  <1>6. /\ cq' = IF c = NoConn THEN cq ELSE cq \o written
        /\ IF tr[t].again THEN RequestTransaction(t, x, answer)
           ELSE tr' = [tr EXCEPT ![t] = x] /\ mq' = mq \o answer
    BY <1>2, <1>3, <1>5 DEF RunSend, FailedSend, WriteOf
  <1>20. /\ n \in Nat
         /\ \A i \in 1..n :
              /\ MqBlock(FailedSend(e, t, i), Len(tr), Len(net), transport, nextMsg, born, late)
              /\ ~FailedSend(e, t, i).ok
              /\ c # NoConn =>
                   CqBlock(WriteOf(e, t, c, i), Len(tr), Len(net), transport,
                           ConnOf(tr, transport), closed, nextMsg, born, late)
              /\ WriteOf(e, t, c, i).op # "close"
         /\ \A r \in Request : Taken(tq, 1, "send", r) =>
              /\ 1 \in 1..n
              /\ FailedSend(e, t, 1).op = "sent" /\ r \in FailedSend(e, t, 1).batch
              /\ WriteOf(e, t, c, 1).op = "write" /\ r \in WriteOf(e, t, c, 1).batch
    <2>1. e = Head(tq) /\ e.op = "send" /\ t = e.t /\ c = tr[t].conn /\ n = Len(e.payloads)
      BY <1>1, <1>2
    <2> QED
      BY <1>1, <2>1, SendBlocks
  <1>7. /\ \A f \in F : MqBlock(f, Len(tr), Len(net), transport, nextMsg, born, late)
        /\ SentNames(F, transport, ConnOf(tr, transport))
        /\ c # NoConn => \A w \in W :
             /\ CqBlock(w, Len(tr), Len(net), transport, ConnOf(tr, transport), closed,
                        nextMsg, born, late)
             /\ w.op # "close"
        /\ \A r \in Request : Taken(tq, 1, "send", r) =>
             Posted(F, "sent", r) /\ Posted(W, "write", r)
    <2>1. /\ \A f \in F : \E i \in 1..n : f = FailedSend(e, t, i)
          /\ \A w \in W : \E i \in 1..n : w = WriteOf(e, t, c, i)
      BY <1>3, <1>4
    <2>2. 1 \in 1..n => FailedSend(e, t, 1) \in F /\ WriteOf(e, t, c, 1) \in W
      BY <1>3, <1>4
    <2> QED
      BY <1>20, <2>1, <2>2 DEF SentNames, Posted
  <1>8. Lists(failed, F) /\ Lists(written, W)
    <2>1. failed = [i \in 1..n |-> failed[i]] /\ written = [i \in 1..n |-> written[i]]
      BY <1>3
    <2> QED
      BY <1>4, <1>20, <2>1, ListsAll
  <1>9. /\ t \in 1..Len(tr) /\ tr[t] \in TransportContext /\ Moved(tq', tq, 1, {})
        /\ x \in TransportContext /\ x.conn = tr[t].conn /\ x.live = tr[t].live
    <2>1. t \in 1..Len(tr) /\ tr[t] \in TransportContext /\ Moved(tq', tq, 1, {})
      BY <1>1, <1>2, HeadTq
    <2> QED
      BY <1>2, <2>1 DEF TransportContext
  <1>10. PICK G, H :
           /\ Lists(answer, G) /\ Moved(cq', cq, 0, H)
           /\ \/ c = NoConn /\ G = F /\ H = {}
              \/ c # NoConn /\ G = {} /\ H = W
    <2>1. CASE c = NoConn
      BY <1>5, <1>6, <1>8, <2>1, Still
    <2>2. CASE c # NoConn
      <3>1. Moved(cq', cq, 0, {} \cup W)
        BY <1>6, <1>8, <2>2, Still, MovedConcat DEF Lists
      <3>2. {} \cup W = W
        OBVIOUS
      <3>3. Lists(answer, {})
        BY <1>5, <2>2, ListsFew
      <3> QED
        BY <2>2, <3>1, <3>2, <3>3
    <2> QED
      BY <2>1, <2>2
  <1>11. ConnsKept /\ \E E : Moved(mq', mq, 0, G \cup E) /\ AllReady(E, t)
    <2>1. CASE tr[t].again
      <3>1. /\ \E y \in TransportContext :
                 tr' = [tr EXCEPT ![t] = y] /\ y.conn = x.conn /\ y.live = x.live
            /\ \E E : Moved(mq', mq, 0, G \cup E) /\ AllReady(E, t)
        BY <1>6, <1>9, <1>10, <2>1, Asks
      <3> QED
        BY <1>9, <3>1, ConnsKeptBy
    <2>2. CASE ~tr[t].again
      <3>1. Moved(mq', mq, 0, {} \cup G)
        <4>1. mq' = mq \o answer /\ Lists(answer, G) /\ Moved(mq, mq, 0, {})
          BY <1>6, <1>10, <2>2, Still
        <4> QED
          BY <4>1, MovedConcat DEF Lists
      <3>2. {} \cup G = G \cup {} /\ AllReady({}, t)
        BY DEF AllReady
      <3>3. \E E : Moved(mq', mq, 0, G \cup E) /\ AllReady(E, t)
        BY <3>1, <3>2
      <3> QED
        BY <1>6, <1>9, <2>2, <3>3, ConnsKeptBy
    <2> QED
      BY <2>1, <2>2
  <1>12. PICK E, M : Moved(mq', mq, 0, M) /\ AllReady(E, t) /\ M = G \cup E
    BY <1>11
  <1>13. /\ \A m \in M : MqBlock(m, Len(tr), Len(net), transport, nextMsg, born, late)
         /\ SentNames(M, transport, ConnOf(tr, transport))
    <2>1. /\ \A m \in E : MqBlock(m, Len(tr), Len(net), transport, nextMsg, born, late)
          /\ SentNames(E, transport, ConnOf(tr, transport))
      BY <1>9, <1>12, ReadyBlocks
    <2> QED
      BY <1>7, <1>10, <1>12, <2>1 DEF SentNames
  <1>14. \A w \in H :
           /\ CqBlock(w, Len(tr), Len(net), transport, ConnOf(tr, transport), closed,
                      nextMsg, born, late)
           /\ w.op = "close" => w.c \in started \/ StartBefore(cq, w.c, Len(cq) + 1)
    BY <1>7, <1>10
  <1>15. \A r \in Request : Taken(tq, 1, "send", r) => Posted(H, "write", r) \/ Posted(M, "sent", r)
    BY <1>7, <1>10, <1>12 DEF Posted
  <1>16. /\ IsQueue(net') /\ Len(net') = Len(net) /\ ServerOK'
         /\ \A r \in Request : ~Taken(cq, 0, "write", r)
    BY <1>1, Still DEF ServerOK
  <1>17. UNCHANGED <<service, sessInfo, transport, late, started, closed>>
    BY <1>1
  <1>18. Moved(tq', tq, 1, {}) /\ Moved(cq', cq, 0, H) /\ Moved(mq', mq, 0, M) /\ ConnsKept
    BY <1>9, <1>10, <1>11, <1>12
  <1> QED
    BY <1>13, <1>14, <1>15, <1>16, <1>17, <1>18, QuietTcpStep

(* closeAndNotify. *)
LEMMA CloseInv ==
    ASSUME IndInv, NEW t \in 1..Len(tr), NEW c \in started, CloseAndNotify(t, c),
           UNCHANGED <<service, sessInfo, transport, late, tr, mq, started>>,
           IsQueue(net'), Len(net') = Len(net), ServerOK',
           NEW kc \in {0, 1}, Moved(cq', cq, kc, {}), kc = 1 => cq[1].op = "close"
    PROVE  IndInv'
  <1>1. PICK E : Moved(tq', tq, 0, E) /\ \A e \in E : e = [op |-> "closed", t |-> t, c |-> c]
    <2>1. CASE tq' = tq
      BY <2>1, Still
    <2>2. CASE tq' = Append(tq, [op |-> "closed", t |-> t, c |-> c])
      <3>1. Moved(tq', tq, 0, {} \cup {[op |-> "closed", t |-> t, c |-> c]})
        BY <2>2, Still, MovedAppend
      <3> QED
        BY <3>1
    <2> QED
      BY <2>1, <2>2 DEF CloseAndNotify
  <1>2. closed' = closed \cup {c} /\ started' = started /\ tr' = tr
    BY DEF CloseAndNotify
  <1>3. NetGrows
    BY <1>2, Numbers DEF IndInv, ConnsOK, NetGrows
  <1>4. TrMoves({}) /\ CurrentKept({})
    BY <1>2 DEF IndInv, Basics, ConnsOK, TrMoves, ConnStep, CurrentKept
  <1>5. \A e \in E : TqBlock(e, Len(tr), transport, closed', nextMsg, born, late)
    BY <1>1, <1>2 DEF TqBlock
  <1>6. /\ StartTaken(cq, kc, started') /\ HandedOn(0, kc, {}, {})
        /\ CqPosts({}) /\ MqPosts({})
    BY DEF StartTaken, HandedOn, Taken, CqPosts, MqPosts, SentNames
  <1>7. Moved(mq', mq, 0, {}) /\ UNCHANGED <<service, sessInfo, transport, late>>
    BY Still
  <1> QED
    BY <1>1, <1>3, <1>4, <1>5, <1>6, <1>7, TcpStep

LEMMA RunCloseInv ==
    ASSUME IndInv, RunClose
    PROVE  IndInv'
  <1>1. /\ cq # <<>> /\ Head(cq).op = "close" /\ cq' = Tail(cq)
        /\ CloseAndNotify(Head(cq).t, Head(cq).c)
        /\ UNCHANGED <<service, sessInfo, transport, late, tr, mq, started, net, srv>>
    BY DEF RunClose, proto, world, service, sessInfo
  <1>2. /\ Head(cq) = cq[1] /\ Moved(cq', cq, 1, {})
        /\ Head(cq).t \in 1..Len(tr) /\ Head(cq).c \in started
    BY <1>1, HeadCq
  <1>3. IsQueue(net') /\ Len(net') = Len(net) /\ ServerOK'
    BY <1>1, Still DEF ServerOK
  <1>4. UNCHANGED <<service, sessInfo, transport, late, tr, mq, started>> /\ cq[1].op = "close"
    BY <1>1, <1>2
  <1> QED
    BY <1>1, <1>2, <1>3, <1>4, CloseInv

LEMMA ConnectionFailsInv ==
    ASSUME IndInv, NEW t \in DOMAIN tr, ConnectionFails(t)
    PROVE  IndInv'
  <1>1. /\ tr[t].conn \in started /\ CloseAndNotify(t, tr[t].conn)
        /\ UNCHANGED <<service, sessInfo, transport, late, tr, mq, cq, started, net, srv>>
    BY DEF ConnectionFails, proto
  <1>2. t \in 1..Len(tr)
    BY Numbers DEF IndInv
  <1>3. IsQueue(net') /\ Len(net') = Len(net) /\ ServerOK' /\ Moved(cq', cq, 0, {})
    BY <1>1, Still DEF ServerOK
  <1> QED
    BY <1>1, <1>2, <1>3, CloseInv

LEMMA ServerRestartsInv ==
    ASSUME IndInv, NEW t \in DOMAIN tr, ServerRestarts(t)
    PROVE  IndInv'
  <1>1. /\ tr[t].conn \in started /\ CloseAndNotify(t, tr[t].conn)
        /\ UNCHANGED <<service, sessInfo, transport, late, tr, mq, cq, started>>
        /\ srv' = FreshServer /\ net' = [net EXCEPT ![tr[t].conn] = <<>>]
    BY DEF ServerRestarts, proto
  <1>2. t \in 1..Len(tr)
    BY Numbers DEF IndInv
  <1>3. ServerOK' /\ Moved(cq', cq, 0, {})
    BY <1>1, Still DEF ServerOK, FreshServer
  <1>4. IsQueue(net') /\ Len(net') = Len(net)
    <2>1. PICK c : c = tr[t].conn
      OBVIOUS
    <2>2. c \in 1..Len(net) /\ IsQueue(net)
      BY <1>1, <2>1, Still DEF IndInv, ConnsOK
    <2>3. net' = [net EXCEPT ![c] = <<>>]
      BY <1>1, <2>1
    <2> QED
      BY <2>2, <2>3, NetUpdate
  <1>5. PICK c : c = tr[t].conn
    OBVIOUS
  <1>6. /\ c \in started /\ CloseAndNotify(t, c)
        /\ UNCHANGED <<service, sessInfo, transport, late, tr, mq, started>>
    BY <1>1, <1>5
  <1> QED
    BY <1>2, <1>3, <1>4, <1>6, CloseInv

(* start. *)
LEMMA RunStartInv ==
    ASSUME IndInv, RunStart
    PROVE  IndInv'
  <1>1. /\ cq # <<>> /\ Head(cq).op = "start" /\ cq' = Tail(cq)
        /\ started' = started \cup {Head(cq).c}
        /\ UNCHANGED <<service, sessInfo, transport, late, tr, tq, mq, closed, net, srv>>
    BY DEF RunStart, proto, world, service, sessInfo
  <1>2. /\ Head(cq) = cq[1] /\ Moved(cq', cq, 1, {}) /\ Head(cq).c \in 1..Len(net)
    BY <1>1, HeadCq
  <1>3. NetGrows
    <2>1. IsQueue(net') /\ Len(net) <= Len(net')
      BY <1>1, Numbers, Still DEF IndInv
    <2>2. ServerOK'
      BY <1>1, Still DEF ServerOK
    <2>3. /\ closed \subseteq closed' /\ started \subseteq started'
          /\ closed' \subseteq started' /\ started' \subseteq 1..Len(net')
      BY <1>1, <1>2 DEF IndInv, ConnsOK
    <2> QED
      BY <2>1, <2>2, <2>3 DEF NetGrows
  <1>4. TrMoves({}) /\ CurrentKept({})
    BY <1>1 DEF IndInv, Basics, ConnsOK, TrMoves, ConnStep, CurrentKept
  <1>5. /\ StartTaken(cq, 1, started') /\ HandedOn(0, 1, {}, {})
        /\ CqPosts({}) /\ MqPosts({})
    BY <1>1, <1>2 DEF StartTaken, HandedOn, Taken, CqPosts, MqPosts, SentNames
  <1>6. /\ Moved(tq', tq, 0, {}) /\ Moved(mq', mq, 0, {})
        /\ UNCHANGED <<service, sessInfo, transport, late>>
    BY <1>1, Still
  <1> QED
    BY <1>2, <1>3, <1>4, <1>5, <1>6, TcpStep

(* A transport loses its connection. *)
LEMMA ConnLost ==
    ASSUME IndInv, NEW t \in 1..Len(tr), NEW y \in TransportContext, tr' = [tr EXCEPT ![t] = y],
           y.conn = NoConn, y.live = tr[t].live, Len(net') = Len(net), NEW E
    PROVE  /\ TrMoves(E)
           /\ t # transport => ConnOf(tr', transport) = ConnOf(tr, transport)
           /\ t = transport => ConnOf(tr, transport) = tr[t].conn
  <1>1. tr \in Seq(TransportContext) /\ transport \in 0..Len(tr)
    BY DEF IndInv, Basics
  <1>2. Len(tr) \in Nat /\ Len(net) \in Nat
    BY Numbers DEF IndInv
  <1>3. /\ tr' \in Seq(TransportContext) /\ Len(tr') = Len(tr) /\ tr'[t] = y
        /\ \A u \in 1..Len(tr) : u # t => tr'[u] = tr[u]
    BY <1>1, TrUpdate
  <1>4. \A u \in 1..Len(tr) : tr[u].conn \in 0..Len(net)
    BY DEF IndInv, ConnsOK
  <1>5. TrMoves(E)
    BY <1>2, <1>3, <1>4 DEF ConnStep, NoConn, TrMoves
  <1>6. t # transport => ConnOf(tr', transport) = ConnOf(tr, transport)
    BY <1>1, <1>2, <1>3 DEF ConnOf, NoTransport
  <1>7. t = transport => ConnOf(tr, transport) = tr[t].conn
    BY <1>2 DEF ConnOf, NoTransport
  <1> QED
    BY <1>5, <1>6, <1>7

(* Reports of failures on the manager queue. *)
LEMMA FailedBlocks ==
    ASSUME NEW E, NEW c, \A e \in E : e = FailedBlock(c)
    PROVE  /\ \A T, N, t0, n, b, l : \A e \in E : MqBlock(e, T, N, t0, n, b, l)
           /\ \A t, d : SentNames(E, t, d)
  BY DEF FailedBlock, MqBlock, SentNames

(* stop. *)
LEMMA RunStopInv ==
    ASSUME IndInv, RunStop
    PROVE  IndInv'
  <1>1. /\ tq # <<>> /\ Head(tq).op = "stop" /\ tq' = Tail(tq)
        /\ UNCHANGED <<service, sessInfo, transport, late, started, closed, net, srv>>
    BY DEF RunStop, world
  <1>2. PICK t, c, y :
          /\ t = Head(tq).t /\ c = tr[t].conn
          /\ y = [tr[t] EXCEPT !.conn = NoConn, !.open = FALSE, !.want = FALSE, !.stopped = TRUE]
    OBVIOUS
  <1>3. /\ t \in 1..Len(tr) /\ tr[t] \in TransportContext /\ c \in 0..Len(net)
        /\ Head(tq) = tq[1] /\ Moved(tq', tq, 1, {}) /\ t # transport
    <2>1. /\ t \in 1..Len(tr) /\ tr[t] \in TransportContext /\ c \in 0..Len(net)
          /\ Head(tq) = tq[1] /\ Moved(tq', tq, 1, {})
          /\ TqBlock(Head(tq), Len(tr), transport, closed, nextMsg, born, late)
      BY <1>1, <1>2, HeadTq
    <2> QED
      BY <1>1, <1>2, <2>1 DEF TqBlock
  <1>4. y \in TransportContext /\ y.conn = NoConn /\ y.live = tr[t].live
    BY <1>2, <1>3 DEF TransportContext, NoConn
  <1>5. tr' = [tr EXCEPT ![t] = y]
    BY <1>2 DEF RunStop
  <1>6. PICK M : Moved(mq', mq, 0, M) /\ \A e \in M : e = FailedBlock(c)
    <2>1. CASE mq' = mq
      BY <2>1, Still
    <2>2. CASE mq' = Append(mq, FailedBlock(c))
      <3>1. Moved(mq', mq, 0, {} \cup {FailedBlock(c)})
        BY <2>2, Still, MovedAppend
      <3> QED
        BY <3>1
    <2> QED
      BY <1>2, <2>1, <2>2 DEF RunStop, FailedBlock
  <1>7. PICK C : Moved(cq', cq, 0, C)
                 /\ \A e \in C : c # NoConn /\ e = [op |-> "close", c |-> c, t |-> t]
    <2>1. CASE c = NoConn
      <3>1. cq' = cq
        BY <1>2, <2>1 DEF RunStop
      <3> QED
        BY <3>1, Still
    <2>2. CASE c # NoConn
      <3>1. cq' = Append(cq, [op |-> "close", c |-> c, t |-> t])
        BY <1>2, <2>2 DEF RunStop
      <3>2. Moved(cq', cq, 0, {} \cup {[op |-> "close", c |-> c, t |-> t]})
        BY <3>1, Still, MovedAppend
      <3> QED
        BY <2>2, <3>2
    <2> QED
      BY <2>1, <2>2
  <1>8. TrMoves(C) /\ CurrentKept(M)
    <2>1. Len(net') = Len(net)
      BY <1>1
    <2> QED
      BY <1>3, <1>4, <1>5, <2>1, ConnLost DEF CurrentKept
  <1>9. CqPosts(C)
    <2>1. c # NoConn => c \in started \/ StartBefore(cq, c, Len(cq) + 1)
      BY <1>2, <1>3 DEF IndInv, TrOK
    <2>2. c # NoConn => c \in 1..Len(net')
      BY <1>1, <1>3, Numbers DEF NoConn, IndInv
    <2> QED
      BY <1>3, <1>7, <2>1, <2>2 DEF CqBlock, CqPosts
  <1>10. MqPosts(M)
    BY <1>6, FailedBlocks DEF MqPosts
  <1>11. NetGrows /\ StartTaken(cq, 0, started')
    BY <1>1, Still, Numbers DEF IndInv, ConnsOK, ServerOK, StartTaken, NetGrows
  <1>12. HandedOn(1, 0, C, M)
    BY <1>1, <1>3 DEF Taken, HandedOn
  <1>13. /\ UNCHANGED <<service, sessInfo, transport, late>>
         /\ Moved(tq', tq, 1, {}) /\ Moved(cq', cq, 0, C) /\ Moved(mq', mq, 0, M)
    BY <1>1, <1>3, <1>6, <1>7
  <1> QED
    BY <1>8, <1>9, <1>10, <1>11, <1>12, <1>13, TcpStep

(* tcpConnectionClosed. *)
LEMMA RunClosedInv ==
    ASSUME IndInv, RunClosed
    PROVE  IndInv'
  <1>1. /\ tq # <<>> /\ Head(tq).op = "closed" /\ tq' = Tail(tq)
        /\ UNCHANGED <<service, sessInfo, transport, late, cq, started, closed, net, srv>>
    BY DEF RunClosed, world
  <1>2. PICK t, c, y :
          /\ t = Head(tq).t /\ c = Head(tq).c
          /\ y = [tr[t] EXCEPT !.conn = NoConn, !.open = FALSE, !.want = TRUE, !.ping = TRUE]
    OBVIOUS
  <1>3. /\ t \in 1..Len(tr) /\ tr[t] \in TransportContext
        /\ Head(tq) = tq[1] /\ Moved(tq', tq, 1, {}) /\ c \in closed
    <2>1. /\ t \in 1..Len(tr) /\ tr[t] \in TransportContext
          /\ Head(tq) = tq[1] /\ Moved(tq', tq, 1, {})
          /\ TqBlock(Head(tq), Len(tr), transport, closed, nextMsg, born, late)
      BY <1>1, <1>2, HeadTq
    <2> QED
      BY <1>1, <1>2, <2>1 DEF TqBlock
  <1>4. \A r \in Request : ~Taken(tq, 1, "send", r) /\ ~Taken(cq, 0, "write", r)
    BY <1>1, <1>3 DEF Taken
  <1>5. CASE tr[t].conn # c
    <2>1. tr' = tr /\ mq' = mq
      BY <1>2, <1>5 DEF RunClosed
    <2>2. ConnsKept
      BY <2>1, ConnsKeptBy
    <2>3. /\ Moved(cq', cq, 0, {}) /\ Moved(mq', mq, 0, {}) /\ IsQueue(net') /\ ServerOK'
          /\ SentNames({}, transport, ConnOf(tr, transport)) /\ Len(net') = Len(net)
      BY <1>1, <2>1, Still DEF ServerOK
    <2> QED
      BY <1>1, <1>3, <1>4, <2>2, <2>3, QuietTcpStep
  <1>6. CASE tr[t].conn = c
    <2>1. y \in TransportContext /\ y.conn = NoConn /\ y.live = tr[t].live
      BY <1>2, <1>3 DEF TransportContext, NoConn
    <2>2. /\ tr' = [tr EXCEPT ![t] = y]
          /\ mq' = IF tr[t].live THEN Append(mq, FailedBlock(c)) ELSE mq
      BY <1>2, <1>6 DEF RunClosed, FailedBlock
    <2>3. PICK M : /\ Moved(mq', mq, 0, M) /\ \A e \in M : e = FailedBlock(c)
                   /\ tr[t].live => FailedBlock(c) \in M
      <3>1. CASE ~tr[t].live
        <4>1. mq' = mq
          BY <2>2, <3>1
        <4> QED
          BY <3>1, <4>1, Still
      <3>2. CASE tr[t].live
        <4>1. Moved(mq', mq, 0, {} \cup {FailedBlock(c)})
          BY <2>2, <3>2, Still, MovedAppend
        <4> QED
          BY <4>1
      <3> QED
        BY <3>1, <3>2
    <2>4. /\ TrMoves({})
          /\ t # transport => ConnOf(tr', transport) = ConnOf(tr, transport)
          /\ t = transport => ConnOf(tr, transport) = tr[t].conn
      <3>1. Len(net') = Len(net)
        BY <1>1
      <3> QED
        BY <1>3, <2>1, <2>2, <3>1, ConnLost
    <2>5. CurrentKept(M)
      <3>1. t = transport => tr[t].live
        BY <1>3, Numbers DEF IndInv, TrOK, NoTransport
      <3> QED
        BY <1>1, <1>3, <1>6, <2>3, <2>4, <3>1 DEF CurrentKept
    <2>6. MqPosts(M) /\ CqPosts({})
      BY <2>3, FailedBlocks DEF MqPosts, CqPosts
    <2>7. NetGrows /\ StartTaken(cq, 0, started') /\ HandedOn(1, 0, {}, M)
      BY <1>1, <1>4, Still, Numbers
         DEF IndInv, ConnsOK, ServerOK, StartTaken, NetGrows, HandedOn
    <2>8. /\ UNCHANGED <<service, sessInfo, transport, late>>
          /\ Moved(tq', tq, 1, {}) /\ Moved(cq', cq, 0, {}) /\ Moved(mq', mq, 0, M)
      BY <1>1, <1>3, <2>3, Still
    <2> QED
      BY <2>4, <2>5, <2>6, <2>7, <2>8, TcpStep
  <1> QED
    BY <1>5, <1>6

(* tcpConnectionBehaviourRequestsReconnection. *)
LEMMA ConnectInv ==
    ASSUME IndInv, NEW t \in DOMAIN tr, Connect(t)
    PROVE  IndInv'
  <1>1. /\ tr[t].conn = NoConn /\ net' = Append(net, <<>>)
        /\ UNCHANGED <<service, sessInfo, transport, late, tq, mq, started, closed, srv>>
    BY DEF Connect, proto
  <1>2. PICK c, y : /\ c = Len(net) + 1
                    /\ y = [tr[t] EXCEPT !.conn = c, !.open = FALSE, !.want = FALSE]
    OBVIOUS
  <1>3. PICK e, C : e = [op |-> "start", c |-> c, t |-> t] /\ C = {e}
    OBVIOUS
  <1>4. tr' = [tr EXCEPT ![t] = y] /\ cq' = Append(cq, e)
    BY <1>2, <1>3 DEF Connect
  <1>5. /\ Len(tr) \in Nat /\ Len(net) \in Nat /\ t \in 1..Len(tr) /\ tr[t] \in TransportContext
        /\ tr \in Seq(TransportContext) /\ transport \in 0..Len(tr)
    BY Numbers DEF IndInv, Basics
  <1>6. IsQueue(net') /\ Len(net') = Len(net) + 1
    <2>1. PICK S : net \in Seq(S)
      BY DEF IndInv, Basics, IsQueue
    <2>2. net \in Seq(S \cup {<<>>}) /\ <<>> \in S \cup {<<>>}
      BY <2>1
    <2>3. net' \in Seq(S \cup {<<>>}) /\ Len(net') = Len(net) + 1
      BY <1>1, <2>2, AppendProperties
    <2> QED
      BY <2>3 DEF IsQueue
  <1>7. y \in TransportContext /\ y.conn = c /\ y.live = tr[t].live
    <2>1. c \in Nat
      BY <1>2, <1>5
    <2> HIDE <1>1
    <2> QED
      BY <1>2, <1>5, <2>1 DEF TransportContext
  <1>8. /\ tr' \in Seq(TransportContext) /\ Len(tr') = Len(tr) /\ tr'[t] = y
        /\ \A u \in 1..Len(tr) : u # t => tr'[u] = tr[u]
    BY <1>4, <1>5, <1>7, TrUpdate
  <1>9. Moved(cq', cq, 0, C)
    <2>1. Moved(cq', cq, 0, {} \cup {e})
      BY <1>4, Still, MovedAppend
    <2>2. {} \cup {e} = C
      BY <1>3
    <2> QED
      BY <2>1, <2>2
  <1>10. Starts(C, c)
    BY <1>3 DEF Starts
  <1>11. \A u \in 1..Len(tr) : tr[u].conn \in 0..Len(net)
    BY DEF IndInv, ConnsOK
  <1>12. TrMoves(C)
    <2>1. c \in 0..Len(net') /\ \A u \in 1..Len(tr) : tr[u].conn \in 0..Len(net')
      BY <1>2, <1>5, <1>6, <1>11
    <2> QED
      BY <1>7, <1>8, <1>10, <2>1 DEF ConnStep, TrMoves
  <1>13. CurrentKept({})
    BY <1>1, <1>5, <1>8 DEF ConnOf, NoTransport, CurrentKept
  <1>14. CqPosts(C) /\ MqPosts({})
    BY <1>2, <1>3, <1>5, <1>6 DEF CqBlock, CqPosts, MqPosts, SentNames
  <1>15. NetGrows /\ StartTaken(cq, 0, started') /\ HandedOn(0, 0, C, {})
    BY <1>1, <1>5, <1>6, Still
       DEF IndInv, ConnsOK, ServerOK, StartTaken, NetGrows, HandedOn
  <1>16. /\ UNCHANGED <<service, sessInfo, transport, late>>
         /\ Moved(tq', tq, 0, {}) /\ Moved(mq', mq, 0, {})
    BY <1>1, Still
  <1> QED
    BY <1>9, <1>12, <1>13, <1>14, <1>15, <1>16, TcpStep

-----------------------------------------------------------------------------
(*                           The request service                           *)

(* A set of numbers has a least one. *)
Less == {ss \in Nat \X Nat : ss[1] < ss[2]}

LEMMA LessIsWellFounded == IsWellFoundedOn(Less, Nat)
  BY NatLessThanWellFounded, Zenon DEF OpToRel, Less

LEMMA MinIs ==
    ASSUME NEW S, S \subseteq Nat, S # {}
    PROVE  Min(S) \in S /\ \A y \in S : Min(S) <= y
  <1>1. PICK x \in S : \A y \in S : ~(<<y, x>> \in Less)
    BY LessIsWellFounded, WFMin
  <1>2. ASSUME NEW y \in S
        PROVE  x <= y
    <2>1. x \in Nat /\ y \in Nat
      OBVIOUS
    <2>2. PICK p : p = <<y, x>>
      OBVIOUS
    <2>3. p \in Nat \X Nat /\ p[1] = y /\ p[2] = x /\ p \notin Less
      BY <1>1, <2>1, <2>2
    <2>4. ~(p[1] < p[2])
      BY <2>3 DEF Less
    <2> QED
      BY <2>1, <2>3, <2>4
  <1> QED
    BY <1>2 DEF Min

(* The larger of two numbers is one of them. *)
LEMMA MaxOfTwo ==
    ASSUME NEW a \in Nat, NEW b \in Nat
    PROVE  Max({a, b}) \in {a, b}
  <1>1. \E x \in {a, b} : \A y \in {a, b} : x >= y
    <2>1. CASE a >= b
      BY <2>1
    <2>2. CASE b >= a
      BY <2>2
    <2> QED
      BY <2>1, <2>2
  <1> QED
    BY <1>1 DEF Max

LEMMA WaitIsNat == Wait \subseteq Nat /\ 0 \in Wait /\ WaitSeconds \subseteq Wait
  BY RequestAssumption DEF Wait

(* Where a request is. *)
LEMMA PlaceOf ==
    ASSUME ListOK, NEW r \in Queued
    PROVE  r \in Request /\ Place(r) \in 1..Len(requests) /\ requests[Place(r)] = r
  <1>1. requests \in Seq(Request) /\ DOMAIN requests = 1..Len(requests)
    BY LenProperties DEF ListOK
  <1>2. PICK i \in 1..Len(requests) : requests[i] = r
    BY <1>1 DEF Queued, ToSet
  <1>3. Place(r) \in 1..Len(requests) /\ requests[Place(r)] = r
    BY <1>1, <1>2 DEF Place
  <1>4. r \in Request
    BY <1>1, <1>2, ElementOfSeq
  <1> QED
    BY <1>3, <1>4

LEMMA QueuedAre ==
    ASSUME ListOK
    PROVE  Queued \subseteq Request
  BY PlaceOf

(* A request leaves the list. *)
LEMMA ListWithout ==
    ASSUME ListOK, NEW r \in Queued
    PROVE  LET q == RemoveAt(requests, Place(r))
           IN  q \in Seq(Request) /\ IsInjective(q) /\ ToSet(q) = Queued \ {r}
  <1>1. PICK k : k = Place(r)
    OBVIOUS
  <1>2. k \in 1..Len(requests) /\ requests[k] = r
    BY <1>1, PlaceOf
  <1>3. requests \in Seq(Request) /\ IsInjective(requests)
    BY DEF ListOK
  <1>4. /\ RemoveAt(requests, k) \in Seq(Request) /\ IsInjective(RemoveAt(requests, k))
        /\ ToSet(RemoveAt(requests, k)) = ToSet(requests) \ {r}
    BY <1>2, <1>3, RemoveAtKeeps
  <1> QED
    BY <1>1, <1>4 DEF Queued

Errors == [Request -> [on : BOOLEAN, wait : Wait, token : BOOLEAN]]

(* updateRequestsTimer. *)
LEMMA TimerForIs ==
    ASSUME NEW q, ToSet(q) \subseteq Request, NEW c, NEW e \in Errors
    PROVE  TimerFor(q, c, e) \in Wait \cup {NoTimer}
  <1> DEFINE waits == {e[r].wait : r \in Retrying(q, c, e)} \ {0}
  <1>1. waits \subseteq Wait
    BY DEF Retrying, Errors
  <1>2. waits # {} => Min(waits) \in waits
    BY <1>1, WaitIsNat, MinIs
  <1>3. TimerFor(q, c, e) = IF waits = {} THEN NoTimer ELSE Min(waits)
    BY DEF TimerFor
  <1> QED
    BY <1>1, <1>2, <1>3

(* The service acts: it may take a block of the manager queue and post the *)
(* blocks in E to tcpTransportQueue.                                       *)
RecordsKept(k) ==
    \A r \in Request : ctx'[r].txn # NoConn =>
        \/ <<r, ctx'[r].txn>> \in late'
        \/ ConnOf(tr, transport) = ctx'[r].txn
        \/ FailsAfter(mq, ctx'[r].txn, k)
        \/ ctx'[r].txn = ctx[r].txn /\ (k = 1 => mq[1] # FailedBlock(ctx[r].txn))

WaitsKept(k) ==
    \A r \in Request : ctx'[r].waiting => ctx[r].waiting /\ ~Taken(mq, k, "sent", r)

LEMMA ServiceStep ==
    ASSUME IndInv, UNCHANGED <<born, nextMsg, transport, tr, cq, started, closed, net>>,
           late \subseteq late', NEW k \in {0, 1}, Moved(mq', mq, k, {}),
           NEW E, Moved(tq', tq, 0, E),
           \A e \in E : TqBlock(e, Len(tr), transport, closed, nextMsg, born, late'),
           ListOK', CtxOK', ErrOK', DropsOK', Ids', Unqueued', ServerOK',
           RecordsKept(k), WaitsKept(k)
    PROVE  IndInv'
  <1>1. /\ born' = born /\ nextMsg' = nextMsg /\ transport' = transport /\ tr' = tr /\ cq' = cq
        /\ started' = started /\ closed' = closed /\ net' = net
    OBVIOUS
  <1>2. /\ ConnsOK /\ Basics /\ TqOK /\ CqOK /\ MqOK /\ TrOK /\ Recorded /\ Waits
    BY DEF IndInv
  <1>3. /\ Len(tr) \in Nat /\ Len(net) \in Nat /\ Len(mq) \in Nat /\ nextMsg \in Nat
    BY <1>2, Numbers
  <1>4. Basics'
    BY <1>1, <1>2 DEF Basics, Moved
  <1>5. Grows
    BY <1>1, <1>3 DEF Grows
  <1>6. ConnsOK' /\ TrOK'
    BY <1>1, <1>2 DEF ConnsOK, TrOK
  <1>7. TqOK'
    <2>1. \A e \in E : TqBlock(e, Len(tr'), transport', closed', nextMsg', born', late')
      BY <1>1
    <2> QED
      BY <1>2, <1>4, <1>5, <2>1, TqStep
  <1>8. Moved(cq', cq, 0, {}) /\ StartTaken(cq, 0, started')
    BY <1>1, Still DEF StartTaken
  <1>9. CqOK'
    BY <1>1, <1>2, <1>4, <1>5, <1>8, CqStep
  <1>10. Stays(ConnOf(tr, transport), ConnOf(tr', transport'), {})
    BY <1>1 DEF Stays
  <1>11. MqOK'
    <2>1. SentNames({}, transport', ConnOf(tr', transport'))
      BY DEF SentNames
    <2> QED
      BY <1>2, <1>4, <1>5, <1>10, <2>1, MqStep
  <1>12. Recorded'
    <2>1. \A r \in Request : ctx'[r].txn # NoConn =>
             \/ <<r, ctx'[r].txn>> \in late'
             \/ ConnOf(tr', transport') = ctx'[r].txn
             \/ FailsAfter(mq, ctx'[r].txn, k)
             \/ /\ ctx'[r].txn = ctx[r].txn
                /\ Stays(ConnOf(tr, transport), ConnOf(tr', transport'), {})
                /\ k = 1 => mq[1] # FailedBlock(ctx[r].txn)
      BY <1>1, <1>10 DEF RecordsKept
    <2> QED
      BY <1>2, <1>3, <1>5, <2>1, RecordedStep
  <1>13. Waits'
    <2>1. ASSUME NEW r \in Request, ctx'[r].waiting
          PROVE  /\ ctx[r].waiting /\ ~Taken(tq, 0, "send", r)
                 /\ ~Taken(cq, 0, "write", r) /\ ~Taken(mq, k, "sent", r)
      BY <2>1, Still DEF WaitsKept
    <2> QED
      BY <1>2, <1>8, <2>1, WaitsStep
  <1> QED
    BY <1>4, <1>6, <1>7, <1>9, <1>11, <1>12, <1>13 DEF IndInv

(* The contexts only lose: a request forgets everything, or its connection *)
(* or that it waits.                                                       *)
Weaker ==
    /\ ctx' \in [Request -> Context]
    /\ \A r \in Request :
         \/ ctx'[r] = NoCtx
         \/ /\ ctx[r] # NoCtx /\ ctx'[r].msg = ctx[r].msg
            /\ ctx'[r].txn \in {ctx[r].txn, NoConn}
            /\ ctx'[r].waiting => ctx[r].waiting

LEMMA NoCtxIs ==
    /\ NoCtx \in Context /\ NoCtx.msg = 0 /\ NoCtx.txn = NoConn /\ ~NoCtx.waiting
  BY DEF NoCtx, Context, NoConn

LEMMA WeakerKeeps ==
    ASSUME IndInv, Weaker, UNCHANGED <<born, nextMsg>>, Len(net') = Len(net), late \subseteq late'
    PROVE  /\ CtxOK'
           /\ \A r \in Request : ctx'[r] # NoCtx =>
                ctx'[r].msg >= born' \/ \E x \in late' : x[1] = r
           /\ \A r \in Request : ctx'[r].txn # NoConn => ctx'[r].txn = ctx[r].txn
           /\ \A r \in Request : ctx'[r].waiting => ctx[r].waiting
  <1>1. CtxOK /\ Ids /\ nextMsg \in Nat /\ Len(net) \in Nat /\ born \in 1..nextMsg
    BY Numbers DEF IndInv, Basics
  <1>2. ASSUME NEW r \in Request
        PROVE  /\ ctx'[r].msg = 0 => ctx'[r] = NoCtx
               /\ ctx'[r].msg < nextMsg /\ ctx'[r].txn <= Len(net)
               /\ ctx'[r] # NoCtx => ctx'[r].msg >= born \/ \E x \in late : x[1] = r
               /\ ctx'[r].txn # NoConn => ctx'[r].txn = ctx[r].txn
               /\ ctx'[r].waiting => ctx[r].waiting
    <2>1. CASE ctx'[r] = NoCtx
      BY <1>1, <2>1, NoCtxIs DEF NoConn
    <2>2. CASE /\ ctx[r] # NoCtx /\ ctx'[r].msg = ctx[r].msg
               /\ ctx'[r].txn \in {ctx[r].txn, NoConn}
               /\ ctx'[r].waiting => ctx[r].waiting
      BY <1>1, <2>2 DEF CtxOK, Ids, NoConn
    <2> QED
      BY <2>1, <2>2 DEF Weaker
  <1> QED
    BY <1>2 DEF CtxOK, Weaker

LEMMA WeakerStep ==
    ASSUME IndInv, UNCHANGED <<born, nextMsg, transport, tr, cq, started, closed, net, late>>,
           NEW k \in {0, 1}, Moved(mq', mq, k, {}), k = 1 => mq[1].op \notin {"sent", "failed"},
           NEW E, Moved(tq', tq, 0, E),
           \A e \in E : TqBlock(e, Len(tr), transport, closed, nextMsg, born, late),
           ListOK', ErrOK', DropsOK', late = {} => \A d \in drops' : d.of >= born,
           Weaker, Unqueued', ServerOK'
    PROVE  IndInv'
  <1>1. /\ born' = born /\ late' = late /\ late \subseteq late' /\ Len(net') = Len(net)
        /\ UNCHANGED <<born, nextMsg>>
    OBVIOUS
  <1>2. /\ CtxOK'
        /\ \A r \in Request : ctx'[r] # NoCtx =>
             ctx'[r].msg >= born' \/ \E x \in late' : x[1] = r
        /\ \A r \in Request : ctx'[r].txn # NoConn => ctx'[r].txn = ctx[r].txn
        /\ \A r \in Request : ctx'[r].waiting => ctx[r].waiting
    BY <1>1, WeakerKeeps
  <1>3. Ids'
    BY <1>1, <1>2 DEF Ids
  <1>4. RecordsKept(k)
    BY <1>2 DEF RecordsKept, FailedBlock
  <1>5. WaitsKept(k)
    BY <1>2 DEF WaitsKept, Taken
  <1>6. \A e \in E : TqBlock(e, Len(tr), transport, closed, nextMsg, born, late')
    BY <1>1
  <1>7. UNCHANGED <<born, nextMsg, transport, tr, cq, started, closed, net>>
    OBVIOUS
  <1> QED
    BY <1>1, <1>2, <1>3, <1>4, <1>5, <1>6, <1>7, ServiceStep

LEMMA WaitDown ==
    ASSUME NEW n \in Wait
    PROVE  n > 0 => n - 1 \in Wait
  <1> SUFFICES ASSUME n > 0
               PROVE  n - 1 \in Wait
    OBVIOUS
  <1>1. PICK w \in WaitSeconds : n \in 1..w
    BY DEF Wait
  <1>2. w \in Nat /\ (n - 1 = 0 \/ n - 1 \in 1..w)
    BY <1>1, RequestAssumption
  <1> QED
    BY <1>1, <1>2 DEF Wait

(* Neither the list nor a context changes. *)
LEMMA PlainStep ==
    ASSUME IndInv, UNCHANGED <<requests, finished, ctx, drops, born, nextMsg, transport, mq, tcp,
                               net, srv, late>>, ErrOK'
    PROVE  IndInv'
  <1>1. /\ UNCHANGED <<born, nextMsg, transport, tr, cq, started, closed, net, late>>
        /\ tq' = tq /\ mq' = mq /\ requests' = requests /\ finished' = finished /\ ctx' = ctx
        /\ drops' = drops /\ srv' = srv /\ nextMsg' = nextMsg
    BY DEF tcp
  <1>2. ListOK /\ CtxOK /\ DropsOK /\ Ids /\ Unqueued /\ ServerOK
    BY DEF IndInv
  <1>3. ListOK' /\ DropsOK' /\ Unqueued' /\ ServerOK'
    BY <1>1, <1>2 DEF ListOK, DropsOK, Unqueued, ServerOK, Queued
  <1>4. Weaker
    BY <1>1, <1>2 DEF Weaker, CtxOK
  <1>5. late = {} => \A d \in drops' : d.of >= born
    BY <1>1, <1>2 DEF Ids
  <1>6. Moved(mq', mq, 0, {}) /\ Moved(tq', tq, 0, {})
    BY <1>1, Still
  <1>7. UNCHANGED <<born, nextMsg, transport, tr, cq, started, closed, net, late>>
    BY <1>1
  <1> QED
    BY <1>3, <1>4, <1>5, <1>6, <1>7, WeakerStep

LEMMA RequestTimerEventInv ==
    ASSUME IndInv, RequestTimerEvent
    PROVE  IndInv'
  <1>1. UNCHANGED <<requests, finished, ctx, drops, born, nextMsg, transport, mq, tcp, net, srv,
                    late>>
    BY DEF RequestTimerEvent, sessInfo, world
  <1>2. ErrOK'
    BY DEF RequestTimerEvent, IndInv, ErrOK
  <1> QED
    BY <1>1, <1>2, PlainStep

LEMMA TickInv ==
    ASSUME IndInv, Tick
    PROVE  IndInv'
  <1>1. UNCHANGED <<requests, finished, ctx, drops, born, nextMsg, transport, mq, tcp, net, srv,
                    late>>
    BY DEF Tick, proto, sessInfo, world
  <1>2. err \in Errors /\ timer \in Wait \cup {NoTimer}
    BY DEF IndInv, ErrOK, Errors
  <1>3. timer' \in Wait \cup {NoTimer}
    <2>1. timer > 0 => timer - 1 \in Wait
      BY <1>2, WaitDown DEF NoTimer
    <2> QED
      BY <1>2, <2>1 DEF Tick
  <1>4. err' \in Errors
    <2> DEFINE down(n) == IF n > 0 THEN n - 1 ELSE n
    <2>1. err' = [r \in Request |-> [err[r] EXCEPT !.wait = down(@)]]
      BY DEF Tick
    <2>2. ASSUME NEW r \in Request
          PROVE  [err[r] EXCEPT !.wait = down(@)] \in [on : BOOLEAN, wait : Wait, token : BOOLEAN]
      <3>1. err[r] \in [on : BOOLEAN, wait : Wait, token : BOOLEAN]
        BY <1>2 DEF Errors
      <3>2. down(err[r].wait) \in Wait
        BY <3>1, WaitDown
      <3> QED
        BY <3>1, <3>2
    <2> QED
      BY <2>1, <2>2 DEF Errors
  <1> QED
    BY <1>1, <1>3, <1>4, PlainStep DEF ErrOK, Errors

LEMMA AuthTokenUpdatedInv ==
    ASSUME IndInv, AuthTokenUpdated
    PROVE  IndInv'
  <1>1. UNCHANGED <<requests, finished, ctx, drops, born, nextMsg, transport, mq, tcp, net, srv,
                    late>>
    BY DEF AuthTokenUpdated, sessInfo, world
  <1>2. ErrOK'
    BY DEF AuthTokenUpdated, IndInv, ErrOK
  <1> QED
    BY <1>1, <1>2, PlainStep

LEMMA PasswordEnteredInv ==
    ASSUME IndInv, PasswordEntered
    PROVE  IndInv'
  <1>1. UNCHANGED <<requests, finished, ctx, drops, born, nextMsg, transport, mq, tcp, net, srv,
                    late>>
    BY DEF PasswordEntered, service, sessInfo, world
  <1>2. ErrOK'
    BY DEF PasswordEntered, service, IndInv, ErrOK
  <1> QED
    BY <1>1, <1>2, PlainStep

LEMMA CompleteTimeSyncInv ==
    ASSUME IndInv, CompleteTimeSync
    PROVE  IndInv'
  <1>1. UNCHANGED <<requests, finished, ctx, drops, born, nextMsg, transport, mq, tcp, net, srv,
                    late>>
    BY DEF CompleteTimeSync, service, sessInfo, world
  <1>2. ErrOK'
    BY DEF CompleteTimeSync, service, IndInv, ErrOK
  <1> QED
    BY <1>1, <1>2, PlainStep

LEMMA AddRequestInv ==
    ASSUME IndInv, NEW r \in Request, AddRequest(r)
    PROVE  IndInv'
  <1>1. /\ UNCHANGED <<born, nextMsg, transport, tr, cq, started, closed, net, late>>
        /\ tq' = tq /\ mq' = mq /\ finished' = finished /\ ctx' = ctx /\ err' = err
        /\ timer' = timer /\ drops' = drops /\ srv' = srv /\ nextMsg' = nextMsg
        /\ r \notin Queued /\ r \notin finished /\ requests' = Append(requests, r)
    BY DEF AddRequest, tcp, sessInfo, world
  <1>2. ListOK /\ CtxOK /\ ErrOK /\ DropsOK /\ Ids /\ Unqueued /\ ServerOK
    BY DEF IndInv
  <1>3. /\ requests' \in Seq(Request) /\ IsInjective(requests')
        /\ ToSet(requests') = Queued \cup {r}
    <2>1. requests \in Seq(Request) /\ IsInjective(requests) /\ r \notin ToSet(requests)
      BY <1>1, <1>2 DEF ListOK, Queued
    <2> QED
      BY <1>1, <2>1, AppendKept DEF Queued
  <1>4. ListOK'
    BY <1>1, <1>2, <1>3 DEF ListOK, Queued
  <1>5. ErrOK' /\ DropsOK' /\ ServerOK'
    BY <1>1, <1>2 DEF ErrOK, DropsOK, ServerOK
  <1>6. Unqueued'
    BY <1>1, <1>2, <1>3 DEF Unqueued, Queued
  <1>7. Weaker
    BY <1>1, <1>2 DEF Weaker, CtxOK
  <1>8. late = {} => \A d \in drops' : d.of >= born
    BY <1>1, <1>2 DEF Ids
  <1>9. Moved(mq', mq, 0, {}) /\ Moved(tq', tq, 0, {})
    BY <1>1, Still
  <1>10. UNCHANGED <<born, nextMsg, transport, tr, cq, started, closed, net, late>>
    BY <1>1
  <1> QED
    BY <1>4, <1>5, <1>6, <1>7, <1>8, <1>9, <1>10, WeakerStep

(* removeRequestByInternalId. *)
LEMMA RemoveRequestInv ==
    ASSUME IndInv, NEW r \in Request, NEW reconnect \in BOOLEAN, RemoveRequest(r, reconnect)
    PROVE  IndInv'
  <1>1. /\ UNCHANGED <<born, nextMsg, transport, tr, cq, started, closed, net, late>>
        /\ mq' = mq /\ srv' = srv /\ nextMsg' = nextMsg /\ r \in Queued
        /\ requests' = RemoveAt(requests, Place(r)) /\ finished' = finished \cup {r}
        /\ ctx' = [ctx EXCEPT ![r] = NoCtx] /\ err' = [err EXCEPT ![r] = NoError]
    BY DEF RemoveRequest, sessInfo
  <1>2. /\ ListOK /\ CtxOK /\ ErrOK /\ DropsOK /\ Ids /\ Unqueued /\ ServerOK
        /\ transport \in 0..Len(tr) /\ nextMsg \in Nat /\ Len(tr) \in Nat
    BY Numbers DEF IndInv, Basics
  <1>3. /\ requests' \in Seq(Request) /\ IsInjective(requests')
        /\ ToSet(requests') = Queued \ {r}
    BY <1>1, <1>2, ListWithout
  <1>4. ListOK'
    BY <1>1, <1>2, <1>3 DEF ListOK, Queued
  <1>5. Unqueued'
    BY <1>1, <1>2, <1>3 DEF Unqueued, Queued, CtxOK
  <1>6. Weaker
    <2>1. ctx \in [Request -> Context] /\ NoCtx \in Context
      BY <1>2, NoCtxIs DEF CtxOK
    <2> QED
      BY <1>1, <2>1 DEF Weaker
  <1>7. ErrOK'
    <2>1. err \in Errors /\ ToSet(requests') \subseteq Request
      BY <1>2, <1>3, QueuedAre DEF ErrOK, Errors
    <2>2. timer' = TimerFor(requests', ctx', err)
      BY <1>1 DEF RemoveRequest
    <2>3. timer' \in Wait \cup {NoTimer}
      BY <2>1, <2>2, TimerForIs
    <2>4. NoError \in [on : BOOLEAN, wait : Wait, token : BOOLEAN]
      BY WaitIsNat DEF NoError
    <2>5. err' \in Errors
      BY <1>1, <2>1, <2>4 DEF Errors
    <2> QED
      BY <2>3, <2>5 DEF ErrOK, Errors
  <1>8. DropsOK' /\ (late = {} => \A d \in drops' : d.of >= born)
    <2>1. CASE drops' = drops
      BY <1>1, <1>2, <2>1 DEF DropsOK, Ids
    <2>2. CASE ctx[r] # NoCtx /\ drops' = drops \cup {[of |-> ctx[r].msg, id |-> 0]}
      <3>1. ctx[r].msg \in 1..(nextMsg - 1) /\ (late = {} => ctx[r].msg >= born)
        BY <1>2, <2>2 DEF CtxOK, Context, Ids
      <3>2. PICK d : d = [of |-> ctx[r].msg, id |-> 0]
        OBVIOUS
      <3>3. d \in [of : 1..(nextMsg - 1), id : 0..(nextMsg - 1)] /\ (late = {} => d.of >= born)
        BY <1>2, <3>1, <3>2
      <3>4. drops' = drops \cup {d}
        BY <2>2, <3>2
      <3>5. IsFiniteSet(drops')
        BY <1>2, <3>4, FS_AddElement DEF DropsOK
      <3> QED
        BY <1>1, <1>2, <3>3, <3>4, <3>5 DEF DropsOK, Ids
    <2> QED
      BY <2>1, <2>2 DEF RemoveRequest
  <1>9. PICK E : /\ Moved(tq', tq, 0, E)
                 /\ \A e \in E : TqBlock(e, Len(tr), transport, closed, nextMsg, born, late)
    <2>1. CASE tq' = tq
      BY <2>1, Still
    <2>2. CASE transport # NoTransport /\ tq' = Append(tq, [op |-> "reset", t |-> transport])
      <3>1. Moved(tq', tq, 0, {} \cup {[op |-> "reset", t |-> transport]})
        BY <2>2, Still, MovedAppend
      <3>2. TqBlock([op |-> "reset", t |-> transport], Len(tr), transport, closed, nextMsg, born,
                    late)
        BY <1>2, <2>2 DEF TqBlock, NoTransport
      <3> QED
        BY <3>1, <3>2
    <2> QED
      BY <2>1, <2>2 DEF RemoveRequest
  <1>10. /\ UNCHANGED <<born, nextMsg, transport, tr, cq, started, closed, net, late>>
         /\ Moved(mq', mq, 0, {}) /\ ServerOK'
    BY <1>1, <1>2, Still DEF ServerOK
  <1> QED
    BY <1>4, <1>5, <1>6, <1>7, <1>8, <1>9, <1>10, WeakerStep

-----------------------------------------------------------------------------
(*                            The manager queue                            *)

LEMMA HeadMq ==
    ASSUME IndInv, mq # <<>>
    PROVE  /\ Head(mq) = mq[1] /\ Moved(Tail(mq), mq, 1, {})
           /\ MqBlock(Head(mq), Len(tr), Len(net), transport, nextMsg, born, late)
           /\ (Head(mq).op = "sent" /\ Head(mq).ok) /\ Head(mq).t = transport =>
                Head(mq).c = ConnOf(tr, transport) \/ FailsAfter(mq, Head(mq).c, 1)
  <1>1. /\ Head(mq) = mq[1] /\ Moved(Tail(mq), mq, 1, {}) /\ 1 \in 1..Len(mq)
    BY MovedTail DEF IndInv, Basics
  <1>2. MqBlock(mq[1], Len(tr), Len(net), transport, nextMsg, born, late)
    BY <1>1 DEF IndInv, MqOK
  <1>3. (mq[1].op = "sent" /\ mq[1].ok) /\ mq[1].t = transport =>
          mq[1].c = ConnOf(tr, transport) \/ FailsAfter(mq, mq[1].c, 1)
    BY <1>1 DEF IndInv, MqOK, SentOK
  <1> QED
    BY <1>1, <1>2, <1>3

(* transportTransactionsMayHaveFailed. *)
LEMMA RunFailedInv ==
    ASSUME IndInv, RunFailed
    PROVE  IndInv'
  <1>1. /\ UNCHANGED <<born, nextMsg, transport, tr, cq, started, closed, net>>
        /\ mq # <<>> /\ Head(mq).op = "failed" /\ mq' = Tail(mq) /\ tq' = tq
        /\ requests' = requests /\ finished' = finished /\ err' = err /\ timer' = timer
        /\ drops' = drops /\ srv' = srv /\ nextMsg' = nextMsg /\ born' = born /\ late' = late
        /\ net' = net
    BY DEF RunFailed, sessInfo, tcp, world
  <1>2. PICK c : c = Head(mq).c
    OBVIOUS
  <1>3. /\ ListOK /\ CtxOK /\ ErrOK /\ DropsOK /\ Ids /\ Unqueued /\ ServerOK
    BY DEF IndInv
  <1>4. Head(mq) = mq[1] /\ Moved(mq', mq, 1, {})
    BY <1>1, HeadMq
  <1>5. ctx' = [r \in Request |-> IF r \in Queued /\ ctx[r].txn = c
                                  THEN [ctx[r] EXCEPT !.txn = NoConn] ELSE ctx[r]]
    BY <1>2 DEF RunFailed, HandleFailed
  <1>6. ASSUME NEW r \in Request
        PROVE  /\ ctx'[r] \in Context
               /\ \/ ctx'[r] = NoCtx
                  \/ /\ ctx[r] # NoCtx /\ ctx'[r].msg = ctx[r].msg
                     /\ ctx'[r].txn \in {ctx[r].txn, NoConn}
                     /\ ctx'[r].waiting => ctx[r].waiting
               /\ ctx'[r].txn # NoConn => ctx[r].txn # c
               /\ ctx[r] = NoCtx => ctx'[r] = NoCtx
    <2>1. ctx[r] \in Context
      BY <1>3 DEF CtxOK
    <2>2. CASE r \in Queued /\ ctx[r].txn = c
      <3>1. ctx'[r] = [ctx[r] EXCEPT !.txn = NoConn]
        BY <1>5, <2>2
      <3>2. /\ ctx'[r] \in Context /\ ctx'[r].msg = ctx[r].msg /\ ctx'[r].txn = NoConn
            /\ ctx'[r].waiting = ctx[r].waiting
        BY <2>1, <3>1 DEF Context, NoConn
      <3>3. ctx[r] = NoCtx => ctx'[r] = NoCtx
        BY <3>1 DEF NoCtx, NoConn
      <3> QED
        BY <3>2, <3>3
    <2>3. CASE ~(r \in Queued /\ ctx[r].txn = c)
      <3>1. ctx'[r] = ctx[r]
        BY <1>5, <2>3
      <3>2. r \notin Queued => ctx[r].txn = NoConn
        BY <1>3, NoCtxIs DEF Unqueued
      <3> QED
        BY <2>1, <2>3, <3>1, <3>2
    <2> QED
      BY <2>2, <2>3
  <1>7. Weaker
    <2>1. ctx' \in [Request -> Context]
      BY <1>5, <1>6
    <2> QED
      BY <1>6, <2>1 DEF Weaker
  <1>8. /\ CtxOK'
        /\ \A r \in Request : ctx'[r] # NoCtx =>
             ctx'[r].msg >= born' \/ \E x \in late' : x[1] = r
        /\ \A r \in Request : ctx'[r].txn # NoConn => ctx'[r].txn = ctx[r].txn
        /\ \A r \in Request : ctx'[r].waiting => ctx[r].waiting
    <2>1. UNCHANGED <<born, nextMsg>> /\ Len(net') = Len(net) /\ late \subseteq late'
      BY <1>1
    <2> QED
      BY <1>7, <2>1, WeakerKeeps
  <1>9. ListOK' /\ ErrOK' /\ DropsOK' /\ ServerOK'
    BY <1>1, <1>3 DEF ListOK, ErrOK, DropsOK, ServerOK, Queued
  <1>10. Unqueued'
    BY <1>1, <1>3, <1>6 DEF Unqueued, Queued
  <1>11. Ids'
    BY <1>1, <1>3, <1>8 DEF Ids
  <1>12. RecordsKept(1)
    <2>1. ASSUME NEW r \in Request, ctx'[r].txn # NoConn
          PROVE  mq[1] # FailedBlock(ctx[r].txn)
      BY <1>2, <1>4, <1>6, <2>1 DEF FailedBlock
    <2> QED
      BY <1>8, <2>1 DEF RecordsKept
  <1>13. WaitsKept(1)
    BY <1>1, <1>4, <1>8 DEF WaitsKept, Taken
  <1>14. Moved(tq', tq, 0, {}) /\ late \subseteq late'
    BY <1>1, Still
  <1>15. UNCHANGED <<born, nextMsg, transport, tr, cq, started, closed, net>>
    BY <1>1
  <1> QED
    BY <1>4, <1>8, <1>9, <1>10, <1>11, <1>12, <1>13, <1>14, <1>15, ServiceStep

(* The contexts that could not be delivered keep the message they stand for. *)
LEMMA DropsMapped ==
    ASSUME DropsOK, NEW D, NEW f, DOMAIN f = drops, D = {f[d] : d \in drops},
           \A d \in drops : /\ f[d] \in [of : 1..(nextMsg - 1), id : 0..(nextMsg - 1)]
                            /\ f[d].of = d.of
    PROVE  /\ IsFiniteSet(D) /\ D \subseteq [of : 1..(nextMsg - 1), id : 0..(nextMsg - 1)]
           /\ \A x \in D : \E d \in drops : x.of = d.of
  <1>1. PICK g : g = [d \in drops |-> f[d]]
    OBVIOUS
  <1>2. g \in [drops -> D] /\ \A x \in D : \E d \in drops : g[d] = x
    BY <1>1
  <1>3. g \in Surjection(drops, D)
    BY <1>2 DEF Surjection
  <1>4. IsFiniteSet(D)
    BY <1>3, FS_Surjection DEF DropsOK
  <1> QED
    BY <1>4

(* The completion a payload calls. *)
LEMMA AfterSendIs ==
    ASSUME IndInv, NEW e, NEW r \in Request, e.op = "sent",
           MqBlock(e, Len(tr), Len(net), transport, nextMsg, born, late)
    PROVE  LET c == AfterSend(e, r)
           IN  /\ c \in Context /\ ~c.waiting /\ c.msg < nextMsg /\ c.txn <= Len(net)
               /\ c.msg = 0 => c = NoCtx
               /\ \/ /\ e.ok /\ SentFor(e, r) # {} /\ c.txn = e.c
                     /\ e.t = transport => c.msg >= born \/ \E x \in late : x[1] = r
                  \/ c.txn = ctx[r].txn /\ c.msg = ctx[r].msg /\ (ctx[r] = NoCtx => c = NoCtx)
  <1>1. CtxOK /\ Ids /\ nextMsg \in Nat /\ Len(net) \in Nat
    BY Numbers DEF IndInv
  <1>2. ctx[r] \in Context /\ ctx[r].msg < nextMsg /\ ctx[r].txn <= Len(net)
        /\ (ctx[r].msg = 0 => ctx[r] = NoCtx)
    BY <1>1 DEF CtxOK
  <1>3. /\ e.ok => e.c \in 1..Len(net)
        /\ Messages(e.msgs, e.t, transport, nextMsg, born, late)
    BY DEF MqBlock
  <1>4. CASE e.ok /\ SentFor(e, r) # {}
    <2>1. PICK m : m = CHOOSE x \in SentFor(e, r) : TRUE
      OBVIOUS
    <2>2. m \in e.msgs /\ m.kind = "req" /\ m.ref = r
      BY <1>4, <2>1 DEF SentFor
    <2>3. /\ m.id \in 1..(nextMsg - 1)
          /\ e.t = transport => m.id >= born \/ \E x \in late : x[1] = r
      BY <1>3, <2>2 DEF Messages
    <2>4. PICK c : c = [msg |-> m.id, txn |-> e.c, waiting |-> FALSE, delivered |-> FALSE]
      OBVIOUS
    <2>5. AfterSend(e, r) = c
      BY <1>4, <2>1, <2>4 DEF AfterSend
    <2>6. /\ c \in Context /\ ~c.waiting /\ c.msg = m.id /\ c.txn = e.c
      BY <1>1, <1>3, <1>4, <2>3, <2>4 DEF Context
    <2>7. c.msg < nextMsg /\ c.txn <= Len(net) /\ c.msg # 0
      BY <1>1, <1>3, <1>4, <2>3, <2>6
    <2> QED
      BY <1>4, <2>3, <2>5, <2>6, <2>7
  <1>5. CASE ~(e.ok /\ SentFor(e, r) # {})
    <2>1. PICK c : c = [ctx[r] EXCEPT !.waiting = FALSE]
      OBVIOUS
    <2>2. AfterSend(e, r) = c
      BY <1>5, <2>1 DEF AfterSend
    <2>3. c \in Context /\ ~c.waiting /\ c.msg = ctx[r].msg /\ c.txn = ctx[r].txn
      BY <1>2, <2>1 DEF Context
    <2>4. ctx[r] = NoCtx => c = NoCtx
      <3>1. [NoCtx EXCEPT !.waiting = FALSE] = NoCtx
        <4>1. DOMAIN NoCtx = {"msg", "txn", "waiting", "delivered"} /\ NoCtx.waiting = FALSE
          BY DEF NoCtx
        <4>2. NoCtx = [i \in DOMAIN NoCtx |-> NoCtx[i]]
          BY DEF NoCtx
        <4> QED
          BY <4>1, <4>2, Zenon
      <3> QED
        BY <2>1, <3>1
    <2> QED
      BY <1>2, <2>2, <2>3, <2>4
  <1> QED
    BY <1>4, <1>5

(* mtProtoMessageTransaction's completion. *)
LEMMA RunSentInv ==
    ASSUME IndInv, RunSent
    PROVE  IndInv'
  <1>1. /\ UNCHANGED <<born, nextMsg, transport, tr, cq, started, closed, net>>
        /\ mq # <<>> /\ Head(mq).op = "sent" /\ mq' = Tail(mq) /\ tq' = tq
        /\ requests' = requests /\ finished' = finished /\ err' = err /\ timer' = timer
        /\ srv' = srv /\ nextMsg' = nextMsg /\ born' = born /\ net' = net
    BY DEF RunSent, sessInfo, tcp
  <1>2. PICK e : e = Head(mq)
    OBVIOUS
  <1>3. /\ ListOK /\ CtxOK /\ ErrOK /\ DropsOK /\ Ids /\ Unqueued /\ ServerOK
        /\ nextMsg \in Nat /\ Len(net) \in Nat
    BY Numbers DEF IndInv
  <1>4. /\ e = mq[1] /\ Moved(mq', mq, 1, {}) /\ e.op = "sent"
        /\ MqBlock(e, Len(tr), Len(net), transport, nextMsg, born, late)
        /\ e.ok /\ e.t = transport => e.c = ConnOf(tr, transport) \/ FailsAfter(mq, e.c, 1)
    BY <1>1, <1>2, HeadMq
  <1>5. /\ ctx' = [r \in Request |-> IF r \in e.batch \cap Queued THEN AfterSend(e, r) ELSE ctx[r]]
        /\ late' = IF e.ok /\ e.t # transport
                   THEN late \cup {<<r, e.c>> : r \in {q \in e.batch \cap Queued :
                                                       SentFor(e, q) # {}}}
                   ELSE late
    BY <1>2 DEF RunSent, HandleSent
  <1>6. /\ late \subseteq late'
        /\ e.ok /\ e.t # transport => \A r \in e.batch \cap Queued :
             SentFor(e, r) # {} => <<r, e.c>> \in late'
    BY <1>5
  <1>7. ASSUME NEW r \in Request
        PROVE  /\ ctx'[r] \in Context /\ ctx'[r].msg < nextMsg /\ ctx'[r].txn <= Len(net)
               /\ ctx'[r].msg = 0 => ctx'[r] = NoCtx
               /\ ctx'[r] # NoCtx => ctx'[r].msg >= born \/ \E x \in late' : x[1] = r
               /\ r \notin Queued => ctx'[r] = NoCtx
               /\ ctx'[r].waiting => ctx[r].waiting /\ ~(r \in e.batch)
               /\ \/ <<r, ctx'[r].txn>> \in late' \/ ConnOf(tr, transport) = ctx'[r].txn
                  \/ FailsAfter(mq, ctx'[r].txn, 1) \/ ctx'[r].txn = ctx[r].txn
    <2>1. CASE r \in e.batch \cap Queued
      <3>1. PICK c : c = AfterSend(e, r)
        OBVIOUS
      <3>2. ctx'[r] = c
        BY <1>5, <2>1, <3>1
      <3>3. /\ c \in Context /\ ~c.waiting /\ c.msg < nextMsg /\ c.txn <= Len(net)
            /\ c.msg = 0 => c = NoCtx
            /\ \/ /\ e.ok /\ SentFor(e, r) # {} /\ c.txn = e.c
                  /\ e.t = transport => c.msg >= born \/ \E x \in late : x[1] = r
               \/ c.txn = ctx[r].txn /\ c.msg = ctx[r].msg /\ (ctx[r] = NoCtx => c = NoCtx)
        BY <1>4, <3>1, AfterSendIs
      <3>4. CASE /\ e.ok /\ SentFor(e, r) # {} /\ c.txn = e.c
                 /\ e.t = transport => c.msg >= born \/ \E x \in late : x[1] = r
        <4>1. CASE e.t = transport
          BY <1>4, <1>6, <2>1, <3>2, <3>3, <3>4, <4>1
        <4>2. CASE e.t # transport
          <5>1. PICK x : x = <<r, e.c>> /\ x \in late'
            BY <1>6, <2>1, <3>4, <4>2
          <5>2. x[1] = r
            BY <5>1
          <5> QED
            BY <2>1, <3>2, <3>3, <3>4, <5>1, <5>2
        <4> QED
          BY <4>1, <4>2
      <3>5. CASE c.txn = ctx[r].txn /\ c.msg = ctx[r].msg /\ (ctx[r] = NoCtx => c = NoCtx)
        <4>1. ctx[r] # NoCtx => ctx[r].msg >= born \/ \E x \in late : x[1] = r
          BY <1>3 DEF Ids
        <4> QED
          BY <1>6, <2>1, <3>2, <3>3, <3>5, <4>1
      <3> QED
        BY <3>3, <3>4, <3>5
    <2>2. CASE r \notin e.batch \cap Queued
      <3>1. ctx'[r] = ctx[r]
        BY <1>5, <2>2
      <3>2. /\ ctx[r] \in Context /\ ctx[r].msg < nextMsg /\ ctx[r].txn <= Len(net)
            /\ ctx[r].msg = 0 => ctx[r] = NoCtx
        BY <1>3 DEF CtxOK
      <3>3. ctx[r] # NoCtx => ctx[r].msg >= born \/ \E x \in late : x[1] = r
        BY <1>3 DEF Ids
      <3>4. r \notin Queued => ctx[r] = NoCtx /\ ~ctx[r].waiting
        BY <1>3, NoCtxIs DEF Unqueued
      <3> QED
        BY <1>6, <2>2, <3>1, <3>2, <3>3, <3>4
    <2> QED
      BY <2>1, <2>2
  <1>8. CtxOK'
    <2>1. ctx' \in [Request -> Context]
      BY <1>5, <1>7
    <2> QED
      BY <1>1, <1>7, <2>1 DEF CtxOK
  <1>9. ListOK' /\ ErrOK' /\ ServerOK'
    BY <1>1, <1>3 DEF ListOK, ErrOK, ServerOK, Queued
  <1>10. Unqueued'
    BY <1>1, <1>7 DEF Unqueued, Queued
  <1>11. DropsOK' /\ \A x \in drops' : \E d \in drops : x.of = d.of
    <2> DEFINE dropped(d) == {m \in e.msgs : e.ok /\ m.kind = "drop" /\ m.ref = d.of}
               to(d) == IF dropped(d) = {} THEN d
                        ELSE [d EXCEPT !.id = (CHOOSE m \in dropped(d) : TRUE).id]
    <2>1. drops' = {to(d) : d \in drops}
      BY <1>2 DEF RunSent, HandleSent
    <2>2. PICK f : f = [d \in drops |-> to(d)]
      OBVIOUS
    <2>3. drops' = {f[d] : d \in drops} /\ DOMAIN f = drops
      BY <2>1, <2>2
    <2>4. ASSUME NEW d \in drops
          PROVE  /\ f[d] \in [of : 1..(nextMsg - 1), id : 0..(nextMsg - 1)]
                 /\ f[d].of = d.of
      <3>1. d \in [of : 1..(nextMsg - 1), id : 0..(nextMsg - 1)]
        BY <1>3 DEF DropsOK
      <3>2. CASE dropped(d) = {}
        <4>1. f[d] = d
          BY <2>2, <3>2
        <4> QED
          BY <3>1, <4>1
      <3>3. CASE dropped(d) # {}
        <4>1. PICK m : m = CHOOSE x \in dropped(d) : TRUE
          OBVIOUS
        <4>2. m \in e.msgs
          BY <3>3, <4>1
        <4>3. m.id \in 1..(nextMsg - 1)
          BY <1>4, <4>2 DEF MqBlock, Messages
        <4>4. f[d] = [d EXCEPT !.id = m.id]
          BY <2>2, <3>3, <4>1
        <4> QED
          BY <1>3, <3>1, <4>3, <4>4
      <3> QED
        BY <3>2, <3>3
    <2> HIDE DEF to
    <2>5. /\ IsFiniteSet(drops') /\ drops' \subseteq [of : 1..(nextMsg - 1), id : 0..(nextMsg - 1)]
          /\ \A x \in drops' : \E d \in drops : x.of = d.of
      BY <1>3, <2>3, <2>4, DropsMapped
    <2> QED
      BY <1>1, <2>5 DEF DropsOK
  <1>12. Ids'
    <2>1. late' = {} => \A d \in drops : d.of >= born
      BY <1>3, <1>6 DEF Ids
    <2>2. late' = {} => \A d \in drops' : d.of >= born'
      BY <1>1, <1>11, <2>1
    <2> QED
      BY <1>1, <1>7, <2>2 DEF Ids
  <1>13. RecordsKept(1)
    <2>1. \A c : mq[1] # FailedBlock(c)
      BY <1>4 DEF FailedBlock
    <2> QED
      BY <1>7, <2>1 DEF RecordsKept
  <1>14. WaitsKept(1)
    BY <1>4, <1>7 DEF WaitsKept, Taken
  <1>15. Moved(tq', tq, 0, {})
    BY <1>1, Still
  <1>16. UNCHANGED <<born, nextMsg, transport, tr, cq, started, closed, net>>
    BY <1>1
  <1> QED
    BY <1>4, <1>6, <1>8, <1>9, <1>10, <1>11, <1>12, <1>13, <1>14, <1>15, <1>16, ServiceStep

(* A server message is handled, and the transport stays. *)
LEMMA DataStep ==
    ASSUME IndInv, mq # <<>>, Head(mq).op = "data", mq' = Tail(mq),
           UNCHANGED <<nextMsg, cq, started, closed, net, late>>,
           UNCHANGED <<born, transport, tr, tq>>,
           ListOK', ErrOK', DropsOK', late = {} => \A d \in drops' : d.of >= born,
           Weaker, Unqueued', ServerOK'
    PROVE  IndInv'
  <1>1. Moved(mq', mq, 1, {}) /\ mq[1].op \notin {"sent", "failed"}
    BY HeadMq
  <1>2. Moved(tq', tq, 0, {})
    BY Still
  <1>3. UNCHANGED <<born, nextMsg, transport, tr, cq, started, closed, net, late>>
    OBVIOUS
  <1> QED
    BY <1>1, <1>2, <1>3, WeakerStep

(* The contexts of some requests are cleared. *)
LEMMA Cleared ==
    ASSUME IndInv, NEW S, ctx' = [r \in Request |-> IF r \in S THEN NoCtx ELSE ctx[r]]
    PROVE  /\ Weaker /\ \A r \in Request : ctx[r] = NoCtx => ctx'[r] = NoCtx
           /\ \A r \in Request : r \in S => ctx'[r] = NoCtx
  <1>1. ctx \in [Request -> Context] /\ NoCtx \in Context
    BY NoCtxIs DEF IndInv, CtxOK
  <1>2. ctx' \in [Request -> Context]
    BY <1>1
  <1>3. ASSUME NEW r \in Request
        PROVE  ctx'[r] = NoCtx \/ ctx'[r] = ctx[r]
    OBVIOUS
  <1> QED
    BY <1>2, <1>3 DEF Weaker

(* The loop over _requests stops at the first. *)
LEMMA FirstWithIs ==
    ASSUME ListOK, NEW m
    PROVE  FirstWith(m) \subseteq Queued /\ \A r, q \in FirstWith(m) : r = q
  <1>1. FirstWith(m) \subseteq Queued
    BY DEF FirstWith
  <1>2. ASSUME NEW r \in FirstWith(m), NEW q \in FirstWith(m)
        PROVE  r = q
    <2>1. Place(r) <= Place(q) /\ Place(q) <= Place(r)
      BY DEF FirstWith
    <2>2. /\ Place(r) \in 1..Len(requests) /\ requests[Place(r)] = r
          /\ Place(q) \in 1..Len(requests) /\ requests[Place(q)] = q
      BY <1>1, PlaceOf
    <2>3. Len(requests) \in Nat
      BY LenProperties DEF ListOK
    <2> QED
      BY <2>1, <2>2, <2>3
  <1> QED
    BY <1>1, <1>2

(* messageDeliveryConfirmed. *)
LEMMA HandleAckInv ==
    ASSUME IndInv, mq # <<>>, Head(mq).op = "data", mq' = Tail(mq),
           UNCHANGED <<nextMsg, cq, started, closed, net, late>>, ServerOK',
           NEW m, HandleAck(m)
    PROVE  IndInv'
  <1>1. /\ UNCHANGED <<born, transport, tr, tq>> /\ nextMsg' = nextMsg
        /\ requests' = requests /\ finished' = finished /\ err' = err /\ timer' = timer
        /\ drops' = drops
        /\ ctx' = [r \in Request |-> IF r \in FirstWith(m)
                                     THEN [ctx[r] EXCEPT !.delivered = TRUE] ELSE ctx[r]]
    BY DEF HandleAck
  <1>2. ListOK /\ CtxOK /\ ErrOK /\ DropsOK /\ Ids /\ Unqueued
    BY DEF IndInv
  <1>3. ASSUME NEW r \in Request
        PROVE  /\ ctx'[r] \in Context
               /\ \/ ctx'[r] = ctx[r]
                  \/ /\ ctx[r] # NoCtx /\ r \in Queued /\ ctx'[r].msg = ctx[r].msg
                     /\ ctx'[r].txn = ctx[r].txn /\ (ctx'[r].waiting => ctx[r].waiting)
    <2>1. ctx[r] \in Context
      BY <1>2 DEF CtxOK
    <2>2. CASE r \in FirstWith(m)
      <3>1. ctx'[r] = [ctx[r] EXCEPT !.delivered = TRUE]
        BY <1>1, <2>2
      <3>2. ctx'[r] \in Context /\ ctx'[r].msg = ctx[r].msg
            /\ ctx'[r].txn = ctx[r].txn /\ (ctx'[r].waiting => ctx[r].waiting)
        BY <2>1, <3>1 DEF Context
      <3> QED
        BY <2>2, <3>2 DEF FirstWith
    <2>3. CASE r \notin FirstWith(m)
      BY <1>1, <2>1, <2>3
    <2> QED
      BY <2>2, <2>3
  <1>4. Weaker
    <2>1. ctx' \in [Request -> Context]
      BY <1>1, <1>3
    <2> QED
      BY <1>3, <2>1 DEF Weaker
  <1>5. Unqueued'
    BY <1>1, <1>2, <1>3 DEF Unqueued, Queued
  <1>6. ListOK' /\ ErrOK' /\ DropsOK' /\ (late = {} => \A d \in drops' : d.of >= born)
    BY <1>1, <1>2 DEF ListOK, ErrOK, DropsOK, Queued, Ids
  <1>7. UNCHANGED <<born, transport, tr, tq>>
    BY <1>1
  <1> QED
    BY <1>4, <1>5, <1>6, <1>7, DataStep

(* The answer to a drop request. *)
LEMMA HandleDroppedInv ==
    ASSUME IndInv, mq # <<>>, Head(mq).op = "data", mq' = Tail(mq),
           UNCHANGED <<nextMsg, cq, started, closed, net, late>>, ServerOK',
           NEW m, HandleDropped(m)
    PROVE  IndInv'
  <1>1. /\ UNCHANGED <<born, transport, tr, tq>> /\ nextMsg' = nextMsg
        /\ requests' = requests /\ finished' = finished /\ err' = err /\ timer' = timer
        /\ ctx' = ctx /\ drops' \subseteq drops
    BY DEF HandleDropped
  <1>2. ListOK /\ CtxOK /\ ErrOK /\ DropsOK /\ Ids /\ Unqueued
    BY DEF IndInv
  <1>3. Weaker
    BY <1>1, <1>2 DEF Weaker, CtxOK
  <1>4. IsFiniteSet(drops')
    BY <1>1, <1>2, FS_Subset DEF DropsOK
  <1>5. DropsOK' /\ (late = {} => \A d \in drops' : d.of >= born)
    BY <1>1, <1>2, <1>4 DEF DropsOK, Ids
  <1>6. ListOK' /\ ErrOK' /\ Unqueued'
    BY <1>1, <1>2 DEF ListOK, ErrOK, Unqueued, Queued
  <1>7. UNCHANGED <<born, transport, tr, tq>>
    BY <1>1
  <1> QED
    BY <1>3, <1>5, <1>6, <1>7, DataStep

(* mtProtoServerDidChangeSession. *)
LEMMA HandleNewSessionInv ==
    ASSUME IndInv, mq # <<>>, Head(mq).op = "data", mq' = Tail(mq),
           UNCHANGED <<nextMsg, cq, started, closed, net, late>>, ServerOK',
           NEW m, HandleNewSession(m)
    PROVE  IndInv'
  <1>1. PICK S : /\ ctx' = [r \in Request |-> IF r \in S THEN NoCtx ELSE ctx[r]]
                 /\ UNCHANGED <<born, transport, tr, tq>> /\ nextMsg' = nextMsg
                 /\ requests' = requests /\ finished' = finished /\ err' = err /\ timer' = timer
                 /\ drops' = drops
    BY DEF HandleNewSession
  <1>2. ListOK /\ ErrOK /\ DropsOK /\ Ids /\ Unqueued
    BY DEF IndInv
  <1>3. Weaker /\ \A r \in Request : ctx[r] = NoCtx => ctx'[r] = NoCtx
    BY <1>1, Cleared
  <1>4. ListOK' /\ ErrOK' /\ DropsOK' /\ (late = {} => \A d \in drops' : d.of >= born)
    BY <1>1, <1>2 DEF ListOK, ErrOK, DropsOK, Queued, Ids
  <1>5. Unqueued'
    BY <1>1, <1>2, <1>3 DEF Unqueued, Queued
  <1>6. UNCHANGED <<born, transport, tr, tq>>
    BY <1>1
  <1> QED
    BY <1>3, <1>4, <1>5, <1>6, DataStep

(* messageDeliveryFailed, the transport staying. *)
LEMMA HandleBadKeptInv ==
    ASSUME IndInv, mq # <<>>, Head(mq).op = "data", mq' = Tail(mq),
           UNCHANGED <<nextMsg, cq, started, closed, net, late>>, ServerOK',
           NEW m, NEW code, code # "seqno", HandleBad(m, code)
    PROVE  IndInv'
  <1>1. PICK ids : ids = {m} \cup UNION {c.children : c \in {b \in containers : b.id = m}}
    OBVIOUS
  <1>2. PICK S : S = {r \in Request : \E i \in ids : r \in FirstWith(i)}
    OBVIOUS
  <1>3. /\ ctx' = [r \in Request |-> IF r \in S THEN NoCtx ELSE ctx[r]]
        /\ drops' = {IF d.id \in ids THEN [d EXCEPT !.id = 0] ELSE d : d \in drops}
        /\ UNCHANGED <<born, transport, tr, tq>> /\ nextMsg' = nextMsg
        /\ requests' = requests /\ finished' = finished /\ err' = err /\ timer' = timer
    BY <1>1, <1>2 DEF HandleBad
  <1>4. ListOK /\ ErrOK /\ DropsOK /\ Ids /\ Unqueued /\ nextMsg \in Nat /\ born \in 1..nextMsg
    BY DEF IndInv, Basics
  <1>5. Weaker /\ \A r \in Request : ctx[r] = NoCtx => ctx'[r] = NoCtx
    BY <1>3, Cleared
  <1>6. ListOK' /\ ErrOK'
    BY <1>3, <1>4 DEF ListOK, ErrOK, Queued
  <1>7. Unqueued'
    BY <1>3, <1>4, <1>5 DEF Unqueued, Queued
  <1>8. DropsOK' /\ \A x \in drops' : \E d \in drops : x.of = d.of
    <2>1. PICK f : f = [d \in drops |-> IF d.id \in ids THEN [d EXCEPT !.id = 0] ELSE d]
      OBVIOUS
    <2>2. drops' = {f[d] : d \in drops} /\ DOMAIN f = drops
      BY <1>3, <2>1
    <2>3. ASSUME NEW d \in drops
          PROVE  /\ f[d] \in [of : 1..(nextMsg - 1), id : 0..(nextMsg - 1)]
                 /\ f[d].of = d.of
      <3>1. d \in [of : 1..(nextMsg - 1), id : 0..(nextMsg - 1)] /\ 0 \in 0..(nextMsg - 1)
        BY <1>4 DEF DropsOK
      <3> QED
        BY <2>1, <3>1
    <2>4. /\ IsFiniteSet(drops') /\ drops' \subseteq [of : 1..(nextMsg - 1), id : 0..(nextMsg - 1)]
          /\ \A x \in drops' : \E d \in drops : x.of = d.of
      BY <1>4, <2>2, <2>3, DropsMapped
    <2> QED
      BY <1>3, <2>4 DEF DropsOK
  <1>9. late = {} => \A d \in drops' : d.of >= born
    BY <1>4, <1>8 DEF Ids
  <1>10. UNCHANGED <<born, transport, tr, tq>>
    BY <1>3
  <1> QED
    BY <1>5, <1>6, <1>7, <1>8, <1>9, <1>10, DataStep

(* receivedMessage with a result. *)
LEMMA HandleResultInv ==
    ASSUME IndInv, mq # <<>>, Head(mq).op = "data", mq' = Tail(mq),
           UNCHANGED <<nextMsg, cq, started, closed, net, late>>, ServerOK',
           NEW m, NEW how, HandleResult(m, how)
    PROVE  IndInv'
  <1> DEFINE hit  == FirstWith(m)
             done == IF how \in {"wait", "token"} THEN {} ELSE hit
             q2   == IF done = {} THEN requests
                     ELSE RemoveAt(requests, Place(CHOOSE r \in done : TRUE))
             c2   == [r \in Request |-> IF r \in hit THEN NoCtx ELSE ctx[r]]
             e2(w) == [r \in Request |->
                        IF r \in done THEN NoError
                        ELSE IF r \notin hit THEN err[r]
                        ELSE IF how = "token"
                        THEN [err[r] EXCEPT !.on = TRUE, !.token = TRUE]
                        ELSE [err[r] EXCEPT !.on = TRUE, !.wait = Max({@, w})]]
  <1>1. hit = FirstWith(m)
    OBVIOUS
  <1>2. done = IF how \in {"wait", "token"} THEN {} ELSE hit
    OBVIOUS
  <1>3. PICK w \in WaitSeconds :
          /\ requests' = q2 /\ finished' = finished \cup done
          /\ ctx' = c2 /\ err' = e2(w) /\ timer' = TimerFor(q2, c2, e2(w))
          /\ UNCHANGED <<born, transport, tr, tq>> /\ drops' = drops
    BY Zenon DEF HandleResult
  <1> HIDE DEF hit, done
  <1>4. ListOK /\ ErrOK /\ DropsOK /\ Ids /\ Unqueued /\ nextMsg' = nextMsg
    BY DEF IndInv
  <1>5. hit \subseteq Queued /\ done \subseteq hit /\ \A r, q \in hit : r = q
    BY <1>1, <1>2, <1>4, FirstWithIs
  <1>6. /\ requests' \in Seq(Request) /\ IsInjective(requests')
        /\ ToSet(requests') = Queued \ done
    <2>1. CASE done = {}
      BY <1>3, <1>4, <2>1 DEF ListOK, Queued
    <2>2. CASE done # {}
      <3>1. PICK r : r = CHOOSE x \in done : TRUE
        OBVIOUS
      <3>2. r \in Queued /\ done = {r}
        BY <1>5, <2>2, <3>1
      <3>3. requests' = RemoveAt(requests, Place(r))
        BY <1>3, <2>2, <3>1
      <3> QED
        BY <1>4, <3>2, <3>3, ListWithout
    <2> QED
      BY <2>1, <2>2
  <1>7. ListOK'
    BY <1>3, <1>4, <1>5, <1>6, QueuedAre DEF ListOK, Queued
  <1>8. /\ Weaker /\ \A r \in Request : ctx[r] = NoCtx => ctx'[r] = NoCtx
        /\ \A r \in Request : r \in hit => ctx'[r] = NoCtx
    BY <1>3, Cleared
  <1>9. Unqueued'
    BY <1>4, <1>5, <1>6, <1>8 DEF Unqueued, Queued
  <1>10. err' \in Errors
    <2>1. ASSUME NEW r \in Request
          PROVE  err'[r] \in [on : BOOLEAN, wait : Wait, token : BOOLEAN]
      <3>1. err[r] \in [on : BOOLEAN, wait : Wait, token : BOOLEAN]
        BY <1>4 DEF ErrOK
      <3>2. NoError \in [on : BOOLEAN, wait : Wait, token : BOOLEAN]
        BY WaitIsNat DEF NoError
      <3>3. PICK v : v = Max({err[r].wait, w})
        OBVIOUS
      <3>4. v \in Wait
        <4>1. w \in Wait /\ err[r].wait \in Wait /\ w \in Nat /\ err[r].wait \in Nat
          BY <1>3, <3>1, WaitIsNat
        <4> QED
          BY <3>3, <4>1, MaxOfTwo
      <3>5. [err[r] EXCEPT !.on = TRUE, !.wait = v] \in [on : BOOLEAN, wait : Wait, token : BOOLEAN]
        BY <3>1, <3>4
      <3>6. [err[r] EXCEPT !.on = TRUE, !.token = TRUE]
              \in [on : BOOLEAN, wait : Wait, token : BOOLEAN]
        BY <3>1
      <3>7. err'[r] \in {NoError, err[r], [err[r] EXCEPT !.on = TRUE, !.token = TRUE],
                         [err[r] EXCEPT !.on = TRUE, !.wait = v]}
        BY <1>3, <3>3
      <3> QED
        BY <3>1, <3>2, <3>5, <3>6, <3>7
    <2> QED
      BY <1>3, <2>1 DEF Errors
  <1>11. ErrOK'
    <2>1. ToSet(requests') \subseteq Request
      BY <1>4, <1>6, QueuedAre
    <2>2. timer' \in Wait \cup {NoTimer}
      BY <1>3, <1>10, <2>1, TimerForIs
    <2> QED
      BY <1>10, <2>2 DEF ErrOK, Errors
  <1>12. DropsOK' /\ (late = {} => \A d \in drops' : d.of >= born)
    BY <1>3, <1>4 DEF DropsOK, Ids
  <1>13. UNCHANGED <<born, transport, tr, tq>>
    BY <1>3
  <1> QED
    BY <1>7, <1>8, <1>9, <1>11, <1>12, <1>13, DataStep

-----------------------------------------------------------------------------
(*                          A transport is replaced                        *)

(* The transport is given up, and another may be made. *)
Replaced ==
    /\ tr' \in Seq(TransportContext) /\ Len(tr) <= Len(tr')
    /\ transport' \in 0..Len(tr') /\ transport' \notin 1..Len(tr)
    /\ transport' # NoTransport => tr'[transport'].live /\ tr'[transport'].conn = NoConn
    /\ \A t \in 1..Len(tr') : tr'[t].conn = NoConn \/ (t \in 1..Len(tr) /\ tr'[t].conn = tr[t].conn)

(* What the two are told. *)
Notices(E) ==
    \A e \in E : /\ e.op \in {"stop", "active", "needs"} /\ e.t \in 1..Len(tr')
                 /\ e.op = "stop" => e.t # transport'

LEMMA TransportStep ==
    ASSUME IndInv, UNCHANGED <<nextMsg, cq, started, closed, net, late>>, Replaced,
           NEW k \in {0, 1}, Moved(mq', mq, k, {}), k = 1 => mq[1].op \notin {"sent", "failed"},
           NEW E, Moved(tq', tq, 0, E), Notices(E), born' \in 1..nextMsg,
           ListOK', CtxOK', ErrOK', DropsOK', Ids', Unqueued', ServerOK',
           \A r \in Request : ctx'[r].txn # NoConn =>
             ctx'[r].txn = ctx[r].txn /\ transport = NoTransport,
           \A r \in Request : ctx'[r].waiting => ctx[r].waiting
    PROVE  IndInv'
  <1>1. /\ nextMsg' = nextMsg /\ cq' = cq /\ started' = started /\ closed' = closed
        /\ net' = net /\ late' = late
    OBVIOUS
  <1>2. /\ ConnsOK /\ Basics /\ TqOK /\ CqOK /\ MqOK /\ TrOK /\ Recorded /\ Waits
    BY DEF IndInv
  <1>3. /\ Len(tr) \in Nat /\ Len(net) \in Nat /\ Len(mq) \in Nat /\ nextMsg \in Nat
        /\ Len(tr') \in Nat
    BY <1>2, Numbers, LenProperties DEF Replaced
  <1>4. Basics'
    BY <1>1, <1>2 DEF Basics, Moved, Replaced
  <1>5. Grows
    BY <1>1, <1>3 DEF Grows, Replaced
  <1>6. transport' \notin 1..Len(tr)
    BY DEF Replaced
  <1>7. ConnsOK'
    BY <1>1, <1>2, <1>3 DEF ConnsOK, Replaced, NoConn
  <1>8. TqOK'
    <2>1. \A e \in E : TqBlock(e, Len(tr'), transport', closed', nextMsg', born', late')
      BY DEF Notices, TqBlock
    <2> QED
      BY <1>2, <1>4, <1>5, <2>1, TqStep
  <1>9. Moved(cq', cq, 0, {}) /\ StartTaken(cq, 0, started')
    BY <1>1, Still DEF StartTaken
  <1>10. CqOK'
    BY <1>2, <1>4, <1>5, <1>6, <1>9, CqStep
  <1>11. MqOK'
    <2>1. SentNames({}, transport', ConnOf(tr', transport'))
      BY DEF SentNames
    <2> QED
      BY <1>2, <1>4, <1>5, <1>6, <2>1, MqStep
  <1>12. TrOK'
    <2>1. transport' # NoTransport => tr'[transport'].live
      BY DEF Replaced
    <2>2. \A t \in 1..Len(tr') :
            tr'[t].conn = NoConn \/ (t \in 1..Len(tr) /\ ConnStep(tr, tr', t, {}))
      BY DEF Replaced, ConnStep
    <2>3. started \subseteq started'
      BY <1>1
    <2> QED
      BY <1>2, <1>3, <1>9, <2>1, <2>2, <2>3, TrStep
  <1>13. Recorded'
    <2>1. transport = NoTransport => Stays(ConnOf(tr, transport), ConnOf(tr', transport'), {})
      BY DEF Stays, ConnOf
    <2>2. \A c : k = 1 => mq[1] # FailedBlock(c)
      BY DEF FailedBlock
    <2>3. \A r \in Request : ctx'[r].txn # NoConn =>
             \/ <<r, ctx'[r].txn>> \in late'
             \/ ConnOf(tr', transport') = ctx'[r].txn
             \/ FailsAfter(mq, ctx'[r].txn, k)
             \/ /\ ctx'[r].txn = ctx[r].txn
                /\ Stays(ConnOf(tr, transport), ConnOf(tr', transport'), {})
                /\ k = 1 => mq[1] # FailedBlock(ctx[r].txn)
      BY <2>1, <2>2
    <2> QED
      BY <1>2, <1>3, <1>5, <2>3, RecordedStep
  <1>14. Waits'
    <2>1. ASSUME NEW r \in Request, ctx'[r].waiting
          PROVE  /\ ctx[r].waiting /\ ~Taken(tq, 0, "send", r)
                 /\ ~Taken(cq, 0, "write", r) /\ ~Taken(mq, k, "sent", r)
      BY <2>1, Still DEF Taken
    <2> QED
      BY <1>2, <1>9, <2>1, WaitsStep
  <1> QED
    BY <1>4, <1>7, <1>8, <1>10, <1>11, <1>12, <1>13, <1>14 DEF IndInv

(* A new transport is put in place of the old. *)
LEMMA NewTransportIs ==
    ASSUME IndInv, NEW s \in Seq(TransportContext), NewTransport(s), Len(s) = Len(tr),
           \A t \in 1..Len(tr) : s[t].conn = tr[t].conn
    PROVE  Replaced /\ transport' = Len(tr) + 1 /\ Len(tr') = Len(tr) + 1
  <1>1. tr' = Append(s, FreshTransport) /\ transport' = Len(s) + 1
    BY DEF NewTransport
  <1>2. FreshTransport \in TransportContext /\ FreshTransport.conn = NoConn /\ FreshTransport.live
    BY DEF FreshTransport, TransportContext, NoConn
  <1>3. Len(tr) \in Nat
    BY Numbers DEF IndInv
  <1>4. /\ tr' \in Seq(TransportContext) /\ Len(tr') = Len(s) + 1
        /\ \A t \in 1..Len(s) : tr'[t] = s[t]
        /\ tr'[Len(s) + 1] = FreshTransport
    BY <1>1, <1>2, AppendProperties
  <1> QED
    BY <1>1, <1>2, <1>3, <1>4 DEF Replaced, NoTransport

LEMMA ResetTransportIs ==
    ASSUME IndInv, NEW c, ResetTransport(c)
    PROVE  /\ Replaced /\ ctx' = Forgotten(c)
           /\ \E E : Moved(tq', tq, 0, E) /\ Notices(E)
  <1>1. tr \in Seq(TransportContext) /\ transport \in 0..Len(tr) /\ Len(tr) \in Nat
    BY Numbers DEF IndInv, Basics
  <1>2. CASE transport = NoTransport
    <2>1. NewTransport(tr) /\ tq' = tq /\ ctx' = Forgotten(c)
      BY <1>2 DEF ResetTransport
    <2>2. Moved(tq', tq, 0, {}) /\ Notices({})
      BY <2>1, Still DEF Notices
    <2> QED
      BY <1>1, <2>1, <2>2, NewTransportIs
  <1>3. CASE transport # NoTransport
    <2>1. transport \in 1..Len(tr) /\ tr[transport] \in TransportContext
      BY <1>1, <1>3, ElementOfSeq DEF NoTransport
    <2>2. PICK y : y = [tr[transport] EXCEPT !.live = FALSE]
      OBVIOUS
    <2>3. PICK s : s = [tr EXCEPT ![transport] = y]
      OBVIOUS
    <2>4. y \in TransportContext /\ y.conn = tr[transport].conn
      BY <2>2, <2>1 DEF TransportContext
    <2>5. /\ s \in Seq(TransportContext) /\ Len(s) = Len(tr) /\ s[transport] = y
          /\ \A u \in 1..Len(tr) : u # transport => s[u] = tr[u]
      BY <1>1, <2>1, <2>3, <2>4, TrUpdate
    <2>6. NewTransport(s) /\ ctx' = Forgotten(c)
      BY <1>3, <2>2, <2>3 DEF ResetTransport
    <2>7. Replaced /\ transport' = Len(tr) + 1 /\ Len(tr') = Len(tr) + 1
      BY <2>4, <2>5, <2>6, NewTransportIs
    <2>8. PICK d, e : d = [op |-> "stop", t |-> transport] /\ e = [op |-> "active", t |-> transport]
      OBVIOUS
    <2>9. PICK a, E : a = <<d, e>> /\ E = {d, e}
      OBVIOUS
    <2>10. tq' = tq \o a
      BY <1>3, <2>8, <2>9 DEF ResetTransport
    <2>11. Lists(a, E)
      BY <2>9, ListsFew
    <2>12. Moved(tq', tq, 0, {} \cup E)
      BY <2>10, <2>11, Still, MovedConcat DEF Lists
    <2>13. Moved(tq', tq, 0, E)
      <3>1. {} \cup E = E
        OBVIOUS
      <3> QED
        BY <2>12, <3>1
    <2>14. Notices(E)
      BY <1>1, <2>1, <2>7, <2>8, <2>9 DEF Notices
    <2> QED
      BY <2>6, <2>7, <2>13, <2>14
  <1> QED
    BY <1>2, <1>3

LEMMA ForgottenIs ==
    ASSUME IndInv, ctx' = Forgotten(ctx)
    PROVE  /\ Weaker /\ \A r \in Request : ctx'[r].txn = NoConn
           /\ \A r \in Request : ctx[r] = NoCtx => ctx'[r] = NoCtx
  <1>1. ASSUME NEW r \in Request
        PROVE  /\ ctx'[r] \in Context /\ ctx'[r].msg = ctx[r].msg /\ ctx'[r].txn = NoConn
               /\ ctx'[r].waiting => ctx[r].waiting
               /\ ctx[r] = NoCtx => ctx'[r] = NoCtx
    <2>1. ctx[r] \in Context
      BY DEF IndInv, CtxOK
    <2>2. ctx'[r] = [ctx[r] EXCEPT !.txn = NoConn]
      BY DEF Forgotten
    <2>3. /\ ctx'[r] \in Context /\ ctx'[r].msg = ctx[r].msg /\ ctx'[r].txn = NoConn
          /\ ctx'[r].waiting => ctx[r].waiting
      BY <2>1, <2>2 DEF Context, NoConn
    <2>4. ctx[r] = NoCtx => ctx'[r] = NoCtx
      BY <2>2 DEF NoCtx, NoConn
    <2> QED
      BY <2>3, <2>4
  <1>2. ctx' \in [Request -> Context]
    BY <1>1 DEF Forgotten
  <1> QED
    BY <1>1, <1>2 DEF Weaker

(* The session stays: only the transactions are forgotten. *)
LEMMA SameSessionStep ==
    ASSUME IndInv, UNCHANGED <<nextMsg, cq, started, closed, net, late>>, Replaced,
           UNCHANGED <<requests, finished, err, timer, drops, born, mq, srv>>,
           ctx' = Forgotten(ctx), NEW E, Moved(tq', tq, 0, E), Notices(E)
    PROVE  IndInv'
  <1>1. /\ requests' = requests /\ finished' = finished /\ err' = err /\ timer' = timer
        /\ drops' = drops /\ born' = born /\ mq' = mq /\ srv' = srv /\ nextMsg' = nextMsg
        /\ net' = net /\ late' = late
    OBVIOUS
  <1>2. ListOK /\ ErrOK /\ DropsOK /\ Ids /\ Unqueued /\ ServerOK /\ born \in 1..nextMsg
    BY DEF IndInv, Basics
  <1>3. /\ Weaker /\ \A r \in Request : ctx'[r].txn = NoConn
        /\ \A r \in Request : ctx[r] = NoCtx => ctx'[r] = NoCtx
    BY ForgottenIs
  <1>4. /\ CtxOK'
        /\ \A r \in Request : ctx'[r] # NoCtx =>
             ctx'[r].msg >= born' \/ \E x \in late' : x[1] = r
        /\ \A r \in Request : ctx'[r].waiting => ctx[r].waiting
    <2>1. UNCHANGED <<born, nextMsg>> /\ Len(net') = Len(net) /\ late \subseteq late'
      BY <1>1
    <2> QED
      BY <1>3, <2>1, WeakerKeeps
  <1>5. ListOK' /\ ErrOK' /\ DropsOK' /\ ServerOK' /\ born' \in 1..nextMsg
    BY <1>1, <1>2 DEF ListOK, ErrOK, DropsOK, ServerOK, Queued
  <1>6. Unqueued'
    BY <1>1, <1>2, <1>3 DEF Unqueued, Queued
  <1>7. Ids'
    BY <1>1, <1>2, <1>4 DEF Ids
  <1>8. Moved(mq', mq, 0, {})
    BY <1>1, Still
  <1>9. UNCHANGED <<nextMsg, cq, started, closed, net, late>>
    OBVIOUS
  <1> QED
    BY <1>3, <1>4, <1>5, <1>6, <1>7, <1>8, <1>9, TransportStep

(* A new session: the contexts and the drops are gone. *)
LEMMA ResetSessionStep ==
    ASSUME IndInv, UNCHANGED <<nextMsg, cq, started, closed, net, late>>, ResetSessionInfo,
           UNCHANGED <<requests, finished, err, timer>>, ServerOK',
           NEW k \in {0, 1}, Moved(mq', mq, k, {}), k = 1 => mq[1].op \notin {"sent", "failed"}
    PROVE  IndInv'
  <1>1. /\ requests' = requests /\ finished' = finished /\ err' = err /\ timer' = timer
        /\ drops' = {} /\ born' = nextMsg /\ nextMsg' = nextMsg /\ net' = net
        /\ ResetTransport([r \in Request |-> NoCtx])
    BY DEF ResetSessionInfo
  <1>2. /\ ListOK /\ ErrOK /\ born \in 1..nextMsg /\ nextMsg \in Nat /\ Len(net) \in Nat
    BY Numbers DEF IndInv, Basics
  <1>3. Replaced /\ ctx' = Forgotten([r \in Request |-> NoCtx])
    BY <1>1, ResetTransportIs
  <1>4. PICK E : Moved(tq', tq, 0, E) /\ Notices(E)
    BY <1>1, ResetTransportIs
  <1>5. ctx' = [r \in Request |-> NoCtx]
    <2>1. [NoCtx EXCEPT !.txn = NoConn] = NoCtx
      BY DEF NoCtx, NoConn
    <2> QED
      BY <1>3, <2>1 DEF Forgotten
  <1>6. CtxOK'
    BY <1>1, <1>2, <1>5, NoCtxIs DEF CtxOK, NoConn
  <1>7. ListOK' /\ ErrOK' /\ born' \in 1..nextMsg
    BY <1>1, <1>2 DEF ListOK, ErrOK, Queued
  <1>8. DropsOK'
    BY <1>1, FS_EmptySet DEF DropsOK
  <1>9. Unqueued' /\ Ids'
    BY <1>1, <1>5 DEF Unqueued, Ids
  <1>10. \A r \in Request : ctx'[r].txn = NoConn /\ ~ctx'[r].waiting
    BY <1>5, NoCtxIs
  <1>11. UNCHANGED <<nextMsg, cq, started, closed, net, late>>
    OBVIOUS
  <1> QED
    BY <1>3, <1>4, <1>6, <1>7, <1>8, <1>9, <1>10, <1>11, TransportStep

LEMMA SessionResetInv ==
    ASSUME IndInv, SessionReset
    PROVE  IndInv'
  <1>1. /\ UNCHANGED <<nextMsg, cq, started, closed, net, late>> /\ ResetSessionInfo
        /\ UNCHANGED <<requests, finished, err, timer>> /\ mq' = mq /\ srv' = srv
    BY DEF SessionReset
  <1>2. ServerOK' /\ Moved(mq', mq, 0, {})
    BY <1>1, Still DEF ServerOK
  <1> QED
    BY <1>1, <1>2, ResetSessionStep

LEMMA TransportSchemeUpdatedInv ==
    ASSUME IndInv, TransportSchemeUpdated
    PROVE  IndInv'
  <1>1. /\ UNCHANGED <<nextMsg, cq, started, closed, net, late>> /\ ResetTransport(ctx)
        /\ UNCHANGED <<requests, finished, err, timer, drops, born, mq, srv>>
    BY DEF TransportSchemeUpdated, sessInfo
  <1>2. Replaced /\ ctx' = Forgotten(ctx)
    BY <1>1, ResetTransportIs
  <1>3. PICK E : Moved(tq', tq, 0, E) /\ Notices(E)
    BY <1>1, ResetTransportIs
  <1> QED
    BY <1>1, <1>2, <1>3, SameSessionStep

LEMMA ResumeInv ==
    ASSUME IndInv, Resume
    PROVE  IndInv'
  <1>1. /\ UNCHANGED <<nextMsg, cq, started, closed, net, late>> /\ ResetTransport(ctx)
        /\ UNCHANGED <<requests, finished, err, timer, drops, born, mq, srv>>
    BY DEF Resume, sessInfo, world
  <1>2. Replaced /\ ctx' = Forgotten(ctx)
    BY <1>1, ResetTransportIs
  <1>3. PICK E : Moved(tq', tq, 0, E) /\ Notices(E)
    BY <1>1, ResetTransportIs
  <1> QED
    BY <1>1, <1>2, <1>3, SameSessionStep

LEMMA PauseInv ==
    ASSUME IndInv, Pause
    PROVE  IndInv'
  <1>1. /\ UNCHANGED <<nextMsg, cq, started, closed, net, late>> /\ ctx' = Forgotten(ctx)
        /\ UNCHANGED <<requests, finished, err, timer, drops, born, mq, srv>>
        /\ transport' = NoTransport /\ tr' = tr
    BY DEF Pause, sessInfo
  <1>2. tr \in Seq(TransportContext) /\ transport \in 0..Len(tr) /\ Len(tr) \in Nat
    BY Numbers DEF IndInv, Basics
  <1>3. Replaced
    BY <1>1, <1>2 DEF Replaced, NoTransport
  <1>4. PICK E : Moved(tq', tq, 0, E) /\ Notices(E)
    <2>1. CASE transport = NoTransport
      <3>1. tq' = tq
        BY <2>1 DEF Pause
      <3>2. Moved(tq', tq, 0, {}) /\ Notices({})
        BY <3>1, Still DEF Notices
      <3> QED
        BY <3>2
    <2>2. CASE transport # NoTransport
      <3>1. PICK d, e : d = [op |-> "active", t |-> transport] /\ e = [op |-> "stop", t |-> transport]
        OBVIOUS
      <3>2. PICK a, E : a = <<d, e>> /\ E = {d, e}
        OBVIOUS
      <3>3. tq' = tq \o a
        BY <2>2, <3>1, <3>2 DEF Pause
      <3>4. Lists(a, E)
        BY <3>2, ListsFew
      <3>5. Moved(tq', tq, 0, {} \cup E)
        BY <3>3, <3>4, Still, MovedConcat DEF Lists
      <3>6. Notices({} \cup E)
        BY <1>1, <1>2, <2>2, <3>1, <3>2 DEF Notices, NoTransport
      <3> QED
        BY <3>5, <3>6
    <2> QED
      BY <2>1, <2>2
  <1>5. /\ UNCHANGED <<nextMsg, cq, started, closed, net, late>>
        /\ UNCHANGED <<requests, finished, err, timer, drops, born, mq, srv>>
    BY <1>1
  <1> QED
    BY <1>1, <1>3, <1>4, <1>5, SameSessionStep

(* requestTransportTransaction's block. *)
LEMMA RunRequestedTransactionInv ==
    ASSUME IndInv, RunRequestedTransaction
    PROVE  IndInv'
  <1>1. /\ UNCHANGED <<nextMsg, cq, started, closed, net, late>> /\ ctx' = ctx
        /\ requests' = requests /\ finished' = finished /\ err' = err /\ timer' = timer
        /\ drops' = drops /\ born' = born /\ mq' = mq /\ srv' = srv /\ nextMsg' = nextMsg
        /\ late' = late /\ net' = net
    BY DEF RunRequestedTransaction, service, sessInfo, world
  <1>2. /\ ListOK /\ CtxOK /\ ErrOK /\ DropsOK /\ Ids /\ Unqueued /\ ServerOK
        /\ born \in 1..nextMsg /\ tr \in Seq(TransportContext) /\ transport \in 0..Len(tr)
        /\ Len(tr) \in Nat
    BY Numbers DEF IndInv, Basics
  <1>3. /\ ListOK' /\ CtxOK' /\ ErrOK' /\ DropsOK' /\ Ids' /\ Unqueued' /\ ServerOK'
        /\ born' \in 1..nextMsg /\ Moved(mq', mq, 0, {})
    BY <1>1, <1>2, Still DEF ListOK, CtxOK, ErrOK, DropsOK, Ids, Unqueued, ServerOK, Queued
  <1>4. CASE transport' = transport /\ tr' = tr
    <2>1. PICK E : /\ Moved(tq', tq, 0, E)
                   /\ \A e \in E : TqBlock(e, Len(tr), transport, closed, nextMsg, born, late)
      <3>1. CASE tq' = tq
        BY <3>1, Still
      <3>2. CASE transport # NoTransport /\ tq' = Append(tq, [op |-> "needs", t |-> transport])
        <4>1. Moved(tq', tq, 0, {} \cup {[op |-> "needs", t |-> transport]})
          BY <3>2, Still, MovedAppend
        <4>2. TqBlock([op |-> "needs", t |-> transport], Len(tr), transport, closed, nextMsg, born,
                      late)
          BY <1>2, <3>2 DEF TqBlock, NoTransport
        <4> QED
          BY <4>1, <4>2
      <3>3. ~paused => transport # NoTransport
        BY <1>2, <1>4 DEF RunRequestedTransaction, NewTransport, NoTransport
      <3> QED
        BY <1>4, <3>1, <3>2, <3>3 DEF RunRequestedTransaction
    <2>2. Weaker
      BY <1>1, <1>2 DEF Weaker, CtxOK
    <2>3. late = {} => \A d \in drops' : d.of >= born
      BY <1>1, <1>2 DEF Ids
    <2>4. UNCHANGED <<born, nextMsg, transport, tr, cq, started, closed, net, late>>
      BY <1>1, <1>4
    <2> QED
      BY <1>3, <2>1, <2>2, <2>3, <2>4, WeakerStep
  <1>5. CASE transport = NoTransport /\ NewTransport(tr)
    <2>1. Replaced /\ transport' = Len(tr) + 1 /\ Len(tr') = Len(tr) + 1
      BY <1>2, <1>5, NewTransportIs
    <2>2. PICK e : e = [op |-> "needs", t |-> transport']
      OBVIOUS
    <2>3. tq' = Append(tq, e)
      <3>1. ~paused
        BY <1>2, <1>5, <2>1 DEF RunRequestedTransaction, NoTransport
      <3> QED
        BY <2>2, <3>1 DEF RunRequestedTransaction
    <2>4. Moved(tq', tq, 0, {} \cup {e})
      BY <2>3, Still, MovedAppend
    <2>5. Notices({} \cup {e})
      BY <1>2, <2>1, <2>2 DEF Notices
    <2>6. PICK E : E = {} \cup {e}
      OBVIOUS
    <2>7. Moved(tq', tq, 0, E) /\ Notices(E)
      BY <2>4, <2>5, <2>6
    <2>8. /\ \A r \in Request : ctx'[r].txn # NoConn =>
               ctx'[r].txn = ctx[r].txn /\ transport = NoTransport
          /\ \A r \in Request : ctx'[r].waiting => ctx[r].waiting
          /\ UNCHANGED <<nextMsg, cq, started, closed, net, late>>
      BY <1>1, <1>5
    <2> QED
      BY <1>3, <2>1, <2>7, <2>8, TransportStep
  <1> QED
    BY <1>4, <1>5 DEF RunRequestedTransaction

(* transportHasIncomingData. *)
LEMMA RunDataInv ==
    ASSUME IndInv, RunData
    PROVE  IndInv'
  <1>1. /\ UNCHANGED <<nextMsg, cq, started, closed, net, late>>
        /\ mq # <<>> /\ Head(mq).op = "data" /\ mq' = Tail(mq)
    BY DEF RunData
  <1>2. PICK e : e = Head(mq)
    OBVIOUS
  <1>3. Moved(mq', mq, 1, {}) /\ mq[1].op \notin {"sent", "failed"} /\ e.x.k \in Answers
    BY <1>1, <1>2, HeadMq DEF MqBlock
  <1>4. CASE e.t # transport
    <2>1. /\ UNCHANGED <<born, transport, tr, tq>> /\ requests' = requests /\ finished' = finished
          /\ err' = err /\ timer' = timer /\ ctx' = ctx /\ drops' = drops /\ srv' = srv
          /\ nextMsg' = nextMsg
      BY <1>1, <1>2, <1>4 DEF RunData, service
    <2>2. ListOK /\ CtxOK /\ ErrOK /\ DropsOK /\ Ids /\ Unqueued /\ ServerOK
      BY DEF IndInv
    <2>3. /\ ListOK' /\ ErrOK' /\ DropsOK' /\ Unqueued' /\ ServerOK' /\ Weaker
          /\ late = {} => \A d \in drops' : d.of >= born
      BY <2>1, <2>2 DEF ListOK, CtxOK, ErrOK, DropsOK, Ids, Unqueued, ServerOK, Queued, Weaker
    <2>4. UNCHANGED <<born, transport, tr, tq>>
      BY <2>1
    <2> QED
      BY <1>1, <2>3, <2>4, DataStep
  <1>5. CASE e.t = transport
    <2>1. HandleMessage(e.x) /\ srv' = [srv EXCEPT !.out = @ \ {e.x}]
      BY <1>2, <1>5 DEF RunData
    <2>2. ServerOK'
      BY <2>1 DEF IndInv, ServerOK
    <2>3. PICK x, m, how : x = e.x /\ m = e.x.m /\ how = e.x.how
      OBVIOUS
    <2>4. CASE x.k = "ack"
      <3>1. HandleAck(m)
        BY <2>1, <2>3, <2>4 DEF HandleMessage
      <3> QED
        BY <1>1, <2>2, <3>1, HandleAckInv
    <2>5. CASE x.k = "res"
      <3>1. HandleResult(m, how)
        BY <2>1, <2>3, <2>5 DEF HandleMessage
      <3> QED
        BY <1>1, <2>2, <3>1, HandleResultInv
    <2>6. CASE x.k = "dropped"
      <3>1. HandleDropped(m)
        BY <2>1, <2>3, <2>6 DEF HandleMessage
      <3> QED
        BY <1>1, <2>2, <3>1, HandleDroppedInv
    <2>7. CASE x.k = "new"
      <3>1. HandleNewSession(m)
        BY <2>1, <2>3, <2>7 DEF HandleMessage
      <3> QED
        BY <1>1, <2>2, <3>1, HandleNewSessionInv
    <2>8. CASE x.k = "bad"
      <3>1. HandleBad(m, how)
        BY <2>1, <2>3, <2>8 DEF HandleMessage
      <3>2. CASE how = "seqno"
        <4>1. ResetSessionInfo /\ UNCHANGED <<requests, finished, err, timer>>
          BY <3>1, <3>2 DEF HandleBad
        <4> QED
          BY <1>1, <1>3, <2>2, <4>1, ResetSessionStep
      <3>3. CASE how # "seqno"
        BY <1>1, <2>2, <3>1, <3>3, HandleBadKeptInv
      <3> QED
        BY <3>2, <3>3
    <2> QED
      BY <1>3, <2>3, <2>4, <2>5, <2>6, <2>7, <2>8 DEF Answers
  <1> QED
    BY <1>4, <1>5

-----------------------------------------------------------------------------
(*                       transportReadyForTransaction                      *)

(* A request keeps its context, or is given a message and posted. *)
Prepares(r, E) ==
    \/ ctx'[r] = ctx[r]
    \/ /\ r \in Queued /\ Posted(E, "send", r)
       /\ ctx'[r].txn = NoConn /\ ctx'[r].msg \in 1..(nextMsg' - 1)
       /\ ctx'[r].msg >= born \/ \E x \in late : x[1] = r

(* Message ids stay in range. *)
LEMMA RangeGrows ==
    ASSUME NEW a \in Nat, NEW b \in Nat, a <= b
    PROVE  /\ \A i \in 1..(a - 1) : i \in 1..(b - 1)
           /\ \A i \in 0..(a - 1) : i \in 0..(b - 1)
  OBVIOUS

LEMMA ReadyStep ==
    ASSUME IndInv, UNCHANGED <<requests, finished, err, timer, drops, born, transport, tr, cq,
                               started, closed, net, srv, late>>,
           Moved(mq', mq, 1, {}), mq[1].op = "ready", NEW E, Moved(tq', tq, 0, E),
           \A e \in E : TqBlock(e, Len(tr), transport, closed, nextMsg', born, late),
           nextMsg' \in Nat, nextMsg <= nextMsg', ctx' \in [Request -> Context],
           \A r \in Request : Prepares(r, E)
    PROVE  IndInv'
  <1>1. /\ requests' = requests /\ finished' = finished /\ err' = err /\ timer' = timer
        /\ drops' = drops /\ born' = born /\ transport' = transport /\ tr' = tr /\ cq' = cq
        /\ started' = started /\ closed' = closed /\ net' = net /\ srv' = srv /\ late' = late
    OBVIOUS
  <1>2. /\ ListOK /\ CtxOK /\ ErrOK /\ DropsOK /\ ConnsOK /\ Basics /\ TqOK /\ CqOK /\ MqOK /\ TrOK
        /\ Recorded /\ Waits /\ Ids /\ ServerOK /\ Unqueued
    BY DEF IndInv
  <1>3. /\ Len(tr) \in Nat /\ Len(net) \in Nat /\ Len(mq) \in Nat /\ nextMsg \in Nat
        /\ born \in 1..nextMsg
    BY <1>2, Numbers DEF Basics
  <1>4. Basics'
    <2>1. born' \in 1..nextMsg'
      BY <1>1, <1>3
    <2> QED
      BY <1>1, <1>2, <2>1 DEF Basics, Moved
  <1>5. Grows
    BY <1>1, <1>3 DEF Grows
  <1>6. ListOK' /\ ErrOK' /\ ConnsOK' /\ TrOK' /\ ServerOK'
    BY <1>1, <1>2 DEF ListOK, ErrOK, ConnsOK, TrOK, ServerOK, Queued
  <1>7. DropsOK'
    <2>1. drops \subseteq [of : 1..(nextMsg - 1), id : 0..(nextMsg - 1)]
      BY <1>2 DEF DropsOK
    <2>2. /\ \A i \in 1..(nextMsg - 1) : i \in 1..(nextMsg' - 1)
          /\ \A i \in 0..(nextMsg - 1) : i \in 0..(nextMsg' - 1)
      BY <1>3, RangeGrows
    <2>3. drops \subseteq [of : 1..(nextMsg' - 1), id : 0..(nextMsg' - 1)]
      BY <2>1, <2>2
    <2> QED
      BY <1>1, <1>2, <2>3 DEF DropsOK
  <1>8. TqOK'
    <2>1. \A e \in E : TqBlock(e, Len(tr'), transport', closed', nextMsg', born', late')
      BY <1>1
    <2> QED
      BY <1>2, <1>4, <1>5, <2>1, TqStep
  <1>9. Moved(cq', cq, 0, {}) /\ StartTaken(cq, 0, started')
    BY <1>1, Still DEF StartTaken
  <1>10. CqOK'
    BY <1>1, <1>2, <1>4, <1>5, <1>9, CqStep
  <1>11. Stays(ConnOf(tr, transport), ConnOf(tr', transport'), {})
    BY <1>1 DEF Stays
  <1>12. MqOK'
    <2>1. SentNames({}, transport', ConnOf(tr', transport'))
      BY DEF SentNames
    <2> QED
      BY <1>2, <1>4, <1>5, <1>11, <2>1, MqStep
  <1>13. Recorded'
    <2>1. \A c : mq[1] # FailedBlock(c)
      BY DEF FailedBlock
    <2>2. \A r \in Request : ctx'[r].txn # NoConn =>
             \/ <<r, ctx'[r].txn>> \in late'
             \/ ConnOf(tr', transport') = ctx'[r].txn
             \/ FailsAfter(mq, ctx'[r].txn, 1)
             \/ /\ ctx'[r].txn = ctx[r].txn
                /\ Stays(ConnOf(tr, transport), ConnOf(tr', transport'), {})
                /\ mq[1] # FailedBlock(ctx[r].txn)
      BY <1>11, <2>1 DEF Prepares
    <2> QED
      BY <1>2, <1>3, <1>5, <2>2, RecordedStep
  <1>14. Waits'
    <2>1. ASSUME NEW r \in Request, ctx'[r].waiting
          PROVE  \/ Posted(E, "send", r)
                 \/ /\ ctx[r].waiting /\ ~Taken(tq, 0, "send", r)
                    /\ ~Taken(cq, 0, "write", r) /\ ~Taken(mq, 1, "sent", r)
      BY <2>1, Still DEF Prepares, Taken
    <2> QED
      BY <1>2, <1>9, <2>1, WaitsStep
  <1>15. CtxOK'
    <2>1. ASSUME NEW r \in Request
          PROVE  /\ ctx'[r].msg = 0 => ctx'[r] = NoCtx
                 /\ ctx'[r].msg < nextMsg' /\ ctx'[r].txn <= Len(net)
      <3>1. /\ ctx[r] \in Context /\ (ctx[r].msg = 0 => ctx[r] = NoCtx)
            /\ ctx[r].msg < nextMsg /\ ctx[r].txn <= Len(net)
        BY <1>2 DEF CtxOK
      <3>2. CASE ctx'[r] = ctx[r]
        <4>1. ctx[r].msg \in Nat
          BY <3>1 DEF Context
        <4> QED
          BY <1>3, <3>1, <3>2, <4>1
      <3>3. CASE ctx'[r].txn = NoConn /\ ctx'[r].msg \in 1..(nextMsg' - 1)
        BY <1>3, <3>3 DEF NoConn
      <3> QED
        BY <3>2, <3>3 DEF Prepares
    <2> QED
      BY <1>1, <2>1 DEF CtxOK
  <1>16. Ids'
    <2>1. \A r \in Request : ctx'[r] # NoCtx => ctx'[r].msg >= born \/ \E x \in late : x[1] = r
      BY <1>2 DEF Prepares, Ids
    <2> QED
      BY <1>1, <1>2, <2>1 DEF Ids
  <1>17. Unqueued'
    BY <1>1, <1>2 DEF Unqueued, Queued, Prepares
  <1> QED
    BY <1>4, <1>6, <1>7, <1>8, <1>10, <1>12, <1>13, <1>14, <1>15, <1>16, <1>17 DEF IndInv

(* What is to be sent. *)
LEMMA OutgoingIs ==
    ASSUME IndInv, NEW ping
    PROVE  /\ IsFiniteSet(Outgoing(ping))
           /\ \A m \in Outgoing(ping) :
                /\ DOMAIN m = {"kind", "ref", "id"} /\ m.id \in 0..(nextMsg - 1)
                /\ m.kind = "req" => /\ m.ref \in Queued
                                     /\ m.id # 0 => m.id >= born \/ \E x \in late : x[1] = m.ref
                /\ m.kind = "drop" => m.ref \in Nat
  <1>1. /\ ListOK /\ CtxOK /\ DropsOK /\ Ids /\ nextMsg \in Nat /\ born \in 1..nextMsg
    BY DEF IndInv, Basics
  <1>2. PICK A, B, C :
          /\ A = IF ping THEN {[kind |-> "ping", ref |-> 0, id |-> 0]} ELSE {}
          /\ B = {[kind |-> "req", ref |-> r, id |-> MessageIdOf(r)] :
                  r \in {q \in Queued : Sendable(q)}}
          /\ C = {[kind |-> "drop", ref |-> d.of, id |-> d.id] : d \in drops}
    OBVIOUS
  <1>3. Outgoing(ping) = (A \cup B) \cup C
    BY <1>2 DEF Outgoing
  <1>4. IsFiniteSet(A)
    BY <1>2, FS_EmptySet, FS_Singleton
  <1>5. IsFiniteSet(B)
    <2>1. PICK S : S = {q \in Queued : Sendable(q)}
      OBVIOUS
    <2>2. IsFiniteSet(S)
      BY <1>1, <2>1, QueuedAre, RequestAssumption, FS_Subset
    <2>3. PICK f : f = [r \in S |-> [kind |-> "req", ref |-> r, id |-> MessageIdOf(r)]]
      OBVIOUS
    <2>4. f \in Surjection(S, B)
      <3>1. f \in [S -> B] /\ \A x \in B : \E r \in S : f[r] = x
        BY <1>2, <2>1, <2>3
      <3> QED
        BY <3>1 DEF Surjection
    <2> QED
      BY <2>2, <2>4, FS_Surjection
  <1>6. IsFiniteSet(C)
    <2>1. PICK f : f = [d \in drops |-> [kind |-> "drop", ref |-> d.of, id |-> d.id]]
      OBVIOUS
    <2>2. f \in Surjection(drops, C)
      <3>1. f \in [drops -> C] /\ \A x \in C : \E d \in drops : f[d] = x
        BY <1>2, <2>1
      <3> QED
        BY <3>1 DEF Surjection
    <2> QED
      BY <1>1, <2>2, FS_Surjection DEF DropsOK
  <1>7. IsFiniteSet(Outgoing(ping))
    BY <1>3, <1>4, <1>5, <1>6, FS_Union
  <1>8. ASSUME NEW m \in A
        PROVE  DOMAIN m = {"kind", "ref", "id"} /\ m.id = 0 /\ m.kind = "ping"
    BY <1>2
  <1>9. ASSUME NEW m \in B
        PROVE  /\ DOMAIN m = {"kind", "ref", "id"} /\ m.id \in 0..(nextMsg - 1)
               /\ m.kind = "req" /\ m.ref \in Queued
               /\ m.id # 0 => m.id >= born \/ \E x \in late : x[1] = m.ref
    <2>1. PICK r \in Queued : m = [kind |-> "req", ref |-> r, id |-> ctx[r].msg]
      BY <1>2 DEF MessageIdOf
    <2>2. DOMAIN m = {"kind", "ref", "id"} /\ m.id = ctx[r].msg /\ m.kind = "req" /\ m.ref = r
      BY <2>1
    <2>3. r \in Request
      BY <1>1, QueuedAre
    <2>4. ctx[r].msg \in Nat /\ ctx[r].msg < nextMsg
      BY <1>1, <2>3 DEF CtxOK, Context
    <2>5. ctx[r].msg # 0 => ctx[r].msg >= born \/ \E x \in late : x[1] = r
      BY <1>1, <2>3, NoCtxIs DEF Ids
    <2> QED
      BY <1>1, <2>2, <2>4, <2>5
  <1>10. ASSUME NEW m \in C
         PROVE  /\ DOMAIN m = {"kind", "ref", "id"} /\ m.id \in 0..(nextMsg - 1)
                /\ m.kind = "drop" /\ m.ref \in Nat
    <2>1. PICK d \in drops : m = [kind |-> "drop", ref |-> d.of, id |-> d.id]
      BY <1>2
    <2>2. d.of \in 1..(nextMsg - 1) /\ d.id \in 0..(nextMsg - 1)
      BY <1>1 DEF DropsOK
    <2> QED
      BY <1>1, <2>1, <2>2
  <1>11. ASSUME NEW m \in Outgoing(ping)
         PROVE  /\ DOMAIN m = {"kind", "ref", "id"} /\ m.id \in 0..(nextMsg - 1)
                /\ m.kind = "req" => /\ m.ref \in Queued
                                     /\ m.id # 0 => m.id >= born \/ \E x \in late : x[1] = m.ref
                /\ m.kind = "drop" => m.ref \in Nat
    <2>1. m \in A \/ m \in B \/ m \in C
      BY <1>3
    <2>2. 0 \in 0..(nextMsg - 1)
      BY <1>1
    <2> QED
      BY <1>8, <1>9, <1>10, <2>1, <2>2
  <1> QED
    BY <1>7, <1>11

(* The ids the messages are given. *)
LEMMA PreparedIs ==
    ASSUME IndInv, NEW ping, NEW out, out = Outgoing(ping),
           NEW n, n = nextMsg + Cardinality(Fresh(out))
    PROVE  /\ n \in Nat /\ n >= nextMsg
           /\ \A m \in Prepared(out) :
                /\ m.id \in 1..(n - 1)
                /\ m.kind = "req" =>
                     m.ref \in Queued /\ (m.id >= born \/ \E x \in late : x[1] = m.ref)
  <1>1. PICK F : F = Fresh(out)
    OBVIOUS
  <1>2. /\ IsFiniteSet(out)
        /\ \A m \in out :
             /\ DOMAIN m = {"kind", "ref", "id"} /\ m.id \in 0..(nextMsg - 1)
             /\ m.kind = "req" => /\ m.ref \in Queued
                                  /\ m.id # 0 => m.id >= born \/ \E x \in late : x[1] = m.ref
             /\ m.kind = "drop" => m.ref \in Nat
    BY OutgoingIs
  <1>3. F \subseteq out /\ IsFiniteSet(F) /\ Cardinality(F) \in Nat
    BY <1>1, <1>2, FS_Subset, FS_CardinalityType DEF Fresh
  <1>4. /\ ListOK /\ nextMsg \in Nat /\ born \in 1..nextMsg
        /\ n = nextMsg + Cardinality(F) /\ n \in Nat /\ n >= nextMsg
    <2>1. ListOK /\ nextMsg \in Nat /\ born \in 1..nextMsg /\ n = nextMsg + Cardinality(F)
      BY <1>1 DEF IndInv, Basics
    <2> QED
      BY <1>3, <2>1
  <1>5. ASSUME NEW m \in F
        PROVE  Cardinality({x \in F : Before(x, m)}) \in 0..(Cardinality(F) - 1)
    <2>1. PICK S : S = {x \in F : Before(x, m)}
      OBVIOUS
    <2>2. ~Before(m, m)
      <3>1. m.kind = "req" => Place(m.ref) \in Nat
        BY <1>2, <1>3, <1>4, PlaceOf, LenProperties DEF ListOK
      <3>2. m.kind = "drop" => m.ref \in Nat
        BY <1>2, <1>3
      <3> QED
        BY <3>1, <3>2 DEF Before
    <2>3. S \subseteq F /\ S # F
      BY <2>1, <2>2
    <2>4. /\ IsFiniteSet(S) /\ Cardinality(S) <= Cardinality(F) /\ Cardinality(S) # Cardinality(F)
      BY <1>3, <2>3, FS_Subset
    <2>5. Cardinality(S) \in Nat
      BY <2>4, FS_CardinalityType
    <2> QED
      BY <1>3, <2>1, <2>4, <2>5
  <1>6. ASSUME NEW p \in Prepared(out)
        PROVE  /\ p.id \in 1..(n - 1)
               /\ p.kind = "req" =>
                    p.ref \in Queued /\ (p.id >= born \/ \E x \in late : x[1] = p.ref)
    <2>1. PICK m \in out :
            p = [m EXCEPT !.id = IF @ # 0 THEN @
                                 ELSE nextMsg + Cardinality({x \in Fresh(out) : Before(x, m)})]
      BY DEF Prepared
    <2>2. PICK i : i = IF m.id # 0 THEN m.id
                       ELSE nextMsg + Cardinality({x \in F : Before(x, m)})
      OBVIOUS
    <2>3. p = [m EXCEPT !.id = i]
      BY <1>1, <2>1, <2>2
    <2>4. DOMAIN m = {"kind", "ref", "id"}
      BY <1>2
    <2>5. p.id = i /\ p.kind = m.kind /\ p.ref = m.ref
      BY <2>3, <2>4
    <2>6. CASE m.id # 0
      BY <1>2, <1>3, <1>4, <2>2, <2>5, <2>6
    <2>7. CASE m.id = 0
      <3>1. m \in F
        BY <1>1, <2>7 DEF Fresh
      <3>2. PICK k \in 0..(Cardinality(F) - 1) : i = nextMsg + k
        BY <1>5, <2>2, <2>7, <3>1
      <3>3. i \in 1..(n - 1) /\ i >= born
        BY <1>3, <1>4, <3>2
      <3> QED
        BY <1>2, <2>5, <3>3
    <2> QED
      BY <2>6, <2>7
  <1> QED
    BY <1>4, <1>6

(* The payloads hold messages of the list, and are as many as the cuts make. *)
LEMMA PayloadsAre ==
    ASSUME NEW list, NEW n \in Nat, \A m \in list : m.id \in 1..(n - 1),
           NEW cuts, cuts \subseteq {m.id : m \in list}, NEW first, NEW ps,
           ps = Payloads(list, cuts, first)
    PROVE  /\ IsQueue(ps) /\ ps # <<>> /\ \A i \in 1..Len(ps) : ps[i].msgs \subseteq list
           /\ IsFiniteSet(ToSet(ps))
  <1>1. PICK k : k = Cardinality(cuts) + 1
    OBVIOUS
  <1>2. IsFiniteSet(cuts)
    <2>1. PICK I : I = 1..(n - 1)
      OBVIOUS
    <2>2. IsFiniteSet(I)
      BY <2>1, FS_Interval
    <2>3. cuts \subseteq I
      BY <2>1
    <2> QED
      BY <2>2, <2>3, FS_Subset
  <1>3. k \in Nat /\ k # 0
    BY <1>1, <1>2, FS_CardinalityType
  <1> DEFINE part(i)  == {m \in list : Cardinality({c \in cuts : c < m.id}) = i - 1}
             boxed(i) == Cardinality({j \in 1..i : Cardinality(part(j)) > 1})
             at(i) == [sess |-> session, msgs |-> part(i),
                       box |-> IF Cardinality(part(i)) > 1 THEN first + boxed(i) - 1 ELSE 0]
  <1>4. ps = [i \in 1..k |-> at(i)]
    BY <1>1 DEF Payloads
  <1>5. \A i : at(i).msgs \subseteq list
    OBVIOUS
  <1> HIDE DEF at
  <1>6. PICK S : S = {at(i) : i \in 1..k}
    OBVIOUS
  <1>7. ps \in [1..k -> S]
    BY <1>4, <1>6
  <1>8. ps \in Seq(S) /\ Len(ps) = k
    BY <1>3, <1>7, LenProperties
  <1>9. IsQueue(ps) /\ ps # <<>>
    BY <1>3, <1>8, EmptySeq DEF IsQueue
  <1>10. \A i \in 1..Len(ps) : ps[i].msgs \subseteq list
    BY <1>4, <1>5, <1>8
  <1>11. IsFiniteSet(ToSet(ps))
    <2>1. ps \in [1..k -> ToSet(ps)] /\ \A x \in ToSet(ps) : \E i \in 1..k : ps[i] = x
      BY <1>7 DEF ToSet
    <2>2. ps \in Surjection(1..k, ToSet(ps))
      BY <2>1 DEF Surjection
    <2> QED
      BY <1>3, <2>2, FS_Interval, FS_Surjection
  <1> QED
    BY <1>9, <1>10, <1>11

(* The block that is posted to the transport t. *)
LEMMA SendPosted ==
    ASSUME IndInv, NEW t \in 1..Len(tr), NEW ps, NEW b,
           tq' = Append(tq, [op |-> "send", t |-> t, payloads |-> ps, batch |-> b]),
           IsQueue(ps), b # {} => ps # <<>>,
           \A j \in 1..Len(ps) : Messages(ps[j].msgs, t, transport, nextMsg', born, late)
    PROVE  \E E : /\ Moved(tq', tq, 0, E) /\ \A r \in b : Posted(E, "send", r)
                  /\ \A x \in E : TqBlock(x, Len(tr), transport, closed, nextMsg', born, late)
  <1>1. PICK d : d = [op |-> "send", t |-> t, payloads |-> ps, batch |-> b]
    OBVIOUS
  <1>2. d.op = "send" /\ d.t = t /\ d.payloads = ps /\ d.batch = b
    BY <1>1
  <1>3. PICK E : E = {} \cup {d}
    OBVIOUS
  <1>4. Moved(tq', tq, 0, E)
    BY <1>1, <1>3, Still, MovedAppend
  <1>5. TqBlock(d, Len(tr), transport, closed, nextMsg', born, late)
    BY <1>2 DEF TqBlock
  <1>6. \A r \in b : Posted(E, "send", r)
    BY <1>2, <1>3 DEF Posted
  <1>7. \A x \in E : TqBlock(x, Len(tr), transport, closed, nextMsg', born, late)
    BY <1>3, <1>5
  <1> QED
    BY <1>4, <1>6, <1>7, Zenon

(* transportReadyForTransaction. *)
LEMMA RunReadyInv ==
    ASSUME IndInv, RunReady
    PROVE  IndInv'
  <1>1. /\ UNCHANGED <<requests, finished, err, timer, drops, born, transport, tr, cq, started,
                       closed, net, srv, late>>
        /\ mq # <<>> /\ Head(mq).op = "ready" /\ mq' = Tail(mq)
    BY DEF RunReady, world
  <1>2. PICK e : e = Head(mq)
    OBVIOUS
  <1>3. HandleReady(e)
    BY <1>2 DEF RunReady
  <1>4. Moved(mq', mq, 1, {}) /\ mq[1].op = "ready" /\ e.t \in 1..Len(tr)
    BY <1>1, <1>2, HeadMq DEF MqBlock
  <1>5. ctx \in [Request -> Context] /\ nextMsg \in Nat
    BY DEF IndInv, CtxOK, Basics
  <1> DEFINE out   == Outgoing(e.ping)
             list  == Prepared(out)
             idOf  == {m.id : m \in list}
             batch == {m.ref : m \in {x \in list : x.kind = "req"}}
             n0 == nextMsg + Cardinality(Fresh(out))
             given(r) == (CHOOSE m \in list : m.kind = "req" /\ m.ref = r).id
  <1>6. CASE /\ tq' = Append(tq, [op |-> "send", t |-> e.t, payloads |-> <<>>, batch |-> {}])
             /\ ctx' = ctx /\ nextMsg' = nextMsg
    <2>1. IsQueue(<<>>) /\ Len(<<>>) = 0
      <3>1. <<>> \in Seq({})
        OBVIOUS
      <3> QED
        BY <3>1 DEF IsQueue
    <2>2. PICK E : /\ Moved(tq', tq, 0, E)
                   /\ \A x \in E : TqBlock(x, Len(tr), transport, closed, nextMsg', born, late)
      <3>1. PICK ps, b, t : ps = <<>> /\ b = {} /\ t = e.t
        OBVIOUS
      <3>2. /\ tq' = Append(tq, [op |-> "send", t |-> t, payloads |-> ps, batch |-> b])
            /\ t \in 1..Len(tr) /\ IsQueue(ps) /\ b = {}
        BY <1>4, <1>6, <2>1, <3>1
      <3>3. \A j \in 1..Len(ps) : Messages(ps[j].msgs, t, transport, nextMsg', born, late)
        BY <2>1, <3>1
      <3> QED
        BY <3>2, <3>3, SendPosted
    <2>3. /\ nextMsg' \in Nat /\ nextMsg <= nextMsg' /\ ctx' \in [Request -> Context]
          /\ \A r \in Request : Prepares(r, E)
      BY <1>5, <1>6 DEF Prepares
    <2> QED
      BY <1>1, <1>4, <2>2, <2>3, ReadyStep
  <1>7. ASSUME NEW cuts \in SUBSET {i \in idOf : \E j \in idOf : i < j}, NEW ps,
               ps = Payloads(list, cuts, n0),
               tq' = Append(tq, [op |-> "send", t |-> e.t, payloads |-> ps, batch |-> batch]),
               nextMsg' = n0 + Cardinality({p \in ToSet(ps) : p.box # 0}),
               ctx' = [r \in Request |->
                         IF r \in batch
                         THEN [msg |-> given(r), txn |-> NoConn, waiting |-> TRUE,
                               delivered |-> FALSE]
                         ELSE ctx[r]]
        PROVE  IndInv'
    <2>1. PICK n : n = n0
      OBVIOUS
    <2>2. /\ n \in Nat /\ n >= nextMsg
          /\ \A m \in list :
               /\ m.id \in 1..(n - 1)
               /\ m.kind = "req" =>
                    m.ref \in Queued /\ (m.id >= born \/ \E x \in late : x[1] = m.ref)
      BY <2>1, PreparedIs
    <2>3. /\ IsQueue(ps) /\ ps # <<>> /\ \A i \in 1..Len(ps) : ps[i].msgs \subseteq list
          /\ IsFiniteSet(ToSet(ps))
      <3>1. PICK L : L = list
        OBVIOUS
      <3>2. cuts \subseteq {m.id : m \in L} /\ \A m \in L : m.id \in 1..(n - 1)
        BY <1>7, <2>2, <3>1
      <3>3. ps = Payloads(L, cuts, n)
        BY <1>7, <2>1, <3>1
      <3>4. n \in Nat
        BY <2>2
      <3>5. /\ IsQueue(ps) /\ ps # <<>> /\ \A i \in 1..Len(ps) : ps[i].msgs \subseteq L
            /\ IsFiniteSet(ToSet(ps))
        BY <3>2, <3>3, <3>4, PayloadsAre
      <3> QED
        BY <3>1, <3>5
    <2>4. nextMsg' \in Nat /\ n <= nextMsg' /\ nextMsg <= nextMsg'
      <3>1. PICK c : c = Cardinality({p \in ToSet(ps) : p.box # 0})
        OBVIOUS
      <3>2. c \in Nat
        BY <2>3, <3>1, FS_Subset, FS_CardinalityType
      <3>3. nextMsg' = n + c
        BY <1>7, <2>1, <3>1
      <3> QED
        BY <1>5, <2>2, <3>2, <3>3
    <2>5. \A i \in 1..(n - 1) : i \in 1..(nextMsg' - 1)
      BY <2>2, <2>4, RangeGrows
    <2>6. \A j \in 1..Len(ps) : Messages(ps[j].msgs, e.t, transport, nextMsg', born, late)
      <3>1. ASSUME NEW m \in list
            PROVE  /\ m.id \in 1..(nextMsg' - 1)
                   /\ m.kind = "req" => m.id >= born \/ \E x \in late : x[1] = m.ref
        BY <2>2, <2>5
      <3> HIDE DEF list
      <3> QED
        BY <2>3, <3>1 DEF Messages
    <2>7. PICK E : /\ Moved(tq', tq, 0, E) /\ \A r \in batch : Posted(E, "send", r)
                   /\ \A x \in E : TqBlock(x, Len(tr), transport, closed, nextMsg', born, late)
      <3>1. PICK b, t : b = batch /\ t = e.t
        OBVIOUS
      <3>2. /\ tq' = Append(tq, [op |-> "send", t |-> t, payloads |-> ps, batch |-> b])
            /\ t \in 1..Len(tr) /\ IsQueue(ps) /\ ps # <<>>
        BY <1>4, <1>7, <2>3, <3>1
      <3>3. \A j \in 1..Len(ps) : Messages(ps[j].msgs, t, transport, nextMsg', born, late)
        BY <2>6, <3>1
      <3>4. PICK E : /\ Moved(tq', tq, 0, E) /\ \A r \in b : Posted(E, "send", r)
                     /\ \A x \in E : TqBlock(x, Len(tr), transport, closed, nextMsg', born, late)
        BY <3>2, <3>3, SendPosted
      <3> HIDE DEF batch
      <3> QED
        BY <3>1, <3>4
    <2>8. ASSUME NEW r \in Request
          PROVE  ctx'[r] \in Context /\ Prepares(r, E)
      <3>1. CASE r \in batch
        <4>1. PICK m : m = CHOOSE x \in list : x.kind = "req" /\ x.ref = r
          OBVIOUS
        <4>2. m \in list /\ m.kind = "req" /\ m.ref = r
          BY <3>1, <4>1
        <4>3. /\ m.id \in 1..(nextMsg' - 1) /\ r \in Queued
              /\ m.id >= born \/ \E x \in late : x[1] = r
          BY <2>2, <2>5, <4>2
        <4>4. ctx'[r] = [msg |-> m.id, txn |-> NoConn, waiting |-> TRUE, delivered |-> FALSE]
          BY <1>7, <3>1, <4>1
        <4>5. ctx'[r] \in Context /\ ctx'[r].msg = m.id /\ ctx'[r].txn = NoConn
          BY <2>4, <4>3, <4>4 DEF Context, NoConn
        <4> HIDE DEF batch, list
        <4> QED
          BY <2>7, <3>1, <4>3, <4>5 DEF Prepares
      <3>2. CASE r \notin batch
        BY <1>5, <1>7, <3>2 DEF Prepares
      <3> QED
        BY <3>1, <3>2
    <2>9. ctx' \in [Request -> Context]
      <3> HIDE DEF batch, given
      <3> QED
        BY <1>7, <2>8
    <2> QED
      BY <1>1, <1>4, <2>4, <2>7, <2>8, <2>9, ReadyStep
  <1>8. CASE e.t # transport \/ timeFix \/ out = {}
    BY <1>3, <1>6, <1>8 DEF HandleReady
  <1>9. CASE ~(e.t # transport \/ timeFix \/ out = {})
    <2>1. PICK cuts \in SUBSET {i \in idOf : \E j \in idOf : i < j} :
            LET ps == Payloads(list, cuts, n0)
                boxes == {p \in ToSet(ps) : p.box # 0}
            IN  /\ tq' = Append(tq, [op |-> "send", t |-> e.t, payloads |-> ps, batch |-> batch])
                /\ nextMsg' = n0 + Cardinality(boxes)
                /\ ctx' = [r \in Request |->
                     IF r \in batch
                     THEN [msg |-> given(r), txn |-> NoConn, waiting |-> TRUE, delivered |-> FALSE]
                     ELSE ctx[r]]
      BY <1>3, <1>9 DEF HandleReady
    <2>2. PICK ps : ps = Payloads(list, cuts, n0)
      OBVIOUS
    <2> QED
      BY <1>7, <2>1, <2>2
  <1> QED
    BY <1>8, <1>9

-----------------------------------------------------------------------------
(*                               The theorems                              *)

LEMMA InitInv == Init => IndInv
  <1> SUFFICES ASSUME Init
               PROVE  IndInv
    OBVIOUS
  <1>1. /\ requests = <<>> /\ finished = {} /\ timer = NoTimer /\ drops = {}
        /\ ctx = [r \in Request |-> NoCtx] /\ err = [r \in Request |-> NoError]
        /\ born = 1 /\ nextMsg = 1 /\ transport = NoTransport /\ mq = <<>> /\ tr = <<>>
        /\ tq = <<>> /\ cq = <<>> /\ started = {} /\ closed = {} /\ net = <<>>
        /\ srv = FreshServer /\ late = {}
    BY DEF Init
  <1>2. \A S : <<>> \in Seq(S)
    OBVIOUS
  <1>3. Len(<<>>) = 0
    OBVIOUS
  <1>4. ListOK
    <2>1. IsInjective(requests) /\ Queued = {}
      BY <1>1 DEF IsInjective, Queued, ToSet
    <2> QED
      BY <1>1, <1>2, <2>1 DEF ListOK
  <1>5. CtxOK
    BY <1>1, <1>3, NoCtxIs DEF CtxOK, NoConn
  <1>6. ErrOK
    <2>1. NoError \in [on : BOOLEAN, wait : Wait, token : BOOLEAN]
      BY WaitIsNat DEF NoError
    <2> QED
      BY <1>1, <2>1 DEF ErrOK
  <1>7. DropsOK
    BY <1>1, FS_EmptySet DEF DropsOK
  <1>8. Basics
    <2>1. IsQueue(<<>>)
      BY <1>2 DEF IsQueue
    <2> QED
      BY <1>1, <1>2, <1>3, <2>1 DEF Basics, NoTransport
  <1>9. ConnsOK /\ TqOK /\ CqOK /\ MqOK /\ TrOK
    BY <1>1, <1>3 DEF ConnsOK, TqOK, CqOK, CloseOK, MqOK, SentOK, TrOK
  <1>10. Recorded /\ Waits /\ Ids /\ Unqueued
    BY <1>1, NoCtxIs DEF Recorded, Waits, Ids, Unqueued
  <1>11. ServerOK
    BY <1>1 DEF ServerOK, FreshServer
  <1> QED
    BY <1>4, <1>5, <1>6, <1>7, <1>8, <1>9, <1>10, <1>11 DEF IndInv

LEMMA NextInv == IndInv /\ [Next]_vars => IndInv'
  <1> SUFFICES ASSUME IndInv, [Next]_vars
               PROVE  IndInv'
    OBVIOUS
  <1>1. CASE Application
    <2>1. CASE \E r \in Request : AddRequest(r)
      BY <2>1, AddRequestInv
    <2>2. CASE \E r \in Request, reconnect \in BOOLEAN : RemoveRequest(r, reconnect)
      BY <2>2, RemoveRequestInv
    <2>3. CASE Pause
      BY <2>3, PauseInv
    <2>4. CASE Resume
      BY <2>4, ResumeInv
    <2>5. CASE TransportSchemeUpdated
      BY <2>5, TransportSchemeUpdatedInv
    <2>6. CASE AuthTokenUpdated
      BY <2>6, AuthTokenUpdatedInv
    <2>7. CASE PasswordEntered
      BY <2>7, PasswordEnteredInv
    <2> QED
      BY <1>1, <2>1, <2>2, <2>3, <2>4, <2>5, <2>6, <2>7 DEF Application
  <1>2. CASE Clock
    BY <1>2, RequestTimerEventInv, TickInv DEF Clock
  <1>3. CASE Manager
    BY <1>3, RunReadyInv, RunSentInv, RunFailedInv, RunDataInv DEF Manager
  <1>4. CASE RunRequestedTransaction
    BY <1>4, RunRequestedTransactionInv
  <1>5. CASE SessionReset
    BY <1>5, SessionResetInv
  <1>6. CASE CompleteTimeSync
    BY <1>6, CompleteTimeSyncInv
  <1>7. CASE TcpQueue
    BY <1>7, RunNeedsInv, RunPassInv, RunSendInv, RunActiveInv, RunStopInv, RunResetInv,
       RunClosedInv DEF TcpQueue
  <1>8. CASE ConnQueue
    BY <1>8, RunStartInv, RunWriteInv, RunCloseInv DEF ConnQueue
  <1>9. CASE \E t \in DOMAIN tr : Connect(t) \/ Opened(t) \/ ConnectionFails(t) \/ ServerRestarts(t)
    BY <1>9, ConnectInv, OpenedInv, ConnectionFailsInv, ServerRestartsInv
  <1>10. CASE \E c \in DOMAIN net : Lose(c) \/ ServerExecutes(c) \/ ServerRejects(c)
    BY <1>10, LoseInv, ServerExecutesInv, ServerRejectsInv
  <1>11. CASE ServerPush
    BY <1>11, ServerPushInv
  <1>12. CASE UNCHANGED vars
    <2>1. /\ UNCHANGED <<requests, finished, ctx, drops, born, nextMsg, transport, mq, tcp, net,
                         srv, late>>
          /\ err' = err /\ timer' = timer
      BY <1>12 DEF vars, service, proto, sessInfo, world
    <2>2. ErrOK'
      BY <2>1 DEF IndInv, ErrOK
    <2> QED
      BY <2>1, <2>2, PlainStep
  <1> QED
    BY <1>1, <1>2, <1>3, <1>4, <1>5, <1>6, <1>7, <1>8, <1>9, <1>10, <1>11, <1>12 DEF Next

(* The inductive invariant holds throughout: every block on the three      *)
(* queues says the truth about the transport it was posted for.            *)
THEOREM Invariance == Spec => []IndInv
  BY InitInv, NextInv, PTL DEF Spec

(* The state of the request service, of MTProto and of the connections is  *)
(* well formed, for any set of requests and any number of disturbances.    *)
THEOREM TypeCorrect == Spec => []TypeOK
  <1>1. IndInv => TypeOK
    <2> SUFFICES ASSUME IndInv
                 PROVE  TypeOK
      OBVIOUS
    <2>1. /\ ListOK /\ CtxOK /\ ErrOK /\ DropsOK /\ ConnsOK /\ Basics
          /\ DOMAIN tr = 1..Len(tr) /\ DOMAIN net = 1..Len(net)
      BY Numbers DEF IndInv
    <2>2. \A d \in drops : d.of \in 1..(nextMsg - 1) /\ d.id \in 0..(nextMsg - 1)
      BY <2>1 DEF DropsOK
    <2> QED
      BY <2>1, <2>2 DEF TypeOK, ListOK, CtxOK, ErrOK, ConnsOK, Basics
  <1> QED
    BY <1>1, Invariance, PTL

(* A request that counts on a connection for its answer is told when the   *)
(* connection breaks: the transport that holds it has a delegate, or the   *)
(* failure is already reported, or the send completed after its transport  *)
(* had been replaced.                                                      *)
THEOREM NobodyStranded == Spec => []NoStrandedRequest
  <1>1. IndInv => NoStrandedRequest
    <2> SUFFICES ASSUME IndInv, NEW r \in Queued, ctx[r].txn # NoConn
                 PROVE  Watched(ctx[r].txn) \/ <<r, ctx[r].txn>> \in late
      BY DEF NoStrandedRequest
    <2>1. /\ ListOK /\ Recorded /\ TrOK /\ transport \in 0..Len(tr) /\ DOMAIN tr = 1..Len(tr)
          /\ Len(tr) \in Nat /\ r \in Request
      BY Numbers, QueuedAre DEF IndInv, Basics
    <2>2. CASE ConnOf(tr, transport) = ctx[r].txn
      <3>1. transport \in DOMAIN tr /\ tr[transport].conn = ctx[r].txn /\ tr[transport].live
        BY <2>1, <2>2 DEF ConnOf, TrOK, NoTransport
      <3> QED
        BY <3>1 DEF Watched
    <2>3. CASE FailsAfter(mq, ctx[r].txn, 0)
      BY <2>3 DEF FailsAfter, FailedBlock, Watched, Contains
    <2> QED
      BY <2>1, <2>2, <2>3 DEF Recorded
  <1> QED
    BY <1>1, Invariance, PTL

(* waitingForMessageId does not outlive its send: the completion that      *)
(* clears it is on one of the queues.                                      *)
THEOREM WaitsEnd == Spec => []WaitingIsAnswered
  <1>1. IndInv => WaitingIsAnswered
    <2> SUFFICES ASSUME IndInv, NEW r \in Queued, ctx[r].waiting
                 PROVE  InFlight(r)
      BY DEF WaitingIsAnswered
    <2>1. /\ Waits /\ r \in Request
          /\ DOMAIN tq = 1..Len(tq) /\ DOMAIN cq = 1..Len(cq) /\ DOMAIN mq = 1..Len(mq)
      BY Numbers, QueuedAre DEF IndInv
    <2> QED
      BY <2>1 DEF Waits, Carries, InFlight
  <1> QED
    BY <1>1, Invariance, PTL

(* A new session leaves no message id of an old one behind, in a context   *)
(* or in a drop request, except through a late completion.                 *)
THEOREM SessionsDoNotMix == Spec => []IdsOfThisSession
  <1>1. IndInv => IdsOfThisSession
    <2> SUFFICES ASSUME IndInv
                 PROVE  IdsOfThisSession
      OBVIOUS
    <2>1. Ids /\ Queued \subseteq Request
      BY QueuedAre DEF IndInv
    <2> QED
      BY <2>1 DEF Ids, IdsOfThisSession
  <1> QED
    BY <1>1, Invariance, PTL

(* All of it together, however a transaction is cut into payloads. *)
THEOREM RequestsAreSafe == Spec => []RequestInv
  BY TypeCorrect, NobodyStranded, WaitsEnd, SessionsDoNotMix, PTL DEF RequestInv

-----------------------------------------------------------------------------
(*                         Nobody is left asleep                           *)

(* q holds, behind the place i, a block of the transport t with an op in O. *)
At(q, O, t, i) == \E j \in 1..Len(q) : j > i /\ q[j].op \in O /\ q[j].t = t

In(E, O, t) == \E e \in E : e.op \in O /\ e.t = t

Calls    == {"needs", "pass"}
Passes   == {"pass"}
Sendings == {"send"}
Readies  == {"ready"}

StartAfter(q, c, i) == \E j \in 1..Len(q) : j > i /\ q[j].op = "start" /\ q[j].c = c

(* The transport t, whose context is x, is about to connect, or to notice  *)
(* that it is not connected.                                               *)
Alert(x, cl) == x.want \/ (x.conn # NoConn /\ ~x.open) \/ x.conn \in cl

(* It will ask for a transaction, behind the place i of the manager queue. *)
Soon(x, t, Q, M, cl, i) ==
    \/ Alert(x, cl) \/ At(Q, Calls, t, 0)
    \/ x.again /\ (At(Q, Sendings, t, 0) \/ At(M, Readies, t, 0))
    \/ At(M, Readies, t, i)

Pend(i) ==
    \/ willRequest \/ paused \/ timeFix
    \/ transport # NoTransport /\ Soon(tr[transport], transport, tq, mq, closed, i)

(* The block is about a message of r. *)
Names(ms, r) == \E m \in ms : m.kind = "req" /\ m.ref = r

OwnSend(e, r) == /\ e.op = "send" /\ r \in e.batch
                 /\ \E j \in 1..Len(e.payloads) : Names(e.payloads[j].msgs, r)
OwnWrite(e, r) == e.op = "write" /\ r \in e.batch /\ Names(e.p.msgs, r)
OwnSent(e, r) == e.op = "sent" /\ r \in e.batch /\ Names(e.msgs, r)

Own(r) ==
    \/ \E i \in 1..Len(tq) : OwnSend(tq[i], r)
    \/ \E i \in 1..Len(cq) : OwnWrite(cq[i], r)
    \/ \E i \in 1..Len(mq) : OwnSent(mq[i], r)

(* The context x of the current transport t.  Unless it has a connection   *)
(* or somebody is going to ask for a transaction (w), it was asked; what   *)
(* its flags say is true of the queues.                                    *)
CurrentOK(x, t, Q, M, st, w) ==
    /\ x.conn = NoConn => w \/ x.want \/ At(Q, Calls, t, 0)
    /\ x.will => At(Q, Passes, t, 0)
    /\ x.lock => At(Q, Sendings, t, 0) \/ At(M, Readies, t, 0)
    /\ ~x.stopped
    /\ x.open => x.conn \in st

Current == transport # NoTransport =>
             CurrentOK(tr[transport], transport, tq, mq, started, willRequest \/ paused)

Resting == transport = NoTransport => paused \/ Len(tr) = 0

(* Every connection is started once. *)
StartsOnce(q, st) ==
    \A i \in 1..Len(q) : q[i].op = "start" =>
        /\ q[i].c \notin st
        /\ \A j \in 1..Len(q) : q[j].op = "start" /\ q[j].c = q[i].c => i = j

(* What a replaced transport has still to send is sent before the current  *)
(* one looks whether it is connected.                                      *)
OldSends(q, x, t) ==
    \A i \in 1..Len(q) : q[i].op = "send" /\ q[i].batch # {} /\ q[i].t # t =>
        /\ x.conn = NoConn /\ ~x.want
        /\ \A j \in 1..Len(q) : q[j].op \in Calls /\ q[j].t = t => j > i

(* What is to be written to another connection than the current one is     *)
(* written before that one is started.                                     *)
OldWrites(q, c) ==
    \A i \in 1..Len(q) : q[i].op = "write" /\ q[i].batch # {} =>
        c \in {NoConn, q[i].c} \/ StartAfter(q, c, i)

Sends == transport # NoTransport => OldSends(tq, tr[transport], transport)

Writes == transport # NoTransport => OldWrites(cq, tr[transport].conn)

Failures ==
    \A i \in 1..Len(mq) : mq[i].op = "sent" /\ ~mq[i].ok /\ mq[i].batch # {} => Pend(i)

Answered == \A r \in Request : ctx[r].waiting => Own(r)

Asleep == \A r \in Queued : Sendable(r) /\ ~err[r].on => Pend(0) \/ Own(r)

WakeInv ==
    /\ Current /\ Resting /\ StartsOnce(cq, started) /\ Sends /\ Writes /\ Failures
    /\ Answered /\ Asleep

-----------------------------------------------------------------------------
(*                        What a step does to them                         *)

AtMoved(r, q, k, E, O, t) ==
    /\ At(q, O, t, k) => At(r, O, t, 0)
    /\ \A i \in 1..Len(q) : i > k /\ At(q, O, t, i) => At(r, O, t, i - k)
    /\ At(q, O, t, 0) => At(r, O, t, 0) \/ (k = 1 /\ q[1].op \in O /\ q[1].t = t)
    /\ In(E, O, t) => At(r, O, t, 0)
    /\ In(E, O, t) => \A i \in 1..Len(q) : i > k => At(r, O, t, i - k)
    /\ At(r, O, t, 0) => At(q, O, t, k) \/ In(E, O, t)

LEMMA AtStep ==
    ASSUME NEW q, NEW r, NEW k \in {0, 1}, NEW E, Moved(r, q, k, E), NEW O, NEW t
    PROVE  AtMoved(r, q, k, E, O, t)
  <1> DEFINE n == Len(q)
             m == Len(r)
  <1>1. /\ n \in Nat /\ m \in Nat
        /\ \A i \in 1..n : i > k => i - k \in 1..m /\ r[i - k] = q[i]
        /\ \A i \in 1..m : \/ i + k \in 1..n /\ r[i] = q[i + k]
                           \/ i > n - k /\ r[i] \in E
        /\ \A e \in E : \E i \in 1..m : i > n - k /\ r[i] = e
    BY DEF Moved
  <1> HIDE DEF n, m
  <1>2. /\ \A i : At(q, O, t, i) <=> \E j \in 1..n : j > i /\ q[j].op \in O /\ q[j].t = t
        /\ \A i : At(r, O, t, i) <=> \E j \in 1..m : j > i /\ r[j].op \in O /\ r[j].t = t
    BY DEF At, n, m
  <1>3. /\ \A j \in 1..n : q[j].op \in O /\ q[j].t = t /\ j > k =>
             j - k \in 1..m /\ r[j - k].op \in O /\ r[j - k].t = t
        /\ In(E, O, t) => \E j \in 1..m : j > n - k /\ r[j].op \in O /\ r[j].t = t
        /\ \A j \in 1..m : r[j].op \in O /\ r[j].t = t =>
             (j + k \in 1..n /\ q[j + k].op \in O /\ q[j + k].t = t) \/ In(E, O, t)
    BY <1>1 DEF In
  <1>4. At(q, O, t, k) => At(r, O, t, 0)
    BY <1>1, <1>2, <1>3
  <1>5. \A i \in 1..n : i > k /\ At(q, O, t, i) => At(r, O, t, i - k)
    BY <1>1, <1>2, <1>3
  <1>6. At(q, O, t, 0) => At(r, O, t, 0) \/ (k = 1 /\ q[1].op \in O /\ q[1].t = t)
    BY <1>1, <1>2, <1>3
  <1>7. /\ In(E, O, t) => At(r, O, t, 0)
        /\ In(E, O, t) => \A i \in 1..n : i > k => At(r, O, t, i - k)
    BY <1>1, <1>2, <1>3
  <1>8. At(r, O, t, 0) => At(q, O, t, k) \/ In(E, O, t)
    BY <1>1, <1>2, <1>3
  <1> QED
    BY <1>4, <1>5, <1>6, <1>7, <1>8 DEF n, AtMoved

(* The current transport, when its context goes from x to y.  Rm and Sent  *)
(* say whether it is asked to be ready and whether a send is posted.       *)
SoonMoves(x, y, t, cl, cl2, Q, kt, Et, M, km, Em) ==
    /\ Alert(x, cl) => Alert(y, cl2) \/ In(Em, Readies, t)
    /\ kt = 1 /\ Q[1].op \in Calls /\ Q[1].t = t =>
         \/ Alert(y, cl2) \/ In(Et, Calls, t) \/ In(Em, Readies, t)
         \/ At(Q, Calls, t, 1)
         \/ y.again /\ (At(Q, Sendings, t, 1) \/ At(M, Readies, t, 0)) /\ km = 0
    /\ x.again => y.again \/ In(Em, Readies, t)
    /\ kt = 1 /\ Q[1].op \in Sendings /\ Q[1].t = t => ~x.again \/ In(Em, Readies, t)
    /\ km = 1 /\ M[1].op \in Readies /\ M[1].t = t => In(Et, Sendings, t)

SoonMoved(x, y, t, cl, cl2, Q, Q2, M, M2, km) ==
    /\ \A i \in 1..Len(M) : i > km /\ Soon(x, t, Q, M, cl, i) => Soon(y, t, Q2, M2, cl2, i - km)
    /\ Soon(x, t, Q, M, cl, km) => Soon(y, t, Q2, M2, cl2, 0)
    /\ Soon(x, t, Q, M, cl, 0) =>
         Soon(y, t, Q2, M2, cl2, 0) \/ (km = 1 /\ M[1].op \in Readies /\ M[1].t = t)

LEMMA SoonStep ==
    ASSUME NEW x, NEW y, NEW t, NEW cl, NEW cl2,
           NEW Q, NEW Q2, NEW kt \in {0, 1}, NEW Et, Moved(Q2, Q, kt, Et),
           NEW M, NEW M2, NEW km \in {0, 1}, NEW Em, Moved(M2, M, km, Em),
           SoonMoves(x, y, t, cl, cl2, Q, kt, Et, M, km, Em)
    PROVE  SoonMoved(x, y, t, cl, cl2, Q, Q2, M, M2, km)
  <1>1. /\ Len(M) \in Nat /\ Len(Q) \in Nat
    BY DEF Moved
  <1>0. /\ AtMoved(Q2, Q, kt, Et, Calls, t) /\ AtMoved(Q2, Q, kt, Et, Sendings, t)
        /\ AtMoved(M2, M, km, Em, Readies, t)
    BY AtStep
  <1>a. /\ At(Q, Calls, t, kt) => At(Q2, Calls, t, 0)
        /\ At(Q, Calls, t, 0) => At(Q2, Calls, t, 0) \/ (kt = 1 /\ Q[1].op \in Calls /\ Q[1].t = t)
        /\ In(Et, Calls, t) => At(Q2, Calls, t, 0)
    BY <1>0 DEF AtMoved
  <1>b. /\ At(Q, Sendings, t, kt) => At(Q2, Sendings, t, 0)
        /\ At(Q, Sendings, t, 0) =>
             At(Q2, Sendings, t, 0) \/ (kt = 1 /\ Q[1].op \in Sendings /\ Q[1].t = t)
        /\ In(Et, Sendings, t) => At(Q2, Sendings, t, 0)
    BY <1>0 DEF AtMoved
  <1>c. /\ At(M, Readies, t, km) => At(M2, Readies, t, 0)
        /\ \A i \in 1..Len(M) : i > km /\ At(M, Readies, t, i) => At(M2, Readies, t, i - km)
        /\ At(M, Readies, t, 0) =>
             At(M2, Readies, t, 0) \/ (km = 1 /\ M[1].op \in Readies /\ M[1].t = t)
        /\ In(Em, Readies, t) => At(M2, Readies, t, 0)
        /\ In(Em, Readies, t) => \A i \in 1..Len(M) : i > km => At(M2, Readies, t, i - km)
    BY <1>0 DEF AtMoved
  <1>2. In(Em, Readies, t) =>
          /\ Soon(y, t, Q2, M2, cl2, 0)
          /\ \A i \in 1..Len(M) : i > km => Soon(y, t, Q2, M2, cl2, i - km)
    BY <1>a, <1>b, <1>c DEF Soon
  <1>3. Alert(x, cl) => Alert(y, cl2) \/ In(Em, Readies, t)
    BY DEF SoonMoves
  <1>4. \/ ~At(Q, Calls, t, 0) \/ Alert(y, cl2) \/ In(Em, Readies, t) \/ At(Q2, Calls, t, 0)
        \/ y.again /\ (At(Q2, Sendings, t, 0) \/ At(M2, Readies, t, 0))
    <2>1. CASE kt = 1 /\ Q[1].op \in Calls /\ Q[1].t = t
      <3>1. \/ Alert(y, cl2) \/ In(Et, Calls, t) \/ In(Em, Readies, t) \/ At(Q, Calls, t, 1)
            \/ y.again /\ (At(Q, Sendings, t, 1) \/ At(M, Readies, t, 0)) /\ km = 0
        BY <2>1 DEF SoonMoves
      <3>2. In(Et, Calls, t) \/ At(Q, Calls, t, 1) => At(Q2, Calls, t, 0)
        BY <2>1, <1>a, <1>b, <1>c
      <3>3. /\ At(Q, Sendings, t, 1) => At(Q2, Sendings, t, 0)
            /\ km = 0 /\ At(M, Readies, t, 0) => At(M2, Readies, t, 0)
        BY <2>1, <1>a, <1>b, <1>c
      <3> QED
        BY <3>1, <3>2, <3>3
    <2>2. CASE ~(kt = 1 /\ Q[1].op \in Calls /\ Q[1].t = t)
      BY <2>2, <1>a, <1>b, <1>c
    <2> QED
      BY <2>1, <2>2
  <1>5. x.again /\ (At(Q, Sendings, t, 0) \/ At(M, Readies, t, 0)) =>
          \/ In(Em, Readies, t)
          \/ y.again /\ (At(Q2, Sendings, t, 0) \/ At(M2, Readies, t, 0))
    <2> SUFFICES ASSUME x.again, ~In(Em, Readies, t),
                        At(Q, Sendings, t, 0) \/ At(M, Readies, t, 0)
                 PROVE  y.again /\ (At(Q2, Sendings, t, 0) \/ At(M2, Readies, t, 0))
      OBVIOUS
    <2>1. y.again /\ ~(kt = 1 /\ Q[1].op \in Sendings /\ Q[1].t = t)
      BY DEF SoonMoves
    <2>2. km = 1 /\ M[1].op \in Readies /\ M[1].t = t => At(Q2, Sendings, t, 0)
      BY <1>a, <1>b, <1>c DEF SoonMoves
    <2>3. At(Q, Sendings, t, 0) => At(Q2, Sendings, t, 0)
      BY <2>1, <1>a, <1>b, <1>c
    <2>4. At(M, Readies, t, 0) => At(M2, Readies, t, 0) \/ At(Q2, Sendings, t, 0)
      BY <2>2, <1>a, <1>b, <1>c
    <2> QED
      BY <2>1, <2>3, <2>4
  <1>6. At(M, Readies, t, 0) =>
          At(M2, Readies, t, 0) \/ (km = 1 /\ M[1].op \in Readies /\ M[1].t = t)
    BY <1>a, <1>b, <1>c
  <1>7. \A i \in 1..Len(M) : i > km /\ At(M, Readies, t, i) => At(M2, Readies, t, i - km)
    BY <1>a, <1>b, <1>c
  <1>8. At(M, Readies, t, km) => At(M2, Readies, t, 0)
    BY <1>c
  <1> QED
    BY <1>1, <1>2, <1>3, <1>4, <1>5, <1>6, <1>7, <1>8 DEF Soon, SoonMoved

(* The sockets st2 are those in st and the one that was just made. *)
Made(q, k, E, st, st2) ==
    /\ \A e \in E : e.op # "start"
    /\ \A c \in st2 : c \in st \/ (k = 1 /\ q[1].op = "start" /\ q[1].c = c)

LEMMA StartsStep ==
    ASSUME NEW q, NEW r, NEW k \in {0, 1}, NEW E, Moved(r, q, k, E), NEW st, NEW st2,
           StartsOnce(q, st), Made(q, k, E, st, st2)
    PROVE  StartsOnce(r, st2)
  <1> DEFINE n == Len(q)
             m == Len(r)
  <1>1. /\ n \in Nat /\ m \in Nat
        /\ \A i \in 1..m : \/ i + k \in 1..n /\ r[i] = q[i + k]
                           \/ i > n - k /\ r[i] \in E
    BY DEF Moved
  <1>2. /\ \A i \in 1..n : q[i].op = "start" =>
             /\ q[i].c \notin st
             /\ \A j \in 1..n : q[j].op = "start" /\ q[j].c = q[i].c => i = j
    BY DEF StartsOnce
  <1> HIDE DEF n, m
  <1>3. \A i \in 1..m : r[i].op = "start" => i + k \in 1..n /\ r[i] = q[i + k]
    BY <1>1 DEF Made
  <1>4. ASSUME NEW i \in 1..m, r[i].op = "start"
        PROVE  r[i].c \notin st2 /\ \A j \in 1..m : r[j].op = "start" /\ r[j].c = r[i].c => i = j
    <2>1. i + k \in 1..n /\ r[i] = q[i + k] /\ q[i + k].c \notin st
      BY <1>2, <1>3, <1>4
    <2>2. ~(k = 1 /\ q[1].op = "start" /\ q[1].c = r[i].c)
      BY <1>1, <1>2, <1>4, <2>1
    <2>3. \A j \in 1..m : r[j].op = "start" /\ r[j].c = r[i].c => i + k = j + k
      BY <1>2, <1>3, <1>4, <2>1
    <2> QED
      BY <1>1, <2>1, <2>2, <2>3 DEF Made
  <1> QED
    BY <1>4 DEF StartsOnce, m

StartIn(E, c) == \E e \in E : e.op = "start" /\ e.c = c

(* The current connection goes from c to d. *)
WriteMoves(E, c, d) ==
    /\ d \in {c, NoConn} \/ StartIn(E, d)
    /\ \A e \in E : e.op = "write" /\ e.batch # {} => d \in {NoConn, e.c}

LEMMA WritesStep ==
    ASSUME NEW q, NEW r, NEW k \in {0, 1}, NEW E, Moved(r, q, k, E), NEW c, NEW d,
           OldWrites(q, c), WriteMoves(E, c, d)
    PROVE  OldWrites(r, d)
  <1> DEFINE n == Len(q)
             m == Len(r)
  <1>1. /\ n \in Nat /\ m \in Nat
        /\ \A i \in 1..n : i > k => i - k \in 1..m /\ r[i - k] = q[i]
        /\ \A i \in 1..m : \/ i + k \in 1..n /\ r[i] = q[i + k]
                           \/ i > n - k /\ r[i] \in E
        /\ \A e \in E : \E i \in 1..m : i > n - k /\ r[i] = e
    BY DEF Moved
  <1>2. \A i \in 1..n : q[i].op = "write" /\ q[i].batch # {} =>
          \/ c \in {NoConn, q[i].c}
          \/ \E j \in 1..n : j > i /\ q[j].op = "start" /\ q[j].c = c
    BY DEF OldWrites, StartAfter
  <1> HIDE DEF n, m
  <1>3. ASSUME NEW i \in 1..m, r[i].op = "write", r[i].batch # {}
        PROVE  d \in {NoConn, r[i].c} \/ \E j \in 1..m : j > i /\ r[j].op = "start" /\ r[j].c = d
    <2>1. CASE i + k \in 1..n /\ r[i] = q[i + k]
      <3>1. CASE StartIn(E, d)
        BY <1>1, <2>1, <3>1 DEF StartIn
      <3>2. CASE d = c
        <4>1. CASE c \in {NoConn, q[i + k].c}
          BY <2>1, <3>2, <4>1
        <4>2. CASE \E j \in 1..n : j > i + k /\ q[j].op = "start" /\ q[j].c = c
          BY <1>1, <3>2, <4>2
        <4> QED
          BY <1>2, <1>3, <2>1, <4>1, <4>2
      <3> QED
        BY <3>1, <3>2 DEF WriteMoves
    <2>2. CASE r[i] \in E
      BY <1>3, <2>2 DEF WriteMoves
    <2> QED
      BY <1>1, <2>1, <2>2
  <1> QED
    BY <1>3 DEF OldWrites, StartAfter, m

(* The transport t stays unconnected, and no other one posts a send. *)
SendMoves(q, k, E, x, y, t) ==
    /\ \/ k = 1 /\ q[1].op \in Calls /\ q[1].t = t
       \/ x.conn = NoConn /\ ~x.want => y.conn = NoConn /\ ~y.want
    /\ \A e \in E : e.op = "send" => e.batch = {} \/ e.t = t

LEMMA SendsStep ==
    ASSUME NEW q, NEW r, NEW k \in {0, 1}, NEW E, Moved(r, q, k, E), NEW x, NEW y, NEW t,
           OldSends(q, x, t), SendMoves(q, k, E, x, y, t)
    PROVE  OldSends(r, y, t)
  <1> DEFINE n == Len(q)
             m == Len(r)
  <1>1. /\ n \in Nat /\ m \in Nat
        /\ \A i \in 1..m : \/ i + k \in 1..n /\ r[i] = q[i + k]
                           \/ i > n - k /\ r[i] \in E
    BY DEF Moved
  <1>2. \A i \in 1..n : q[i].op = "send" /\ q[i].batch # {} /\ q[i].t # t =>
          /\ x.conn = NoConn /\ ~x.want
          /\ \A j \in 1..n : q[j].op \in Calls /\ q[j].t = t => j > i
    BY DEF OldSends
  <1> HIDE DEF n, m
  <1>3. ASSUME NEW i \in 1..m, r[i].op = "send", r[i].batch # {}, r[i].t # t
        PROVE  /\ y.conn = NoConn /\ ~y.want
               /\ \A j \in 1..m : r[j].op \in Calls /\ r[j].t = t => j > i
    <2>1. i + k \in 1..n /\ r[i] = q[i + k]
      BY <1>1, <1>3 DEF SendMoves
    <2>2. /\ x.conn = NoConn /\ ~x.want
          /\ \A j \in 1..n : q[j].op \in Calls /\ q[j].t = t => j > i + k
      BY <1>2, <1>3, <2>1
    <2>3. ~(k = 1 /\ q[1].op \in Calls /\ q[1].t = t)
      <3>1. k = 1 => 1 \in 1..n
        BY <1>1, <2>1
      <3> QED
        BY <1>1, <2>1, <2>2, <3>1
    <2>4. ASSUME NEW j \in 1..m, r[j].op \in Calls, r[j].t = t
          PROVE  j > i
      <3>1. CASE j + k \in 1..n /\ r[j] = q[j + k]
        BY <2>2, <2>4, <3>1
      <3>2. CASE j > n - k
        BY <1>1, <2>1, <3>2
      <3> QED
        BY <1>1, <3>1, <3>2
    <2> QED
      BY <2>2, <2>3, <2>4 DEF SendMoves
  <1> QED
    BY <1>3 DEF OldSends, m

(* A block that is not taken stays. *)
Places(r, q, k, E) ==
    /\ Len(q) \in Nat /\ Len(r) \in Nat
    /\ \A i \in 1..Len(q) : (k = 1 /\ i = 1) \/ \E j \in 1..Len(r) : r[j] = q[i]
    /\ \A e \in E : \E j \in 1..Len(r) : r[j] = e
    /\ \A j \in 1..Len(r) : r[j] \in E \/ (j + k \in 1..Len(q) /\ r[j] = q[j + k])

LEMMA PlacesStep ==
    ASSUME NEW q, NEW r, NEW k \in {0, 1}, NEW E, Moved(r, q, k, E)
    PROVE  Places(r, q, k, E)
  BY DEF Moved, Places

(* The completions of r are handed on. *)
OwnMoves(kt, Et, kc, Ec, km, Em) ==
    /\ \A r : kt = 1 /\ OwnSend(tq[1], r) =>
         (\E e \in Ec : OwnWrite(e, r)) \/ \E e \in Em : OwnSent(e, r)
    /\ \A r : kc = 1 /\ OwnWrite(cq[1], r) => \E e \in Em : OwnSent(e, r)

LEMMA OwnStep ==
    ASSUME NEW kt \in {0, 1}, NEW Et, Moved(tq', tq, kt, Et),
           NEW kc \in {0, 1}, NEW Ec, Moved(cq', cq, kc, Ec),
           NEW km \in {0, 1}, NEW Em, Moved(mq', mq, km, Em),
           OwnMoves(kt, Et, kc, Ec, km, Em), NEW r
    PROVE  /\ Own(r) => Own(r)' \/ (km = 1 /\ OwnSent(mq[1], r))
           /\ (\E e \in Et : OwnSend(e, r)) => Own(r)'
  <1>0. /\ Places(tq', tq, kt, Et) /\ Places(cq', cq, kc, Ec) /\ Places(mq', mq, km, Em)
    BY PlacesStep
  <1>1. /\ (\E i \in 1..Len(tq) : OwnSend(tq[i], r)) =>
             (\E i \in 1..Len(tq') : OwnSend(tq'[i], r)) \/ (kt = 1 /\ OwnSend(tq[1], r))
        /\ (\E e \in Et : OwnSend(e, r)) => \E i \in 1..Len(tq') : OwnSend(tq'[i], r)
    BY <1>0 DEF Places
  <1>2. /\ (\E i \in 1..Len(cq) : OwnWrite(cq[i], r)) =>
             (\E i \in 1..Len(cq') : OwnWrite(cq'[i], r)) \/ (kc = 1 /\ OwnWrite(cq[1], r))
        /\ (\E e \in Ec : OwnWrite(e, r)) => \E i \in 1..Len(cq') : OwnWrite(cq'[i], r)
    BY <1>0 DEF Places
  <1>3. /\ (\E i \in 1..Len(mq) : OwnSent(mq[i], r)) =>
             (\E i \in 1..Len(mq') : OwnSent(mq'[i], r)) \/ (km = 1 /\ OwnSent(mq[1], r))
        /\ (\E e \in Em : OwnSent(e, r)) => \E i \in 1..Len(mq') : OwnSent(mq'[i], r)
    BY <1>0 DEF Places
  <1>4. Own(r)' <=> \/ \E i \in 1..Len(tq') : OwnSend(tq'[i], r)
                    \/ \E i \in 1..Len(cq') : OwnWrite(cq'[i], r)
                    \/ \E i \in 1..Len(mq') : OwnSent(mq'[i], r)
    BY DEF Own
  <1> QED
    BY <1>1, <1>2, <1>3, <1>4 DEF Own, OwnMoves

(* Somebody asks for a transaction, or will when something ends. *)
Rouse == willRequest \/ paused \/ timeFix

(* The client will look whatever is on the manager queue. *)
Aware ==
    \/ Rouse
    \/ /\ transport # NoTransport
       /\ Alert(tr[transport], closed) \/ At(tq, Calls, transport, 0)

(* What a step does about the current transport. *)
PendMoves(kt, Et, km, Em) ==
    /\ transport' = transport
    /\ Rouse => Rouse' \/ (transport # NoTransport /\ In(Et, Calls, transport))
    /\ transport # NoTransport =>
         SoonMoves(tr[transport], tr'[transport], transport, closed, closed', tq, kt, Et, mq, km, Em)

(* The block that is taken lets the current transport's transaction begin. *)
ReadyTaken(km) ==
    km = 1 /\ transport # NoTransport /\ mq[1].op \in Readies /\ mq[1].t = transport

LEMMA PendStep ==
    ASSUME NEW kt \in {0, 1}, NEW Et, Moved(tq', tq, kt, Et),
           NEW km \in {0, 1}, NEW Em, Moved(mq', mq, km, Em), PendMoves(kt, Et, km, Em)
    PROVE  /\ \A i \in 1..Len(mq) : i > km /\ Pend(i) => Pend(i - km)'
           /\ Pend(km) => Pend(0)'
           /\ Pend(0) => Pend(0)' \/ ReadyTaken(km)
           /\ Aware' => \A i : Pend(i)'
  <1>1. \A i : Pend(i) <=>
          \/ Rouse
          \/ transport # NoTransport /\ Soon(tr[transport], transport, tq, mq, closed, i)
    BY DEF Pend, Rouse
  <1>2. /\ transport' = transport
        /\ Rouse => Rouse' \/ (transport # NoTransport /\ In(Et, Calls, transport))
    BY DEF PendMoves
  <1>3. \A i : Pend(i)' <=>
          \/ Rouse'
          \/ transport # NoTransport /\ Soon(tr'[transport], transport, tq', mq', closed', i)
    BY <1>2 DEF Pend, Rouse
  <1>4. CASE transport = NoTransport
    BY <1>1, <1>2, <1>3, <1>4 DEF Aware
  <1>5. CASE transport # NoTransport
    <2>1. PICK x, y, t : x = tr[transport] /\ y = tr'[transport] /\ t = transport
      OBVIOUS
    <2>2. SoonMoves(x, y, t, closed, closed', tq, kt, Et, mq, km, Em)
      BY <1>5, <2>1 DEF PendMoves
    <2>3. /\ \A i \in 1..Len(mq) : i > km /\ Soon(x, t, tq, mq, closed, i) =>
               Soon(y, t, tq', mq', closed', i - km)
          /\ Soon(x, t, tq, mq, closed, km) => Soon(y, t, tq', mq', closed', 0)
          /\ Soon(x, t, tq, mq, closed, 0) =>
               Soon(y, t, tq', mq', closed', 0) \/ (km = 1 /\ mq[1].op \in Readies /\ mq[1].t = t)
      <3>1. SoonMoved(x, y, t, closed, closed', tq, tq', mq, mq', km)
        BY <2>2, SoonStep
      <3> QED
        BY <3>1 DEF SoonMoved
    <2>4. AtMoved(tq', tq, kt, Et, Calls, t)
      BY AtStep
    <2>5. In(Et, Calls, t) => \A i : Soon(y, t, tq', mq', closed', i)
      BY <2>4 DEF AtMoved, Soon
    <2>6. Aware' => \A i : Pend(i)'
      BY <1>2, <1>3, <1>5 DEF Aware, Soon
    <2> QED
      BY <1>1, <1>2, <1>3, <1>5, <2>1, <2>3, <2>5, <2>6 DEF ReadyTaken
  <1> QED
    BY <1>4, <1>5

(* The requests that can be sent after the step. *)
SleepMoves(Et, km) ==
    \A r \in Queued' : Sendable(r)' /\ ~err'[r].on =>
        \/ Rouse'
        \/ \E e \in Et : OwnSend(e, r)
        \/ r \in Queued /\ Sendable(r) /\ ~err[r].on /\ ~(km = 1 /\ OwnSent(mq[1], r)) /\ ~ReadyTaken(km)
        \/ r \in Request /\ ctx[r].waiting /\ ~(km = 1 /\ OwnSent(mq[1], r))
        \/ km = 1 /\ mq # <<>> /\ mq[1].op = "sent" /\ ~mq[1].ok /\ mq[1].batch # {}

WaitMoves(Et, km) ==
    \A r \in Request : ctx'[r].waiting =>
        \/ \E e \in Et : OwnSend(e, r)
        \/ ctx[r].waiting /\ ~(km = 1 /\ OwnSent(mq[1], r))

(* A step that keeps the transport. *)
LEMMA WakeStep ==
    ASSUME IndInv, WakeInv,
           NEW kt \in {0, 1}, NEW Et, Moved(tq', tq, kt, Et),
           NEW kc \in {0, 1}, NEW Ec, Moved(cq', cq, kc, Ec),
           NEW km \in {0, 1}, NEW Em, Moved(mq', mq, km, Em),
           PendMoves(kt, Et, km, Em), OwnMoves(kt, Et, kc, Ec, km, Em),
           Current', Resting', StartsOnce(cq', started'), Sends', Writes',
           \A e \in Em : e.op = "sent" /\ ~e.ok /\ e.batch # {} => Aware',
           WaitMoves(Et, km), SleepMoves(Et, km)
    PROVE  WakeInv'
  <1>1. /\ \A i \in 1..Len(mq) : i > km /\ Pend(i) => Pend(i - km)'
        /\ Pend(km) => Pend(0)'
        /\ Pend(0) => Pend(0)' \/ ReadyTaken(km)
        /\ Aware' => \A i : Pend(i)'
    BY PendStep
  <1>2. \A r : /\ Own(r) => Own(r)' \/ (km = 1 /\ OwnSent(mq[1], r))
               /\ (\E e \in Et : OwnSend(e, r)) => Own(r)'
    BY OwnStep
  <1>3. Failures'
    <2> SUFFICES ASSUME NEW i \in 1..Len(mq'), mq'[i].op = "sent", ~mq'[i].ok, mq'[i].batch # {}
                 PROVE  Pend(i)'
      BY DEF Failures
    <2>1. Places(mq', mq, km, Em) /\ Failures
      BY PlacesStep DEF WakeInv
    <2>2. CASE mq'[i] \in Em
      BY <1>1, <2>2
    <2>3. CASE i + km \in 1..Len(mq) /\ mq'[i] = mq[i + km]
      <3>1. Pend(i + km)
        BY <2>1, <2>3 DEF Failures
      <3>2. i + km > km /\ (i + km) - km = i
        BY <2>1 DEF Places
      <3>3. PICK h : h = i + km
        OBVIOUS
      <3>4. Pend(h - km)'
        BY <1>1, <2>3, <3>1, <3>2, <3>3
      <3> QED
        BY <3>2, <3>3, <3>4
    <2> QED
      BY <2>1, <2>2, <2>3 DEF Places
  <1>4. Answered'
    <2> SUFFICES ASSUME NEW r \in Request, ctx'[r].waiting
                 PROVE  Own(r)'
      BY DEF Answered
    <2>1. Answered
      BY DEF WakeInv
    <2> QED
      BY <1>2, <2>1 DEF Answered, WaitMoves
  <1>5. Asleep'
    <2> SUFFICES ASSUME NEW r \in Queued', Sendable(r)', ~err'[r].on
                 PROVE  Pend(0)' \/ Own(r)'
      BY DEF Asleep
    <2>1. Answered /\ Asleep /\ Failures
      BY DEF WakeInv
    <2>2. Rouse' => Pend(0)'
      BY <1>1 DEF Aware
    <2>3. ASSUME km = 1, mq # <<>>, mq[1].op = "sent", ~mq[1].ok, mq[1].batch # {}
          PROVE  Pend(0)'
      <3>1. 1 \in 1..Len(mq)
        BY <2>3, MovedTail DEF IndInv, Basics
      <3> QED
        BY <1>1, <2>1, <2>3, <3>1 DEF Failures
    <2> QED
      BY <1>1, <1>2, <2>1, <2>2, <2>3 DEF SleepMoves, Answered, Asleep
  <1> QED
    BY <1>3, <1>4, <1>5 DEF WakeInv

(* The current transport does not notice. *)
Unnoticed(kt, Et, km) ==
    /\ transport' = transport /\ Len(tr') = Len(tr)
    /\ transport # NoTransport => tr'[transport] = tr[transport]
    /\ closed \subseteq closed' /\ started \subseteq started'
    /\ (paused => paused') /\ (timeFix => timeFix' \/ willRequest') /\ (willRequest => willRequest')
    /\ kt = 1 => tq[1].op \notin {"needs", "pass", "send"}
    /\ \A e \in Et : e.op # "send"
    /\ km = 1 => mq[1].op # "ready"

(* No connection is started, nothing is written. *)
NoWrites(kc, Ec) ==
    /\ Made(cq, kc, Ec, started, started')
    /\ \A e \in Ec : e.op # "write"

LEMMA QuietWake ==
    ASSUME IndInv, WakeInv,
           NEW kt \in {0, 1}, NEW Et, Moved(tq', tq, kt, Et),
           NEW kc \in {0, 1}, NEW Ec, Moved(cq', cq, kc, Ec),
           NEW km \in {0, 1}, NEW Em, Moved(mq', mq, km, Em),
           Unnoticed(kt, Et, km), NoWrites(kc, Ec),
           \A r : kc = 1 /\ OwnWrite(cq[1], r) => \E e \in Em : OwnSent(e, r),
           \A e \in Em : e.op = "sent" /\ ~e.ok /\ e.batch # {} => Aware',
           WaitMoves(Et, km), SleepMoves(Et, km)
    PROVE  WakeInv'
  <1>1. /\ transport' = transport /\ Len(tr') = Len(tr)
        /\ transport # NoTransport => tr'[transport] = tr[transport]
        /\ closed \subseteq closed' /\ started \subseteq started'
        /\ (paused => paused') /\ (timeFix => timeFix' \/ willRequest') /\ (willRequest => willRequest')
        /\ kt = 1 => tq[1].op \notin Calls \cup Sendings
        /\ \A e \in Et : e.op # "send"
        /\ km = 1 => mq[1].op \notin Readies
    BY DEF Unnoticed, Calls, Sendings, Readies
  <1>2. PICK x, t : x = tr[transport] /\ t = transport
    OBVIOUS
  <1>3. PendMoves(kt, Et, km, Em)
    <2>1. Rouse => Rouse'
      BY <1>1 DEF Rouse
    <2>2. SoonMoves(x, x, t, closed, closed', tq, kt, Et, mq, km, Em)
      BY <1>1 DEF SoonMoves, Alert
    <2> QED
      BY <1>1, <1>2, <2>1, <2>2 DEF PendMoves
  <1>4. OwnMoves(kt, Et, kc, Ec, km, Em)
    BY <1>1 DEF OwnMoves, OwnSend, Sendings
  <1>5. Current' /\ Resting'
    <2>1. /\ AtMoved(tq', tq, kt, Et, Calls, t) /\ AtMoved(tq', tq, kt, Et, Passes, t)
          /\ AtMoved(tq', tq, kt, Et, Sendings, t) /\ AtMoved(mq', mq, km, Em, Readies, t)
      BY AtStep
    <2>2. kt = 1 => tq[1].op \notin Passes
      BY <1>1 DEF Passes, Calls
    <2>3. /\ At(tq, Calls, t, 0) => At(tq', Calls, t, 0)
          /\ At(tq, Passes, t, 0) => At(tq', Passes, t, 0)
          /\ At(tq, Sendings, t, 0) => At(tq', Sendings, t, 0)
          /\ At(mq, Readies, t, 0) => At(mq', Readies, t, 0)
      BY <1>1, <2>1, <2>2 DEF AtMoved
    <2>4. ASSUME CurrentOK(x, t, tq, mq, started, willRequest \/ paused)
          PROVE  CurrentOK(x, t, tq', mq', started', willRequest' \/ paused')
      BY <1>1, <2>3, <2>4 DEF CurrentOK
    <2>5. Current'
      BY <1>1, <1>2, <2>4 DEF WakeInv, Current
    <2>6. Resting'
      BY <1>1 DEF WakeInv, Resting
    <2> QED
      BY <2>5, <2>6
  <1>6. StartsOnce(cq', started')
    <2>1. StartsOnce(cq, started) /\ Made(cq, kc, Ec, started, started')
      BY DEF WakeInv, NoWrites
    <2> QED
      BY <2>1, StartsStep
  <1>7. Sends'
    <2>1. ASSUME OldSends(tq, x, t)
          PROVE  OldSends(tq', x, t)
      <3>1. SendMoves(tq, kt, Et, x, x, t)
        BY <1>1 DEF SendMoves
      <3> QED
        BY <2>1, <3>1, SendsStep
    <2> QED
      BY <1>1, <1>2, <2>1 DEF WakeInv, Sends
  <1>8. Writes'
    <2>1. PICK c : c = x.conn
      OBVIOUS
    <2>2. ASSUME OldWrites(cq, c)
          PROVE  OldWrites(cq', c)
      <3>1. WriteMoves(Ec, c, c)
        BY DEF NoWrites, WriteMoves
      <3> QED
        BY <2>2, <3>1, WritesStep
    <2> QED
      BY <1>1, <1>2, <2>1, <2>2 DEF WakeInv, Writes
  <1> QED
    BY <1>3, <1>4, <1>5, <1>6, <1>7, <1>8, WakeStep

-----------------------------------------------------------------------------
(*                     Steps of the services and of MTProto                *)

(* A request that met no error does not wait. *)
Plain == \A r \in Request : ~err[r].on => err[r].wait = 0

LEMMA ServiceWake ==
    ASSUME IndInv, WakeInv, UNCHANGED <<transport, tr, cq, started, closed>>,
           paused => paused', timeFix => timeFix' \/ willRequest', willRequest => willRequest',
           NEW Et, Moved(tq', tq, 0, Et), \A e \in Et : e.op # "send",
           NEW km \in {0, 1}, Moved(mq', mq, km, {}), km = 1 => mq[1].op # "ready",
           WaitMoves(Et, km), SleepMoves(Et, km)
    PROVE  WakeInv'
  <1>1. Unnoticed(0, Et, km)
    BY DEF Unnoticed
  <1>2. Moved(cq', cq, 0, {})
    BY Still
  <1>3. NoWrites(0, {})
    BY DEF NoWrites, Made
  <1> QED
    BY <1>1, <1>2, <1>3, QuietWake

(* A step that ends with somebody asking for a transaction. *)
LEMMA RousedWake ==
    ASSUME IndInv, WakeInv, UNCHANGED <<transport, tr, tq, cq, mq, started, closed>>,
           UNCHANGED <<ctx, paused>>, willRequest'
    PROVE  WakeInv'
  <1>1. Moved(tq', tq, 0, {}) /\ Moved(mq', mq, 0, {})
    BY Still
  <1>2. WaitMoves({}, 0) /\ SleepMoves({}, 0)
    BY DEF WaitMoves, SleepMoves, Rouse
  <1> QED
    BY <1>1, <1>2, ServiceWake

LEMMA AddRequestWake ==
    ASSUME IndInv, WakeInv, NEW r \in Request, AddRequest(r)
    PROVE  WakeInv'
  BY RousedWake DEF AddRequest, tcp, flags

LEMMA RequestTimerEventWake ==
    ASSUME IndInv, WakeInv, RequestTimerEvent
    PROVE  WakeInv'
  BY RousedWake DEF RequestTimerEvent, tcp, flags

LEMMA AuthTokenUpdatedWake ==
    ASSUME IndInv, WakeInv, AuthTokenUpdated
    PROVE  WakeInv'
  BY RousedWake DEF AuthTokenUpdated, tcp, flags

LEMMA PasswordEnteredWake ==
    ASSUME IndInv, WakeInv, PasswordEntered
    PROVE  WakeInv'
  BY RousedWake DEF PasswordEntered, tcp, service

LEMMA CompleteTimeSyncWake ==
    ASSUME IndInv, WakeInv, CompleteTimeSync
    PROVE  WakeInv'
  BY RousedWake DEF CompleteTimeSync, tcp, service

LEMMA TickWake ==
    ASSUME IndInv, WakeInv, Plain, Tick
    PROVE  WakeInv'
  <1>1. /\ UNCHANGED <<transport, tr, tq, cq, mq, started, closed>>
        /\ UNCHANGED <<requests, ctx, paused, timeFix, willRequest, password>>
    BY DEF Tick, tcp, flags, proto
  <1>2. /\ Moved(tq', tq, 0, {}) /\ Moved(mq', mq, 0, {}) /\ Queued \subseteq Request
        /\ Queued' = Queued
    BY <1>1, Still, QueuedAre DEF IndInv, Queued
  <1>3. WaitMoves({}, 0)
    BY <1>1 DEF WaitMoves
  <1>4. SleepMoves({}, 0)
    <2> SUFFICES ASSUME NEW r \in Queued, Sendable(r)', ~err'[r].on
                 PROVE  Sendable(r) /\ ~err[r].on
      BY <1>2 DEF SleepMoves, ReadyTaken
    <2>1. /\ r \in Request /\ err[r] \in [on : BOOLEAN, wait : Wait, token : BOOLEAN]
      BY <1>2 DEF IndInv, ErrOK
    <2>2. PICK n : n = IF err[r].wait > 0 THEN err[r].wait - 1 ELSE err[r].wait
      OBVIOUS
    <2>3. err'[r] = [err[r] EXCEPT !.wait = n]
      BY <2>1, <2>2 DEF Tick
    <2>4. err'[r].on = err[r].on /\ err'[r].token = err[r].token
      BY <2>1, <2>3
    <2>5. ~err[r].on /\ err[r].wait = 0
      BY <2>1, <2>4 DEF Plain
    <2> QED
      BY <1>1, <2>4, <2>5 DEF Sendable
  <1> QED
    BY <1>1, <1>2, <1>3, <1>4, ServiceWake

LEMMA RemoveRequestWake ==
    ASSUME IndInv, WakeInv, NEW r \in Request, NEW reconnect \in BOOLEAN,
           RemoveRequest(r, reconnect)
    PROVE  WakeInv'
  <1>1. /\ UNCHANGED <<transport, tr, cq, mq, started, closed>>
        /\ UNCHANGED <<paused, timeFix, password>> /\ r \in Queued
        /\ requests' = RemoveAt(requests, Place(r))
        /\ ctx' = [ctx EXCEPT ![r] = NoCtx] /\ err' = [err EXCEPT ![r] = NoError]
    BY DEF RemoveRequest, flags
  <1>2. willRequest => willRequest'
    BY Zenon DEF RemoveRequest
  <1>3. PICK e : e = [op |-> "reset", t |-> transport]
    OBVIOUS
  <1>4. tq' = Append(tq, e) \/ tq' = tq
    BY <1>3 DEF RemoveRequest
  <1>5. Moved(tq, tq, 0, {}) /\ Moved(mq', mq, 0, {})
    BY <1>1, Still
  <1>6. \E E : Moved(tq', tq, 0, E) /\ \A x \in E : x.op # "send"
    <2>1. Moved(Append(tq, e), tq, 0, {} \cup {e})
      BY <1>5, MovedAppend
    <2>2. \A x \in {} \cup {e} : x.op # "send"
      BY <1>3
    <2>3. CASE tq' = Append(tq, e)
      BY <2>1, <2>2, <2>3
    <2>4. CASE tq' = tq
      <3>1. Moved(tq', tq, 0, {}) /\ \A x \in {} : x.op # "send"
        BY <1>5, <2>4
      <3> QED
        BY <3>1
    <2> QED
      BY <1>4, <2>3, <2>4
  <1>7. PICK E : Moved(tq', tq, 0, E) /\ \A x \in E : x.op # "send"
    BY <1>6
  <1>8. /\ Queued' = Queued \ {r} /\ Queued \subseteq Request
        /\ ctx \in [Request -> Context] /\ DOMAIN err = Request
    <2>1. ListOK
      BY DEF IndInv
    <2>2. ToSet(RemoveAt(requests, Place(r))) = Queued \ {r} /\ Queued \subseteq Request
      BY <1>1, <2>1, ListWithout, QueuedAre
    <2> QED
      BY <1>1, <2>2 DEF Queued, IndInv, CtxOK, ErrOK
  <1>9. WaitMoves(E, 0)
    <2>1. \A q \in Request : ctx'[q].waiting => ctx[q].waiting
      BY <1>1, <1>8, NoCtxIs
    <2> QED
      BY <2>1 DEF WaitMoves
  <1>10. SleepMoves(E, 0)
    <2> SUFFICES ASSUME NEW q \in Queued', Sendable(q)', ~err'[q].on
                 PROVE  q \in Queued /\ Sendable(q) /\ ~err[q].on
      BY DEF SleepMoves, ReadyTaken
    <2>1. q \in Queued /\ q # r /\ q \in Request
      BY <1>8
    <2>2. ctx'[q] = ctx[q] /\ err'[q] = err[q]
      BY <1>1, <1>8, <2>1
    <2> QED
      BY <1>1, <2>1, <2>2 DEF Sendable
  <1> QED
    BY <1>1, <1>2, <1>5, <1>7, <1>9, <1>10, ServiceWake

(* The blocks of the manager queue that keep the transport. *)
LEMMA ManagerWake ==
    ASSUME IndInv, WakeInv, mq # <<>>, mq' = Tail(mq), Head(mq).op # "ready",
           UNCHANGED <<transport, tr, tq, cq, started, closed>>,
           paused => paused', timeFix => timeFix' \/ willRequest', willRequest => willRequest',
           WaitMoves({}, 1), SleepMoves({}, 1)
    PROVE  WakeInv'
  <1>1. Head(mq) = mq[1] /\ Moved(mq', mq, 1, {}) /\ Moved(tq', tq, 0, {})
    BY HeadMq, Still
  <1> QED
    BY <1>1, ServiceWake

(* What is left to show when the block is not a completion. *)
LEMMA OtherBlock ==
    ASSUME IndInv, mq # <<>>, Head(mq).op \in {"failed", "data"},
           \A r \in Request : ctx'[r].waiting => ctx[r].waiting,
           \A r \in Queued' : Sendable(r)' /\ ~err'[r].on =>
             Rouse' \/ (r \in Queued /\ Sendable(r) /\ ~err[r].on)
    PROVE  WaitMoves({}, 1) /\ SleepMoves({}, 1)
  <1>1. Head(mq) = mq[1]
    BY HeadMq
  <1>2. /\ \A r : ~OwnSent(mq[1], r) /\ ~ReadyTaken(1)
    BY <1>1 DEF OwnSent, ReadyTaken, Readies
  <1> QED
    BY <1>2 DEF WaitMoves, SleepMoves

LEMMA RunFailedWake ==
    ASSUME IndInv, WakeInv, RunFailed
    PROVE  WakeInv'
  <1>1. /\ mq # <<>> /\ Head(mq).op = "failed" /\ mq' = Tail(mq)
        /\ UNCHANGED <<transport, tr, tq, cq, started, closed>>
        /\ UNCHANGED <<requests, err, paused, timeFix, password>>
    BY DEF RunFailed, flags, tcp
  <1>2. PICK hit, c : /\ c = Head(mq).c /\ hit = {r \in Queued : ctx[r].txn = c}
    OBVIOUS
  <1>3. /\ ctx' = [r \in Request |-> IF r \in hit THEN [ctx[r] EXCEPT !.txn = NoConn] ELSE ctx[r]]
        /\ willRequest' = (willRequest \/ hit # {})
    BY <1>2, Zenon DEF RunFailed, HandleFailed
  <1>4. (willRequest => willRequest') /\ (hit # {} => willRequest')
    BY <1>3, Zenon
  <1>5. /\ Queued \subseteq Request /\ Queued' = Queued /\ ctx \in [Request -> Context]
    BY <1>1, QueuedAre DEF IndInv, Queued, CtxOK
  <1>6. \A r \in Request : ctx'[r].waiting => ctx[r].waiting
    BY <1>3, <1>5 DEF Context
  <1>7. \A r \in Queued' : Sendable(r)' /\ ~err'[r].on =>
          Rouse' \/ (r \in Queued /\ Sendable(r) /\ ~err[r].on)
    BY <1>1, <1>3, <1>4, <1>5 DEF Sendable, Rouse
  <1> QED
    BY <1>1, <1>4, <1>6, <1>7, OtherBlock, ManagerWake

LEMMA RunSentWake ==
    ASSUME IndInv, WakeInv, RunSent
    PROVE  WakeInv'
  <1>1. /\ mq # <<>> /\ Head(mq).op = "sent" /\ mq' = Tail(mq)
        /\ UNCHANGED <<transport, tr, tq, cq, started, closed>>
        /\ UNCHANGED <<requests, err, paused, timeFix, password, willRequest>>
    BY DEF RunSent, flags, tcp
  <1>2. PICK e : e = Head(mq)
    OBVIOUS
  <1>3. /\ e = mq[1] /\ e.op = "sent" /\ e.ok \in BOOLEAN /\ (e.ok => e.c \in 1..Len(net))
        /\ Queued \subseteq Request /\ Queued' = Queued /\ ctx \in [Request -> Context]
        /\ \A r \in Request \ Queued : ctx[r] = NoCtx
    BY <1>1, <1>2, HeadMq, QueuedAre DEF IndInv, Queued, CtxOK, MqBlock, Unqueued
  <1>4. ctx' = [r \in Request |-> IF r \in e.batch \cap Queued THEN AfterSend(e, r) ELSE ctx[r]]
    BY <1>2 DEF RunSent, HandleSent
  <1>5. \A r : OwnSent(mq[1], r) <=> r \in e.batch /\ SentFor(e, r) # {}
    BY <1>3 DEF OwnSent, Names, SentFor
  <1>6. ~ReadyTaken(1)
    BY <1>3 DEF ReadyTaken, Readies
  <1>7. ASSUME NEW r \in e.batch \cap Queued
        PROVE  /\ ~ctx'[r].waiting
               /\ e.ok /\ SentFor(e, r) # {} => ctx'[r].txn # NoConn
               /\ ~(e.ok /\ SentFor(e, r) # {}) => ctx'[r] = [ctx[r] EXCEPT !.waiting = FALSE]
    <2>1. r \in Request /\ ctx[r] \in Context /\ ctx'[r] = AfterSend(e, r)
      BY <1>3, <1>4
    <2>2. CASE e.ok /\ SentFor(e, r) # {}
      <3>1. PICK i : ctx'[r] = [msg |-> i, txn |-> e.c, waiting |-> FALSE, delivered |-> FALSE]
        BY <2>1, <2>2 DEF AfterSend
      <3>2. e.c # NoConn
        BY <1>3, <2>2 DEF NoConn
      <3> QED
        BY <2>2, <3>1, <3>2
    <2>3. CASE ~(e.ok /\ SentFor(e, r) # {})
      <3>1. ctx'[r] = [ctx[r] EXCEPT !.waiting = FALSE]
        BY <2>1, <2>3 DEF AfterSend
      <3> QED
        BY <2>1, <2>3, <3>1 DEF Context
    <2> QED
      BY <2>2, <2>3
  <1>8. \A r \in Request : r \notin e.batch \cap Queued => ctx'[r] = ctx[r]
    BY <1>4
  <1>9. WaitMoves({}, 1)
    <2> SUFFICES ASSUME NEW r \in Request, ctx'[r].waiting
                 PROVE  ctx[r].waiting /\ ~OwnSent(mq[1], r)
      BY DEF WaitMoves
    <2>1. r \notin e.batch \cap Queued /\ ctx'[r] = ctx[r]
      BY <1>7, <1>8
    <2>2. r \in Queued
      BY <1>3, <2>1, NoCtxIs
    <2> QED
      BY <1>5, <2>1, <2>2
  <1>10. SleepMoves({}, 1)
    <2> SUFFICES ASSUME NEW r \in Queued, Sendable(r)', ~err'[r].on
                 PROVE  \/ Sendable(r) /\ ~err[r].on /\ ~OwnSent(mq[1], r)
                        \/ ctx[r].waiting /\ ~OwnSent(mq[1], r)
                        \/ ~e.ok /\ e.batch # {}
      BY <1>1, <1>3, <1>6 DEF SleepMoves
    <2>1. CASE r \notin e.batch
      BY <1>1, <1>3, <1>5, <1>8, <2>1 DEF Sendable
    <2>2. CASE r \in e.batch /\ e.ok /\ SentFor(e, r) # {}
      <3>1. ctx'[r].txn # NoConn
        BY <1>7, <2>2
      <3>2. ctx'[r] # NoCtx
        BY <3>1, NoCtxIs
      <3> QED
        BY <3>1, <3>2 DEF Sendable
    <2>3. CASE r \in e.batch /\ e.ok /\ SentFor(e, r) = {}
      <3>1. ctx'[r] = [ctx[r] EXCEPT !.waiting = FALSE] /\ ~OwnSent(mq[1], r)
        BY <1>5, <1>7, <2>3
      <3>2. CASE ctx[r].waiting
        BY <3>1, <3>2
      <3>3. CASE ~ctx[r].waiting
        <4>1. ctx[r] \in Context
          BY <1>3
        <4>2. ctx[r].waiting = FALSE
          BY <3>3, <4>1 DEF Context
        <4>3. ctx'[r] = ctx[r]
          BY <3>1, <4>1, <4>2 DEF Context
        <4> QED
          BY <1>1, <3>1, <4>3 DEF Sendable
      <3> QED
        BY <3>2, <3>3
    <2>4. CASE r \in e.batch /\ ~e.ok
      BY <2>4
    <2> QED
      BY <1>3, <2>1, <2>2, <2>3, <2>4
  <1> QED
    BY <1>1, <1>9, <1>10, ManagerWake

-----------------------------------------------------------------------------
(*                          Messages of the server                         *)

(* The contexts of the requests in S are cleared, or S is empty. *)
LEMMA ClearedWake ==
    ASSUME IndInv, WakeInv, mq # <<>>, mq' = Tail(mq), Head(mq).op = "data",
           UNCHANGED <<transport, tr, tq, cq, started, closed>>,
           UNCHANGED <<requests, err, paused, password>>,
           timeFix => timeFix' \/ willRequest', willRequest => willRequest',
           NEW S, S # {} => willRequest',
           ctx' = [r \in Request |-> IF r \in S THEN NoCtx ELSE ctx[r]]
    PROVE  WakeInv'
  <1>1. Queued \subseteq Request /\ Queued' = Queued
    BY QueuedAre DEF IndInv, Queued
  <1>2. \A r \in Request : ctx'[r].waiting => ctx[r].waiting
    BY NoCtxIs
  <1>3. \A r \in Queued' : Sendable(r)' /\ ~err'[r].on =>
          Rouse' \/ (r \in Queued /\ Sendable(r) /\ ~err[r].on)
    <2>1. CASE S = {}
      <3>1. \A r \in Queued : ctx'[r] = ctx[r]
        BY <1>1, <2>1
      <3> QED
        BY <1>1, <3>1 DEF Sendable
    <2>2. CASE S # {}
      BY <2>2 DEF Rouse
    <2> QED
      BY <2>1, <2>2
  <1>4. Head(mq).op \in {"failed", "data"} /\ Head(mq).op # "ready"
    OBVIOUS
  <1>5. WaitMoves({}, 1) /\ SleepMoves({}, 1)
    BY <1>2, <1>3, <1>4, OtherBlock
  <1> QED
    BY <1>4, <1>5, ManagerWake

LEMMA HandleAckWake ==
    ASSUME IndInv, WakeInv, mq # <<>>, mq' = Tail(mq), Head(mq).op = "data",
           UNCHANGED <<paused, cq, started, closed>>, NEW m, HandleAck(m)
    PROVE  WakeInv'
  <1>1. /\ UNCHANGED <<transport, tr, tq, cq, started, closed>>
        /\ UNCHANGED <<requests, err, password, willRequest, timeFix, paused>>
        /\ ctx' = [r \in Request |-> IF r \in FirstWith(m)
                                     THEN [ctx[r] EXCEPT !.delivered = TRUE] ELSE ctx[r]]
    BY DEF HandleAck
  <1>2. Queued \subseteq Request /\ Queued' = Queued /\ ctx \in [Request -> Context]
    BY <1>1, QueuedAre DEF IndInv, Queued, CtxOK
  <1>3. ASSUME NEW r \in Request
        PROVE  \/ ctx'[r] = ctx[r]
               \/ (ctx'[r].waiting => ctx[r].waiting) /\ ctx'[r].delivered
    <2>1. ctx[r] \in Context
      BY <1>2
    <2> QED
      BY <1>1, <2>1 DEF Context
  <1>4. \A r \in Request : ctx'[r].waiting => ctx[r].waiting
    BY <1>3
  <1>5. \A r \in Queued' : Sendable(r)' /\ ~err'[r].on =>
          Rouse' \/ (r \in Queued /\ Sendable(r) /\ ~err[r].on)
    BY <1>1, <1>2, <1>3 DEF Sendable, NoCtx
  <1>6. Head(mq).op \in {"failed", "data"} /\ Head(mq).op # "ready"
    OBVIOUS
  <1>7. WaitMoves({}, 1) /\ SleepMoves({}, 1)
    BY <1>4, <1>5, <1>6, OtherBlock
  <1> QED
    BY <1>1, <1>6, <1>7, ManagerWake

LEMMA HandleDroppedWake ==
    ASSUME IndInv, WakeInv, mq # <<>>, mq' = Tail(mq), Head(mq).op = "data",
           UNCHANGED <<paused, cq, started, closed>>,
           UNCHANGED <<transport, tr, tq, requests, ctx, err, password, willRequest, timeFix>>
    PROVE  WakeInv'
  <1>1. PICK S : S = {}
    OBVIOUS
  <1>2. ctx' = [r \in Request |-> IF r \in S THEN NoCtx ELSE ctx[r]]
    BY <1>1 DEF IndInv, CtxOK
  <1>3. /\ UNCHANGED <<transport, tr, tq, cq, started, closed>>
        /\ UNCHANGED <<requests, err, paused, password>>
    OBVIOUS
  <1> QED
    BY <1>1, <1>2, <1>3, ClearedWake

LEMMA HandleNewSessionWake ==
    ASSUME IndInv, WakeInv, mq # <<>>, mq' = Tail(mq), Head(mq).op = "data",
           UNCHANGED <<paused, cq, started, closed>>, NEW m, HandleNewSession(m)
    PROVE  WakeInv'
  <1>1. PICK S : /\ ctx' = [r \in Request |-> IF r \in S THEN NoCtx ELSE ctx[r]]
                 /\ willRequest' = (willRequest \/ S # {})
    BY Zenon DEF HandleNewSession
  <1>2. (willRequest => willRequest') /\ (S # {} => willRequest')
    BY <1>1, Zenon
  <1>3. /\ UNCHANGED <<transport, tr, tq, cq, started, closed>>
        /\ UNCHANGED <<requests, err, paused, password>> /\ timeFix' = timeFix
    BY DEF HandleNewSession
  <1> QED
    BY <1>1, <1>2, <1>3, ClearedWake

LEMMA HandleBadKeptWake ==
    ASSUME IndInv, WakeInv, mq # <<>>, mq' = Tail(mq), Head(mq).op = "data",
           UNCHANGED <<paused, cq, started, closed>>,
           NEW m, NEW code, code # "seqno", HandleBad(m, code)
    PROVE  WakeInv'
  <1>1. PICK ids : ids = {m} \cup UNION {c.children : c \in {b \in containers : b.id = m}}
    OBVIOUS
  <1>2. PICK S : S = {r \in Request : \E i \in ids : r \in FirstWith(i)}
    OBVIOUS
  <1>3. /\ ctx' = [r \in Request |-> IF r \in S THEN NoCtx ELSE ctx[r]]
        /\ willRequest'
        /\ UNCHANGED <<transport, tr, tq, cq, started, closed>>
        /\ UNCHANGED <<requests, err, paused, password>>
    BY <1>1, <1>2 DEF HandleBad
  <1> QED
    BY <1>3, ClearedWake

LEMMA HandleResultWake ==
    ASSUME IndInv, WakeInv, mq # <<>>, mq' = Tail(mq), Head(mq).op = "data",
           UNCHANGED <<paused, cq, started, closed>>, NEW m, NEW how, HandleResult(m, how)
    PROVE  WakeInv'
  <1> DEFINE hit  == FirstWith(m)
             done == IF how \in {"wait", "token"} THEN {} ELSE hit
             q2   == IF done = {} THEN requests
                     ELSE RemoveAt(requests, Place(CHOOSE r \in done : TRUE))
             c2   == [r \in Request |-> IF r \in hit THEN NoCtx ELSE ctx[r]]
             e2(w) == [r \in Request |->
                        IF r \in done THEN NoError
                        ELSE IF r \notin hit THEN err[r]
                        ELSE IF how = "token"
                        THEN [err[r] EXCEPT !.on = TRUE, !.token = TRUE]
                        ELSE [err[r] EXCEPT !.on = TRUE, !.wait = Max({@, w})]]
  <1>1. hit = FirstWith(m)
    OBVIOUS
  <1>2. done = IF how \in {"wait", "token"} THEN {} ELSE hit
    OBVIOUS
  <1>3. PICK w \in WaitSeconds :
          /\ requests' = q2 /\ ctx' = c2 /\ err' = e2(w)
          /\ willRequest' = (willRequest \/ RetryDue(q2, c2, e2(w)))
          /\ password' = (password \/ (how = "password" /\ hit # {}))
          /\ UNCHANGED <<transport, tr, tq>> /\ timeFix' = timeFix
    BY Zenon DEF HandleResult
  <1>4. (willRequest => willRequest') /\ (password => password')
    BY <1>3, Zenon
  <1> HIDE DEF hit, done
  <1>5. ListOK /\ Queued \subseteq Request /\ ctx \in [Request -> Context]
        /\ err \in [Request -> [on : BOOLEAN, wait : Wait, token : BOOLEAN]]
    BY QueuedAre DEF IndInv, CtxOK, ErrOK
  <1>6. hit \subseteq Queued /\ done \subseteq hit /\ \A r, q \in hit : r = q
    BY <1>1, <1>2, <1>5, FirstWithIs
  <1>7. Queued' = Queued \ done
    <2>1. CASE done = {}
      BY <1>3, <2>1 DEF Queued
    <2>2. CASE done # {}
      <3>1. PICK r : r = CHOOSE x \in done : TRUE
        OBVIOUS
      <3>2. r \in Queued /\ done = {r}
        BY <1>6, <2>2, <3>1
      <3>3. requests' = RemoveAt(requests, Place(r))
        BY <1>3, <2>2, <3>1
      <3> QED
        BY <1>5, <3>2, <3>3, ListWithout DEF Queued
    <2> QED
      BY <2>1, <2>2
  <1>8. \A r \in Request : ctx'[r].waiting => ctx[r].waiting
    BY <1>3, NoCtxIs
  <1>9. ASSUME NEW r \in Queued', Sendable(r)', ~err'[r].on
        PROVE  r \in Queued /\ Sendable(r) /\ ~err[r].on
    <2>1. r \in Queued /\ r \notin done /\ r \in Request
      BY <1>5, <1>7
    <2>2. r \notin hit
      <3> SUFFICES ASSUME r \in hit PROVE FALSE
        OBVIOUS
      <3>1. err[r] \in [on : BOOLEAN, wait : Wait, token : BOOLEAN]
        BY <1>5, <2>1
      <3>2. PICK v : v = Max({err[r].wait, w})
        OBVIOUS
      <3>3. err'[r] \in {[err[r] EXCEPT !.on = TRUE, !.token = TRUE],
                         [err[r] EXCEPT !.on = TRUE, !.wait = v]}
        BY <1>3, <2>1, <3>2
      <3>4. err'[r].on
        BY <3>1, <3>3
      <3> QED
        BY <1>9, <3>4
    <2>3. ctx'[r] = ctx[r] /\ err'[r] = err[r]
      BY <1>3, <2>1, <2>2
    <2> QED
      BY <1>4, <1>9, <2>1, <2>3 DEF Sendable
  <1>10. \A r \in Queued' : Sendable(r)' /\ ~err'[r].on =>
          Rouse' \/ (r \in Queued /\ Sendable(r) /\ ~err[r].on)
    BY <1>9
  <1>11. Head(mq).op \in {"failed", "data"} /\ Head(mq).op # "ready"
    OBVIOUS
  <1>12. WaitMoves({}, 1) /\ SleepMoves({}, 1)
    BY <1>8, <1>10, <1>11, OtherBlock
  <1>13. UNCHANGED <<transport, tr, tq, cq, started, closed>> /\ timeFix' = timeFix /\ paused' = paused
    BY <1>3
  <1> QED
    BY <1>4, <1>11, <1>12, <1>13, ManagerWake

-----------------------------------------------------------------------------
(*                       The transport is replaced                         *)

(* There is none, or a new one that somebody will ask. *)
Replacement(E) ==
    /\ \/ transport' = Len(tr) + 1 /\ tr'[transport'] = FreshTransport
       \/ transport' = NoTransport /\ paused'
    /\ willRequest' \/ paused' \/ (transport' # NoTransport /\ In(E, Calls, transport'))
    /\ \A e \in E : e.op # "send"

LEMMA ReplacedWake ==
    ASSUME IndInv, WakeInv, UNCHANGED <<cq, started, closed>>,
           NEW km \in {0, 1}, Moved(mq', mq, km, {}), km = 1 => mq[1].op # "sent",
           NEW E, Moved(tq', tq, 0, E), Replacement(E),
           \A r \in Request : ctx'[r].waiting => ctx[r].waiting
    PROVE  WakeInv'
  <1>1. /\ cq' = cq /\ started' = started /\ closed' = closed
        /\ transport' # NoTransport => transport' = Len(tr) + 1 /\ tr'[transport'] = FreshTransport
        /\ transport' = NoTransport => paused'
        /\ willRequest' \/ paused' \/ (transport' # NoTransport /\ In(E, Calls, transport'))
        /\ \A e \in E : e.op # "send"
    <2>1. Len(tr) \in Nat
      BY Numbers DEF IndInv
    <2> QED
      BY <2>1 DEF Replacement, NoTransport
  <1>2. PICK t, x : t = transport' /\ x = tr'[transport']
    OBVIOUS
  <1>3. transport' # NoTransport => /\ t = Len(tr) + 1 /\ x.conn = NoConn /\ ~x.open /\ ~x.want
                                    /\ ~x.will /\ ~x.lock /\ ~x.stopped
    BY <1>1, <1>2 DEF FreshTransport
  <1>4. In(E, Calls, t) => At(tq', Calls, t, 0)
    <2>1. AtMoved(tq', tq, 0, E, Calls, t)
      BY AtStep
    <2> QED
      BY <2>1 DEF AtMoved
  <1>5. \A i : Pend(i)'
    BY <1>1, <1>2, <1>4 DEF Pend, Soon
  <1>6. Current' /\ Resting'
    <2>1. ASSUME transport' # NoTransport
          PROVE  CurrentOK(x, t, tq', mq', started', willRequest' \/ paused')
      BY <1>1, <1>2, <1>3, <1>4, <2>1 DEF CurrentOK
    <2> QED
      BY <1>1, <1>2, <2>1 DEF Current, Resting
  <1>7. StartsOnce(cq', started')
    BY <1>1 DEF WakeInv
  <1>8. Sends'
    <2>1. ASSUME transport' # NoTransport
          PROVE  OldSends(tq', x, t)
      <3>1. Len(tr) \in Nat /\ \A i \in 1..Len(tq) : tq[i].t \in 1..Len(tr)
        BY Numbers DEF IndInv, TqOK, TqBlock
      <3>2. \A i \in 1..Len(tq) : tq[i].t # t
        BY <1>3, <2>1, <3>1
      <3>3. OldSends(tq, x, t)
        BY <1>3, <2>1, <3>2 DEF OldSends
      <3>4. SendMoves(tq, 0, E, x, x, t)
        BY <1>1 DEF SendMoves
      <3> QED
        BY <3>3, <3>4, SendsStep
    <2> QED
      BY <1>2, <2>1 DEF Sends
  <1>9. Writes'
    BY <1>1, <1>2, <1>3 DEF Writes, OldWrites
  <1>10. Failures' /\ Asleep'
    BY <1>5 DEF Failures, Asleep
  <1>11. Answered'
    <2> SUFFICES ASSUME NEW r \in Request, ctx'[r].waiting
                 PROVE  Own(r)'
      BY DEF Answered
    <2>1. Own(r)
      BY DEF WakeInv, Answered
    <2>2. Moved(cq', cq, 0, {}) /\ OwnMoves(0, E, 0, {}, km, {})
      BY <1>1, Still DEF OwnMoves
    <2>3. Own(r)' \/ (km = 1 /\ OwnSent(mq[1], r))
      BY <2>1, <2>2, OwnStep
    <2> QED
      BY <2>3 DEF OwnSent
  <1> QED
    BY <1>6, <1>7, <1>8, <1>9, <1>10, <1>11 DEF WakeInv

LEMMA NewTransportFresh ==
    ASSUME NEW s \in Seq(TransportContext), NewTransport(s), Len(s) = Len(tr)
    PROVE  transport' = Len(tr) + 1 /\ tr'[transport'] = FreshTransport
  <1>1. tr' = Append(s, FreshTransport) /\ transport' = Len(s) + 1
    BY DEF NewTransport
  <1>2. FreshTransport \in TransportContext
    BY DEF FreshTransport, TransportContext, NoConn
  <1> QED
    BY <1>1, <1>2, AppendProperties

LEMMA ResetReplacement ==
    ASSUME IndInv, NEW c, ResetTransport(c), willRequest'
    PROVE  \E E : Moved(tq', tq, 0, E) /\ Replacement(E)
  <1>1. tr \in Seq(TransportContext) /\ transport \in 0..Len(tr) /\ Len(tr) \in Nat
    BY Numbers DEF IndInv, Basics
  <1>2. PICK E : Moved(tq', tq, 0, E) /\ Notices(E)
    BY ResetTransportIs
  <1>3. \A e \in E : e.op # "send"
    BY <1>2 DEF Notices
  <1>4. transport' = Len(tr) + 1 /\ tr'[transport'] = FreshTransport
    <2>1. CASE transport = NoTransport
      <3>1. NewTransport(tr)
        BY <2>1 DEF ResetTransport
      <3> QED
        BY <1>1, <3>1, NewTransportFresh
    <2>2. CASE transport # NoTransport
      <3>1. transport \in 1..Len(tr) /\ tr[transport] \in TransportContext
        BY <1>1, <2>2, ElementOfSeq DEF NoTransport
      <3>2. PICK y : y = [tr[transport] EXCEPT !.live = FALSE]
        OBVIOUS
      <3>3. PICK s : s = [tr EXCEPT ![transport] = y]
        OBVIOUS
      <3>4. y \in TransportContext
        BY <3>1, <3>2 DEF TransportContext
      <3>5. s \in Seq(TransportContext) /\ Len(s) = Len(tr)
        BY <1>1, <3>1, <3>3, <3>4, TrUpdate
      <3>6. NewTransport(s)
        BY <2>2, <3>2, <3>3 DEF ResetTransport
      <3> QED
        BY <3>5, <3>6, NewTransportFresh
    <2> QED
      BY <2>1, <2>2
  <1> QED
    BY <1>2, <1>3, <1>4 DEF Replacement

LEMMA ForgottenWaits ==
    ASSUME IndInv, ctx' = Forgotten(ctx)
    PROVE  \A r \in Request : ctx'[r].waiting => ctx[r].waiting
  BY ForgottenIs, NoCtxIs DEF Weaker

(* resetTransport with the contexts kept. *)
LEMMA SameSessionWake ==
    ASSUME IndInv, WakeInv, UNCHANGED <<cq, started, closed>>, mq' = mq,
           ResetTransport(ctx), willRequest'
    PROVE  WakeInv'
  <1>1. PICK E : Moved(tq', tq, 0, E) /\ Replacement(E)
    BY ResetReplacement
  <1>2. \A r \in Request : ctx'[r].waiting => ctx[r].waiting
    BY ForgottenWaits DEF ResetTransport
  <1>3. Moved(mq', mq, 0, {})
    BY Still
  <1> QED
    BY <1>1, <1>2, <1>3, ReplacedWake

(* resetSessionInfo. *)
LEMMA NewSessionWake ==
    ASSUME IndInv, WakeInv, UNCHANGED <<cq, started, closed>>, ResetSessionInfo,
           NEW km \in {0, 1}, Moved(mq', mq, km, {}), km = 1 => mq[1].op # "sent"
    PROVE  WakeInv'
  <1>1. PICK c : c = [r \in Request |-> NoCtx]
    OBVIOUS
  <1>2. ResetTransport(c) /\ willRequest'
    BY <1>1 DEF ResetSessionInfo
  <1>3. PICK E : Moved(tq', tq, 0, E) /\ Replacement(E)
    BY <1>2, ResetReplacement
  <1>4. \A r \in Request : ~ctx'[r].waiting
    <2>1. ctx' = Forgotten(c)
      BY <1>2 DEF ResetTransport
    <2> QED
      BY <1>1, <2>1 DEF Forgotten, NoCtx, NoConn
  <1> QED
    BY <1>3, <1>4, ReplacedWake

LEMMA SessionResetWake ==
    ASSUME IndInv, WakeInv, SessionReset
    PROVE  WakeInv'
  <1>1. UNCHANGED <<cq, started, closed>> /\ ResetSessionInfo /\ Moved(mq', mq, 0, {})
    BY Still DEF SessionReset
  <1> QED
    BY <1>1, NewSessionWake

LEMMA TransportSchemeUpdatedWake ==
    ASSUME IndInv, WakeInv, TransportSchemeUpdated
    PROVE  WakeInv'
  BY SameSessionWake DEF TransportSchemeUpdated

LEMMA ResumeWake ==
    ASSUME IndInv, WakeInv, Resume
    PROVE  WakeInv'
  BY SameSessionWake DEF Resume

LEMMA PauseWake ==
    ASSUME IndInv, WakeInv, Pause
    PROVE  WakeInv'
  <1>1. /\ UNCHANGED <<cq, started, closed>> /\ ctx' = Forgotten(ctx) /\ mq' = mq
        /\ transport' = NoTransport /\ paused'
    BY DEF Pause
  <1>2. \A r \in Request : ctx'[r].waiting => ctx[r].waiting
    BY <1>1, ForgottenWaits
  <1>3. Moved(mq', mq, 0, {})
    BY <1>1, Still
  <1>4. PICK d, e : d = [op |-> "active", t |-> transport] /\ e = [op |-> "stop", t |-> transport]
    OBVIOUS
  <1>5. PICK E : Moved(tq', tq, 0, E) /\ \A z \in E : z.op # "send"
    <2>1. CASE transport = NoTransport
      <3>1. tq' = tq
        BY <2>1 DEF Pause
      <3>2. Moved(tq', tq, 0, {}) /\ \A z \in {} : z.op # "send"
        BY <3>1, Still
      <3> QED
        BY <3>2
    <2>2. CASE transport # NoTransport
      <3>1. PICK a, F : a = <<d, e>> /\ F = {d, e}
        OBVIOUS
      <3>2. tq' = tq \o a
        BY <1>4, <2>2, <3>1 DEF Pause
      <3>3. Lists(a, F)
        BY <3>1, ListsFew
      <3>4. Moved(tq', tq, 0, {} \cup F)
        BY <3>2, <3>3, Still, MovedConcat DEF Lists
      <3>5. \A z \in {} \cup F : z.op # "send"
        BY <1>4, <3>1
      <3> QED
        BY <3>4, <3>5
    <2> QED
      BY <2>1, <2>2
  <1>6. Replacement(E)
    BY <1>1, <1>5 DEF Replacement
  <1> QED
    BY <1>1, <1>2, <1>3, <1>5, <1>6, ReplacedWake

(* Somebody asks the transport in place, or nobody will while it is paused. *)
LEMMA AskedWake ==
    ASSUME IndInv, WakeInv, UNCHANGED <<transport, tr, cq, mq, started, closed>>,
           UNCHANGED <<requests, ctx, err, password, paused, timeFix>>,
           NEW E, Moved(tq', tq, 0, E), \A e \in E : e.op # "send",
           paused \/ (transport # NoTransport /\ In(E, Calls, transport))
    PROVE  WakeInv'
  <1>1. /\ transport' = transport /\ tr' = tr /\ cq' = cq /\ mq' = mq /\ started' = started
        /\ closed' = closed /\ requests' = requests /\ ctx' = ctx /\ err' = err
        /\ password' = password /\ paused' = paused /\ timeFix' = timeFix
    OBVIOUS
  <1>2. PICK x, t, c : x = tr[transport] /\ t = transport /\ c = tr[transport].conn
    OBVIOUS
  <1>3. Moved(cq', cq, 0, {}) /\ Moved(mq', mq, 0, {})
    BY <1>1, Still
  <1>4. PendMoves(0, E, 0, {})
    <2>1. Rouse => Rouse' \/ (transport # NoTransport /\ In(E, Calls, transport))
      BY <1>1 DEF Rouse
    <2>2. SoonMoves(x, x, t, closed, closed', tq, 0, E, mq, 0, {})
      BY <1>1 DEF SoonMoves
    <2> QED
      BY <1>1, <1>2, <2>1, <2>2 DEF PendMoves
  <1>5. OwnMoves(0, E, 0, {}, 0, {})
    BY DEF OwnMoves
  <1>6. Current' /\ Resting'
    <2>1. /\ AtMoved(tq', tq, 0, E, Calls, t) /\ AtMoved(tq', tq, 0, E, Passes, t)
          /\ AtMoved(tq', tq, 0, E, Sendings, t)
      BY AtStep
    <2>2. /\ At(tq, Calls, t, 0) => At(tq', Calls, t, 0)
          /\ At(tq, Passes, t, 0) => At(tq', Passes, t, 0)
          /\ At(tq, Sendings, t, 0) => At(tq', Sendings, t, 0)
          /\ In(E, Calls, t) => At(tq', Calls, t, 0)
      BY <2>1 DEF AtMoved
    <2>3. ASSUME CurrentOK(x, t, tq, mq, started, willRequest \/ paused), t # NoTransport
          PROVE  CurrentOK(x, t, tq', mq', started', willRequest' \/ paused')
      BY <1>1, <1>2, <2>2, <2>3 DEF CurrentOK
    <2> QED
      BY <1>1, <1>2, <2>3 DEF WakeInv, Current, Resting
  <1>7. StartsOnce(cq', started')
    BY <1>1 DEF WakeInv
  <1>8. Sends'
    <2>1. ASSUME OldSends(tq, x, t)
          PROVE  OldSends(tq', x, t)
      <3>1. SendMoves(tq, 0, E, x, x, t)
        BY DEF SendMoves
      <3> QED
        BY <2>1, <3>1, SendsStep
    <2> QED
      BY <1>1, <1>2, <2>1 DEF WakeInv, Sends
  <1>9. Writes'
    BY <1>1 DEF WakeInv, Writes
  <1>10. WaitMoves(E, 0) /\ SleepMoves(E, 0)
    BY <1>1 DEF WaitMoves, SleepMoves, Sendable, Queued, ReadyTaken
  <1> QED
    BY <1>3, <1>4, <1>5, <1>6, <1>7, <1>8, <1>9, <1>10, WakeStep

LEMMA RunRequestedTransactionWake ==
    ASSUME IndInv, WakeInv, RunRequestedTransaction
    PROVE  WakeInv'
  <1>1. /\ UNCHANGED <<cq, started, closed>> /\ mq' = mq
        /\ UNCHANGED <<requests, ctx, err, password, paused, timeFix>>
    BY DEF RunRequestedTransaction, service, flags
  <1>2. PICK e : e = [op |-> "needs", t |-> transport']
    OBVIOUS
  <1>3. PICK E : E = {} \cup {e}
    OBVIOUS
  <1>4. In(E, Calls, transport') /\ \A z \in E : z.op # "send"
    BY <1>2, <1>3 DEF In, Calls
  <1>5. ~paused => Moved(tq', tq, 0, E)
    <2>1. ~paused => tq' = Append(tq, e)
      BY <1>2 DEF RunRequestedTransaction
    <2>2. Moved(tq, tq, 0, {})
      BY Still
    <2>3. Moved(Append(tq, e), tq, 0, {} \cup {e})
      BY <2>2, MovedAppend
    <2> QED
      BY <1>3, <2>1, <2>3
  <1>6. CASE paused
    <2>1. UNCHANGED <<transport, tr, cq, mq, started, closed>> /\ tq' = tq
      BY <1>1, <1>6 DEF RunRequestedTransaction
    <2>2. Moved(tq', tq, 0, {})
      BY <2>1, Still
    <2> QED
      BY <1>1, <1>6, <2>1, <2>2, AskedWake
  <1>7. CASE ~paused /\ transport # NoTransport
    <2>1. UNCHANGED <<transport, tr, cq, mq, started, closed>>
      BY <1>1, <1>7 DEF RunRequestedTransaction
    <2> QED
      BY <1>1, <1>4, <1>5, <1>7, <2>1, AskedWake
  <1>8. CASE ~paused /\ transport = NoTransport
    <2>1. NewTransport(tr) /\ tr \in Seq(TransportContext) /\ Len(tr) \in Nat
      BY <1>8, Numbers DEF RunRequestedTransaction, IndInv, Basics
    <2>2. transport' = Len(tr) + 1 /\ tr'[transport'] = FreshTransport
      BY <2>1, NewTransportFresh
    <2>3. Replacement(E)
      BY <1>4, <2>1, <2>2 DEF Replacement, NoTransport
    <2>4. Moved(mq', mq, 0, {}) /\ \A r \in Request : ctx'[r].waiting => ctx[r].waiting
      BY <1>1, Still
    <2> QED
      BY <1>1, <1>5, <1>8, <2>3, <2>4, ReplacedWake
  <1> QED
    BY <1>6, <1>7, <1>8

LEMMA RunDataWake ==
    ASSUME IndInv, WakeInv, RunData
    PROVE  WakeInv'
  <1>1. /\ UNCHANGED <<paused, cq, started, closed>>
        /\ mq # <<>> /\ Head(mq).op = "data" /\ mq' = Tail(mq)
    BY DEF RunData
  <1>2. PICK e : e = Head(mq)
    OBVIOUS
  <1>3. Moved(mq', mq, 1, {}) /\ mq[1].op # "sent" /\ e.x.k \in Answers
    BY <1>1, <1>2, HeadMq DEF MqBlock
  <1>4. CASE e.t # transport
    <2>1. UNCHANGED <<transport, tr, tq, requests, ctx, err, password, willRequest, timeFix>>
      BY <1>2, <1>4 DEF RunData, service
    <2> QED
      BY <1>1, <2>1, HandleDroppedWake
  <1>5. CASE e.t = transport
    <2>1. HandleMessage(e.x)
      BY <1>2, <1>5 DEF RunData
    <2>2. PICK x, m, how : x = e.x /\ m = e.x.m /\ how = e.x.how
      OBVIOUS
    <2>3. CASE x.k = "ack"
      <3>1. HandleAck(m)
        BY <2>1, <2>2, <2>3 DEF HandleMessage
      <3> QED
        BY <1>1, <3>1, HandleAckWake
    <2>4. CASE x.k = "res"
      <3>1. HandleResult(m, how)
        BY <2>1, <2>2, <2>4 DEF HandleMessage
      <3> QED
        BY <1>1, <3>1, HandleResultWake
    <2>5. CASE x.k = "dropped"
      <3>1. HandleDropped(m)
        BY <2>1, <2>2, <2>5 DEF HandleMessage
      <3>2. UNCHANGED <<transport, tr, tq, requests, ctx, err, password, willRequest, timeFix>>
        BY <3>1 DEF HandleDropped
      <3> QED
        BY <1>1, <3>2, HandleDroppedWake
    <2>6. CASE x.k = "new"
      <3>1. HandleNewSession(m)
        BY <2>1, <2>2, <2>6 DEF HandleMessage
      <3> QED
        BY <1>1, <3>1, HandleNewSessionWake
    <2>7. CASE x.k = "bad"
      <3>1. HandleBad(m, how)
        BY <2>1, <2>2, <2>7 DEF HandleMessage
      <3>2. CASE how = "seqno"
        <4>1. ResetSessionInfo /\ UNCHANGED <<cq, started, closed>>
          BY <1>1, <3>1, <3>2 DEF HandleBad
        <4> QED
          BY <1>3, <4>1, NewSessionWake
      <3>3. CASE how # "seqno"
        BY <1>1, <3>1, <3>3, HandleBadKeptWake
      <3> QED
        BY <3>2, <3>3
    <2> QED
      BY <1>3, <2>2, <2>3, <2>4, <2>5, <2>6, <2>7 DEF Answers
  <1> QED
    BY <1>4, <1>5

-----------------------------------------------------------------------------
(*                       A transaction is put together                     *)

(* The block d answers the transport that was ready. *)
LEMMA ReadyWake ==
    ASSUME IndInv, WakeInv, mq # <<>>, Head(mq).op = "ready", mq' = Tail(mq),
           UNCHANGED <<transport, tr, cq, started, closed>>,
           UNCHANGED <<willRequest, paused, timeFix>>,
           NEW d, d.op = "send", d.t = Head(mq).t, tq' = Append(tq, d),
           d.batch = {} \/ d.t = transport,
           NEW E, E = {} \cup {d}, WaitMoves(E, 1), SleepMoves(E, 1)
    PROVE  WakeInv'
  <1>1. /\ transport' = transport /\ tr' = tr /\ cq' = cq /\ started' = started
        /\ closed' = closed /\ willRequest' = willRequest /\ paused' = paused
        /\ timeFix' = timeFix
    OBVIOUS
  <1>2. PICK x, t : x = tr[transport] /\ t = transport
    OBVIOUS
  <1>3. /\ Moved(cq', cq, 0, {}) /\ Moved(mq', mq, 1, {}) /\ mq[1].op = "ready" /\ mq[1].t = d.t
    BY <1>1, Still, HeadMq
  <1>4. Moved(tq', tq, 0, E)
    BY Still, MovedAppend
  <1>5. /\ mq[1].t = t => In(E, Sendings, t)
        /\ \A e \in E : e.op = "send" /\ (e.batch = {} \/ e.t = t)
    BY <1>2, <1>3 DEF In, Sendings
  <1>6. PendMoves(0, E, 1, {})
    <2>1. SoonMoves(x, x, t, closed, closed', tq, 0, E, mq, 1, {})
      BY <1>1, <1>5 DEF SoonMoves
    <2>2. Rouse => Rouse'
      BY <1>1 DEF Rouse
    <2> QED
      BY <1>1, <1>2, <2>1, <2>2 DEF PendMoves
  <1>7. OwnMoves(0, E, 0, {}, 1, {})
    BY DEF OwnMoves
  <1>8. Current' /\ Resting'
    <2>1. /\ AtMoved(tq', tq, 0, E, Calls, t) /\ AtMoved(tq', tq, 0, E, Passes, t)
          /\ AtMoved(tq', tq, 0, E, Sendings, t) /\ AtMoved(mq', mq, 1, {}, Readies, t)
      BY <1>3, <1>4, AtStep
    <2>2. /\ At(tq, Calls, t, 0) => At(tq', Calls, t, 0)
          /\ At(tq, Passes, t, 0) => At(tq', Passes, t, 0)
          /\ At(tq, Sendings, t, 0) => At(tq', Sendings, t, 0)
          /\ At(mq, Readies, t, 0) => At(mq', Readies, t, 0) \/ At(tq', Sendings, t, 0)
      BY <1>5, <2>1 DEF AtMoved
    <2>3. ASSUME CurrentOK(x, t, tq, mq, started, willRequest \/ paused)
          PROVE  CurrentOK(x, t, tq', mq', started', willRequest' \/ paused')
      BY <1>1, <2>2, <2>3 DEF CurrentOK
    <2> QED
      BY <1>1, <1>2, <2>3 DEF WakeInv, Current, Resting
  <1>9. StartsOnce(cq', started')
    BY <1>1 DEF WakeInv
  <1>10. Sends'
    <2>1. ASSUME OldSends(tq, x, t)
          PROVE  OldSends(tq', x, t)
      <3>1. SendMoves(tq, 0, E, x, x, t)
        BY <1>5 DEF SendMoves
      <3> QED
        BY <1>4, <2>1, <3>1, SendsStep
    <2> QED
      BY <1>1, <1>2, <2>1 DEF WakeInv, Sends
  <1>11. Writes'
    BY <1>1 DEF WakeInv, Writes
  <1> QED
    BY <1>3, <1>4, <1>6, <1>7, <1>8, <1>9, <1>10, <1>11, WakeStep

(* No message is left out of the payloads. *)
LEMMA PayloadsCover ==
    ASSUME NEW list, NEW n \in Nat, \A m \in list : m.id \in 1..(n - 1),
           NEW cuts, cuts \subseteq {m.id : m \in list}, NEW first, NEW ps,
           ps = Payloads(list, cuts, first), NEW p \in list
    PROVE  \E i \in 1..Len(ps) : p \in ps[i].msgs
  <1>1. PICK k : k = Cardinality(cuts) + 1
    OBVIOUS
  <1>2. IsFiniteSet(cuts)
    <2>1. PICK I : I = 1..(n - 1)
      OBVIOUS
    <2>2. IsFiniteSet(I)
      BY <2>1, FS_Interval
    <2>3. cuts \subseteq I
      BY <2>1
    <2> QED
      BY <2>2, <2>3, FS_Subset
  <1>3. Cardinality(cuts) \in Nat
    BY <1>2, FS_CardinalityType
  <1>4. PICK S : S = {c \in cuts : c < p.id}
    OBVIOUS
  <1>5. Cardinality(S) \in Nat /\ Cardinality(S) <= Cardinality(cuts)
    <2>1. S \subseteq cuts
      BY <1>4
    <2>2. IsFiniteSet(S) /\ Cardinality(S) <= Cardinality(cuts)
      BY <1>2, <2>1, FS_Subset
    <2> QED
      BY <2>2, FS_CardinalityType
  <1>6. PICK i : i = Cardinality(S) + 1
    OBVIOUS
  <1>7. i \in 1..k /\ Cardinality(S) = i - 1
    BY <1>1, <1>3, <1>5, <1>6
  <1> DEFINE part(j)  == {m \in list : Cardinality({c \in cuts : c < m.id}) = j - 1}
             boxed(j) == Cardinality({h \in 1..j : Cardinality(part(h)) > 1})
             at(j) == [sess |-> session, msgs |-> part(j),
                       box |-> IF Cardinality(part(j)) > 1 THEN first + boxed(j) - 1 ELSE 0]
  <1>8. ps = [j \in 1..k |-> at(j)]
    BY <1>1 DEF Payloads
  <1>9. p \in at(i).msgs
    BY <1>4, <1>7
  <1> HIDE DEF at
  <1>10. Len(ps) = k
    <2>1. PICK T : T = {at(j) : j \in 1..k}
      OBVIOUS
    <2>2. ps \in [1..k -> T] /\ k \in Nat
      BY <1>1, <1>3, <1>8, <2>1
    <2> QED
      BY <2>2, LenProperties
  <1> QED
    BY <1>7, <1>8, <1>9, <1>10

(* Every request that can be sent is in the transaction. *)
LEMMA AllPrepared ==
    ASSUME IndInv, NEW ping, NEW r \in Queued, Sendable(r)
    PROVE  \E p \in Prepared(Outgoing(ping)) : p.kind = "req" /\ p.ref = r
  <1>1. PICK m : m = [kind |-> "req", ref |-> r, id |-> MessageIdOf(r)]
    OBVIOUS
  <1>2. m \in Outgoing(ping)
    BY <1>1 DEF Outgoing
  <1>3. PICK i : i = IF m.id # 0 THEN m.id
                     ELSE nextMsg + Cardinality({x \in Fresh(Outgoing(ping)) : Before(x, m)})
    OBVIOUS
  <1>4. [m EXCEPT !.id = i] \in Prepared(Outgoing(ping))
    BY <1>2, <1>3 DEF Prepared
  <1>5. [m EXCEPT !.id = i].kind = "req" /\ [m EXCEPT !.id = i].ref = r
    BY <1>1
  <1> QED
    BY <1>4, <1>5

LEMMA RunReadyWake ==
    ASSUME IndInv, WakeInv, RunReady
    PROVE  WakeInv'
  <1>1. /\ UNCHANGED <<transport, tr, cq, started, closed>>
        /\ UNCHANGED <<willRequest, paused, timeFix>>
        /\ mq # <<>> /\ Head(mq).op = "ready" /\ mq' = Tail(mq)
    BY DEF RunReady, flags
  <1>2. requests' = requests /\ err' = err /\ password' = password /\ timeFix' = timeFix
    BY DEF RunReady, flags
  <1>3. PICK e : e = Head(mq)
    OBVIOUS
  <1>4. HandleReady(e) /\ e = mq[1]
    BY <1>1, <1>3, HeadMq DEF RunReady
  <1>5. /\ Queued \subseteq Request /\ Queued' = Queued
        /\ \A r : ~OwnSent(mq[1], r)
        /\ ReadyTaken(1) => e.t = transport
    BY <1>1, <1>2, <1>3, <1>4, QueuedAre DEF IndInv, Queued, OwnSent, ReadyTaken
  <1> DEFINE out   == Outgoing(e.ping)
             list  == Prepared(out)
             idOf  == {m.id : m \in list}
             batch == {m.ref : m \in {x \in list : x.kind = "req"}}
             n0 == nextMsg + Cardinality(Fresh(out))
             given(r) == (CHOOSE m \in list : m.kind = "req" /\ m.ref = r).id
  <1>6. \A r \in Queued : Sendable(r) => r \in batch /\ list # {}
    BY AllPrepared
  <1>7. CASE e.t # transport \/ timeFix \/ out = {}
    <2>1. PICK d : d = [op |-> "send", t |-> e.t, payloads |-> <<>>, batch |-> {}]
      OBVIOUS
    <2>2. tq' = Append(tq, d) /\ ctx' = ctx
      BY <1>4, <1>7, <2>1 DEF HandleReady
    <2>3. d.op = "send" /\ d.t = e.t /\ d.batch = {}
      BY <2>1
    <2>4. PICK E : E = {} \cup {d}
      OBVIOUS
    <2>5. WaitMoves(E, 1)
      BY <1>5, <2>2 DEF WaitMoves
    <2>6. SleepMoves(E, 1)
      <3> SUFFICES ASSUME NEW r \in Queued, Sendable(r)', ~err'[r].on, ~timeFix
                   PROVE  Sendable(r) /\ ~err[r].on /\ ~ReadyTaken(1)
        BY <1>2, <1>5 DEF SleepMoves, Rouse
      <3>1. Sendable(r) /\ ~err[r].on
        BY <1>2, <2>2 DEF Sendable
      <3>2. out # {}
        BY <1>6, <3>1 DEF Prepared
      <3> QED
        BY <1>5, <1>7, <3>1, <3>2
    <2> QED
      BY <1>1, <1>3, <2>2, <2>3, <2>4, <2>5, <2>6, ReadyWake
  <1>8. CASE ~(e.t # transport \/ timeFix \/ out = {})
    <2>1. PICK cuts \in SUBSET {i \in idOf : \E j \in idOf : i < j} :
            /\ tq' = Append(tq, [op |-> "send", t |-> e.t, payloads |-> Payloads(list, cuts, n0),
                                 batch |-> batch])
            /\ ctx' = [r \in Request |->
                 IF r \in batch
                 THEN [msg |-> given(r), txn |-> NoConn, waiting |-> TRUE, delivered |-> FALSE]
                 ELSE ctx[r]]
      BY <1>4, <1>8 DEF HandleReady
    <2>2. PICK ps, d : /\ ps = Payloads(list, cuts, n0)
                       /\ d = [op |-> "send", t |-> e.t, payloads |-> ps, batch |-> batch]
      OBVIOUS
    <2>3. d.op = "send" /\ d.t = e.t /\ d.batch = batch /\ d.payloads = ps /\ d.t = transport
      BY <1>8, <2>2
    <2>4. PICK E : E = {} \cup {d}
      OBVIOUS
    <2>5. PICK L, n : L = list /\ n = n0
      OBVIOUS
    <2>6. n \in Nat /\ \A m \in L : m.id \in 1..(n - 1)
      BY <2>5, PreparedIs
    <2>7. cuts \subseteq {m.id : m \in L} /\ ps = Payloads(L, cuts, n)
      BY <2>1, <2>2, <2>5
    <2>8. ASSUME NEW r \in batch
          PROVE  OwnSend(d, r)
      <3>1. PICK p \in L : p.kind = "req" /\ p.ref = r
        BY <2>5, <2>8
      <3>2. PICK i \in 1..Len(ps) : p \in ps[i].msgs
        BY <2>6, <2>7, <3>1, PayloadsCover
      <3>3. r \in d.batch
        BY <2>3, <2>8
      <3> HIDE DEF batch, list
      <3> QED
        BY <2>3, <3>1, <3>2, <3>3 DEF OwnSend, Names
    <2>9. \A r \in Request : /\ r \notin batch => ctx'[r] = ctx[r]
                             /\ r \in batch => ctx'[r].waiting
      BY <2>1
    <2> HIDE DEF batch, list
    <2>10. WaitMoves(E, 1)
      BY <1>5, <2>4, <2>8, <2>9 DEF WaitMoves
    <2>11. SleepMoves(E, 1)
      <3> SUFFICES ASSUME NEW r \in Queued, Sendable(r)'
                   PROVE  FALSE
        BY <1>5 DEF SleepMoves
      <3>1. r \in Request /\ ctx'[r].waiting => ctx'[r] # NoCtx
        BY <1>5, NoCtxIs
      <3>2. r \notin batch /\ ctx'[r] = ctx[r]
        BY <1>5, <2>9, <3>1 DEF Sendable
      <3>3. Sendable(r)
        BY <1>2, <3>2 DEF Sendable
      <3> QED
        BY <1>6, <3>2, <3>3
    <2>12. tq' = Append(tq, d)
      BY <2>1, <2>2
    <2> QED
      BY <1>1, <1>3, <2>3, <2>4, <2>10, <2>11, <2>12, ReadyWake
  <1> QED
    BY <1>7, <1>8

-----------------------------------------------------------------------------
(*                      Steps of tcpTransportQueue                         *)

(* The current transport t goes from x to y. *)
TransportMoves(x, y, t, kt, Et, Ec, Em) ==
    /\ SoonMoves(x, y, t, closed, closed', tq, kt, Et, mq, 0, Em)
    /\ CurrentOK(y, t, tq', mq', started', willRequest' \/ paused')
    /\ SendMoves(tq, kt, Et, x, y, t) /\ WriteMoves(Ec, x.conn, y.conn)

LEMMA TcpWake ==
    ASSUME IndInv, WakeInv, UNCHANGED <<service, transport, willRequest, flags>>,
           Len(tr') = Len(tr),
           NEW kt \in {0, 1}, NEW Et, Moved(tq', tq, kt, Et),
           NEW Ec, Moved(cq', cq, 0, Ec), StartsOnce(cq', started'),
           NEW Em, Moved(mq', mq, 0, Em),
           transport # NoTransport =>
             TransportMoves(tr[transport], tr'[transport], transport, kt, Et, Ec, Em),
           OwnMoves(kt, Et, 0, Ec, 0, Em),
           \A e \in Em : e.op = "sent" /\ ~e.ok /\ e.batch # {} => Aware'
    PROVE  WakeInv'
  <1>1. /\ transport' = transport /\ requests' = requests /\ ctx' = ctx /\ err' = err
        /\ password' = password /\ paused' = paused /\ timeFix' = timeFix
        /\ willRequest' = willRequest
    BY DEF service, flags
  <1>2. PICK x, y, t, c, d : /\ x = tr[transport] /\ y = tr'[transport] /\ t = transport
                             /\ c = tr[transport].conn /\ d = tr'[transport].conn
    OBVIOUS
  <1>3. t # NoTransport =>
          /\ SoonMoves(x, y, t, closed, closed', tq, kt, Et, mq, 0, Em)
          /\ CurrentOK(y, t, tq', mq', started', willRequest' \/ paused')
          /\ SendMoves(tq, kt, Et, x, y, t) /\ WriteMoves(Ec, c, d)
    BY <1>2 DEF TransportMoves
  <1>4. PendMoves(kt, Et, 0, Em)
    <2>1. Rouse => Rouse'
      BY <1>1 DEF Rouse
    <2> QED
      BY <1>1, <1>2, <1>3, <2>1 DEF PendMoves
  <1>5. Current' /\ Resting'
    BY <1>1, <1>2, <1>3 DEF WakeInv, Current, Resting
  <1>6. Sends'
    <2>1. ASSUME t # NoTransport
          PROVE  OldSends(tq', y, t)
      <3>1. OldSends(tq, x, t) /\ SendMoves(tq, kt, Et, x, y, t)
        BY <1>2, <1>3, <2>1 DEF WakeInv, Sends
      <3> QED
        BY <3>1, SendsStep
    <2> QED
      BY <1>1, <1>2, <2>1 DEF Sends
  <1>7. Writes'
    <2>1. ASSUME t # NoTransport
          PROVE  OldWrites(cq', d)
      <3>1. OldWrites(cq, c) /\ WriteMoves(Ec, c, d)
        BY <1>2, <1>3, <2>1 DEF WakeInv, Writes
      <3> QED
        BY <3>1, WritesStep
    <2> QED
      BY <1>1, <1>2, <2>1 DEF Writes
  <1>8. WaitMoves(Et, 0) /\ SleepMoves(Et, 0)
    BY <1>1 DEF WaitMoves, SleepMoves, Sendable, Queued, ReadyTaken
  <1> QED
    BY <1>4, <1>5, <1>6, <1>7, <1>8, WakeStep

(* The context x of the current transport, between two steps. *)
LEMMA CurrentIs ==
    ASSUME IndInv, WakeInv, transport # NoTransport, NEW x, x = tr[transport]
    PROVE  /\ x \in TransportContext /\ x.live /\ transport \in 1..Len(tr)
           /\ CurrentOK(x, transport, tq, mq, started, willRequest \/ paused)
           /\ x.conn \in started => x.conn # NoConn
           /\ x.conn \in closed => x.conn # NoConn
  <1>1. transport \in 1..Len(tr) /\ Len(tr) \in Nat
    BY Numbers DEF IndInv, Basics, NoTransport
  <1>2. x \in TransportContext
    BY <1>1, Numbers DEF IndInv
  <1>3. NoConn \notin started /\ NoConn \notin closed
    BY DEF IndInv, ConnsOK, NoConn
  <1> QED
    BY <1>1, <1>2, <1>3 DEF IndInv, TrOK, WakeInv, Current

(* What is posted for the current transport stays posted. *)
Kept(kt, Et, Em, t) ==
    /\ At(tq, Calls, t, 0) => At(tq', Calls, t, 0) \/ (kt = 1 /\ tq[1].op \in Calls /\ tq[1].t = t)
    /\ At(tq, Passes, t, 0) => At(tq', Passes, t, 0) \/ (kt = 1 /\ tq[1].op \in Passes /\ tq[1].t = t)
    /\ At(tq, Sendings, t, 0) =>
         At(tq', Sendings, t, 0) \/ (kt = 1 /\ tq[1].op \in Sendings /\ tq[1].t = t)
    /\ At(mq, Readies, t, 0) => At(mq', Readies, t, 0)
    /\ In(Et, Calls, t) => At(tq', Calls, t, 0)
    /\ In(Et, Passes, t) => At(tq', Passes, t, 0)
    /\ In(Em, Readies, t) => At(mq', Readies, t, 0)

LEMMA KeptBy ==
    ASSUME NEW kt \in {0, 1}, NEW Et, Moved(tq', tq, kt, Et), NEW Em, Moved(mq', mq, 0, Em), NEW t
    PROVE  Kept(kt, Et, Em, t)
  <1>1. /\ AtMoved(tq', tq, kt, Et, Calls, t) /\ AtMoved(tq', tq, kt, Et, Passes, t)
        /\ AtMoved(tq', tq, kt, Et, Sendings, t) /\ AtMoved(mq', mq, 0, Em, Readies, t)
    BY AtStep
  <1> QED
    BY <1>1 DEF AtMoved, Kept

(* A step that is not the current transport's. *)
LEMMA OthersMove ==
    ASSUME IndInv, WakeInv, transport # NoTransport, tr'[transport] = tr[transport],
           UNCHANGED <<willRequest, paused, started, closed>>,
           NEW kt \in {0, 1}, NEW Et, Moved(tq', tq, kt, Et), NEW Ec,
           NEW Em, Moved(mq', mq, 0, Em),
           kt = 1 => tq[1].t # transport \/ tq[1].op \notin {"needs", "pass", "send"},
           \A e \in Et : e.op # "send",
           \A e \in Ec : e.op = "write" /\ e.batch # {} => tr[transport].conn = NoConn
    PROVE  TransportMoves(tr[transport], tr'[transport], transport, kt, Et, Ec, Em)
  <1>1. PICK x, t : x = tr[transport] /\ t = transport
    OBVIOUS
  <1>2. CurrentOK(x, t, tq, mq, started, willRequest \/ paused) /\ Kept(kt, Et, Em, t)
    BY <1>1, CurrentIs, KeptBy
  <1>3. kt = 1 /\ tq[1].t = t => tq[1].op \notin Calls \cup Passes \cup Sendings
    BY <1>1 DEF Calls, Passes, Sendings
  <1>4. SoonMoves(x, x, t, closed, closed', tq, kt, Et, mq, 0, Em)
    BY <1>3 DEF SoonMoves
  <1>5. CurrentOK(x, t, tq', mq', started', willRequest' \/ paused')
    BY <1>2, <1>3 DEF CurrentOK, Kept
  <1>6. SendMoves(tq, kt, Et, x, x, t) /\ WriteMoves(Ec, x.conn, x.conn)
    BY <1>1 DEF SendMoves, WriteMoves
  <1> QED
    BY <1>1, <1>4, <1>5, <1>6 DEF TransportMoves

(* The context of t goes to y, those of the others stay. *)
LEMMA OneChanges ==
    ASSUME IndInv, NEW t \in 1..Len(tr), NEW y \in TransportContext, tr' = [tr EXCEPT ![t] = y]
    PROVE  /\ Len(tr') = Len(tr) /\ tr'[t] = y
           /\ transport # NoTransport /\ transport # t => tr'[transport] = tr[transport]
  <1>1. /\ Len(tr') = Len(tr) /\ tr'[t] = y /\ \A u \in 1..Len(tr) : u # t => tr'[u] = tr[u]
    BY TrUpdate DEF IndInv, Basics
  <1>2. transport # NoTransport => transport \in 1..Len(tr)
    BY Numbers DEF IndInv, Basics, NoTransport
  <1> QED
    BY <1>1, <1>2

LEMMA SameStarts ==
    ASSUME WakeInv, cq' = cq, started' = started
    PROVE  StartsOnce(cq', started')
  BY DEF WakeInv

LEMMA RunNeedsWake ==
    ASSUME IndInv, WakeInv, RunNeeds
    PROVE  WakeInv'
  <1>1. /\ tq # <<>> /\ Head(tq).op = "needs"
        /\ UNCHANGED <<service, transport, willRequest, flags>>
        /\ cq' = cq /\ mq' = mq /\ started' = started /\ closed' = closed
        /\ paused' = paused /\ willRequest' = willRequest
    BY DEF RunNeeds, proto, flags
  <1>2. PICK t, x, y, e : /\ t = Head(tq).t /\ x = tr[t] /\ y = [tr[t] EXCEPT !.will = TRUE]
                          /\ e = [op |-> "pass", t |-> t]
    OBVIOUS
  <1>3. /\ t \in 1..Len(tr) /\ x \in TransportContext /\ tq[1].op = "needs" /\ tq[1].t = t
        /\ Moved(Tail(tq), tq, 1, {})
    BY <1>1, <1>2, HeadTq
  <1>4. /\ y \in TransportContext /\ y.conn = x.conn /\ y.open = x.open /\ y.want = x.want
        /\ y.lock = x.lock /\ y.again = x.again /\ y.stopped = x.stopped
    BY <1>2, <1>3 DEF TransportContext
  <1>5. tr' = [tr EXCEPT ![t] = y] /\ tq' = IF x.will THEN Tail(tq) ELSE Append(Tail(tq), e)
    BY <1>2 DEF RunNeeds
  <1>6. PICK E : /\ Moved(tq', tq, 1, E) /\ \A z \in E : z.op # "send"
                 /\ x.will \/ (In(E, Calls, t) /\ In(E, Passes, t))
    <2>1. CASE x.will
      BY <1>3, <1>5, <2>1
    <2>2. CASE ~x.will
      <3>1. Moved(tq', tq, 1, {} \cup {e})
        BY <1>3, <1>5, <2>2, MovedAppend
      <3>2. /\ \A z \in {} \cup {e} : z.op # "send"
            /\ In({} \cup {e}, Calls, t) /\ In({} \cup {e}, Passes, t)
        BY <1>2 DEF In, Calls, Passes
      <3> QED
        BY <3>1, <3>2
    <2> QED
      BY <2>1, <2>2
  <1>7. /\ Len(tr') = Len(tr) /\ tr'[t] = y
        /\ transport # NoTransport /\ transport # t => tr'[transport] = tr[transport]
    BY <1>3, <1>4, <1>5, OneChanges
  <1>8. Moved(cq', cq, 0, {}) /\ Moved(mq', mq, 0, {}) /\ StartsOnce(cq', started')
    BY <1>1, Still, SameStarts
  <1>9. ASSUME transport # NoTransport
        PROVE  TransportMoves(tr[transport], tr'[transport], transport, 1, E, {}, {})
    <2>1. CASE transport # t
      <3>1. tr'[transport] = tr[transport] /\ (tq[1].t # transport \/ tq[1].op \notin {"needs", "pass", "send"})
        BY <1>3, <1>7, <1>9, <2>1
      <3> QED
        BY <1>1, <1>6, <1>8, <1>9, <3>1, OthersMove
    <2>2. CASE transport = t
      <3>1. /\ CurrentOK(x, t, tq, mq, started, willRequest \/ paused) /\ Kept(1, E, {}, t)
        BY <1>2, <1>6, <1>8, <1>9, <2>2, CurrentIs, KeptBy
      <3>2. tq[1].op \in Calls /\ tq[1].op \notin Passes /\ tq[1].op \notin Sendings
        BY <1>3 DEF Calls, Passes, Sendings
      <3>3. At(tq', Passes, t, 0)
        BY <1>6, <3>1, <3>2 DEF CurrentOK, Kept
      <3>4. At(tq', Calls, t, 0)
        BY <3>3 DEF At, Passes, Calls
      <3>5. In(E, Calls, t) \/ At(tq, Calls, t, 1)
        <4>1. AtMoved(tq', tq, 1, E, Calls, t)
          BY <1>6, AtStep
        <4> QED
          BY <3>4, <4>1 DEF AtMoved
      <3>6. SoonMoves(x, y, t, closed, closed', tq, 1, E, mq, 0, {})
        BY <1>1, <1>4, <3>2, <3>5 DEF SoonMoves, Alert
      <3>7. CurrentOK(y, t, tq', mq', started', willRequest' \/ paused')
        BY <1>1, <1>4, <3>1, <3>2, <3>3, <3>4 DEF CurrentOK, Kept
      <3>8. SendMoves(tq, 1, E, x, y, t) /\ WriteMoves({}, x.conn, y.conn)
        BY <1>3, <1>4, <1>6, <3>2 DEF SendMoves, WriteMoves
      <3> QED
        BY <1>2, <1>7, <2>2, <3>6, <3>7, <3>8 DEF TransportMoves
    <2> QED
      BY <2>1, <2>2
  <1>10. OwnMoves(1, E, 0, {}, 0, {})
    BY <1>3 DEF OwnMoves, OwnSend
  <1> QED
    BY <1>1, <1>6, <1>7, <1>8, <1>9, <1>10, TcpWake

(* What asking the delegate makes of the context x of t: a question is     *)
(* posted, or refused and remembered, or there is nobody to ask.           *)
AsksOf(x, y, t, E) ==
    /\ y.conn = x.conn /\ y.open = x.open /\ y.want = x.want /\ y.will = x.will
    /\ y.stopped = x.stopped
    /\ \A e \in E : e.op = "ready"
    /\ \/ In(E, Readies, t)
       \/ x.lock /\ ~x.ping /\ y.again
       \/ ~x.live

LEMMA AsksFor ==
    ASSUME IndInv, NEW t \in 1..Len(tr), NEW x \in TransportContext, NEW p, NEW F,
           Lists(p, F), RequestTransaction(t, x, p)
    PROVE  \E y, E :
             /\ y \in TransportContext
             /\ tr' = [tr EXCEPT ![t] = y] /\ Moved(mq', mq, 0, F \cup E) /\ AsksOf(x, y, t, E)
  <1>1. PICK slow \in BOOLEAN : /\ tr' = [tr EXCEPT ![t] = Asking(x, slow)]
                                /\ mq' = mq \o p \o Asked(t, x, slow)
    BY DEF RequestTransaction
  <1>2. PICK y : y = Asking(x, slow)
    OBVIOUS
  <1>3. /\ y \in TransportContext
        /\ y.conn = x.conn /\ y.open = x.open /\ y.want = x.want /\ y.will = x.will
        /\ y.stopped = x.stopped
        /\ Refused(x, slow) => y.again /\ x.lock /\ ~x.ping
    BY <1>2 DEF Asking, TransportContext, Refused
  <1>4. Moved(mq \o p, mq, 0, {} \cup F)
    BY MovedSame, MovedConcat DEF IndInv, Basics, Lists
  <1>5. PICK a, e : a = Asked(t, x, slow) /\ e = [op |-> "ready", t |-> t, ping |-> x.ping]
    OBVIOUS
  <1>6. PICK E : /\ Lists(a, E) /\ \A z \in E : z.op = "ready"
                 /\ In(E, Readies, t) \/ Refused(x, slow) \/ ~x.live
    <2>1. CASE Refused(x, slow) \/ ~x.live
      <3>1. a = <<>>
        BY <1>5, <2>1 DEF Asked
      <3>2. Lists(a, {}) /\ \A z \in {} : z.op = "ready"
        BY <3>1, ListsFew
      <3> QED
        BY <2>1, <3>2
    <2>2. CASE ~(Refused(x, slow) \/ ~x.live)
      <3>1. a = <<e>>
        BY <1>5, <2>2 DEF Asked
      <3>2. Lists(a, {e})
        BY <3>1, ListsFew
      <3>3. (\A z \in {e} : z.op = "ready") /\ In({e}, Readies, t)
        BY <1>5 DEF In, Readies
      <3> QED
        BY <3>2, <3>3
    <2> QED
      BY <2>1, <2>2
  <1>7. Moved((mq \o p) \o a, mq, 0, ({} \cup F) \cup E)
    BY <1>4, <1>6, MovedConcat DEF Lists
  <1>8. ({} \cup F) \cup E = F \cup E
    OBVIOUS
  <1>9. Moved(mq', mq, 0, F \cup E)
    BY <1>1, <1>5, <1>7, <1>8
  <1>10. AsksOf(x, y, t, E) /\ tr' = [tr EXCEPT ![t] = y]
    BY <1>1, <1>2, <1>3, <1>6 DEF AsksOf
  <1> QED
    BY <1>3, <1>9, <1>10

LEMMA RunPassWake ==
    ASSUME IndInv, WakeInv, RunPass
    PROVE  WakeInv'
  <1>1. /\ tq # <<>> /\ Head(tq).op = "pass" /\ tq' = Tail(tq)
        /\ UNCHANGED <<service, transport, willRequest, flags>>
        /\ UNCHANGED <<willRequest, paused, started, closed>> /\ cq' = cq
    BY DEF RunPass, flags
  <1>2. PICK t, x, v : /\ t = Head(tq).t /\ x = tr[t] /\ v = [tr[t] EXCEPT !.will = FALSE]
    OBVIOUS
  <1>3. /\ t \in 1..Len(tr) /\ x \in TransportContext /\ tq[1].op = "pass" /\ tq[1].t = t
        /\ Moved(tq', tq, 1, {})
    BY <1>1, <1>2, HeadTq
  <1>4. /\ v \in TransportContext /\ v.conn = x.conn /\ v.open = x.open /\ v.want = x.want
        /\ v.lock = x.lock /\ v.again = x.again /\ v.stopped = x.stopped /\ ~v.will
        /\ v.live = x.live
    BY <1>2, <1>3 DEF TransportContext
  <1>5. PICK y, E :
          /\ y \in TransportContext
          /\ tr' = [tr EXCEPT ![t] = y] /\ Moved(mq', mq, 0, E)
          /\ \/ x.open /\ AsksOf(v, y, t, E)
             \/ /\ ~x.open /\ E = {} /\ y.conn = x.conn /\ ~y.open /\ ~y.will
                /\ y.stopped = x.stopped /\ y.lock = x.lock
                /\ x.conn = NoConn /\ ~x.stopped => y.want
                /\ y.again = x.again
    <2>1. CASE x.open
      <3>1. RequestTransaction(t, v, <<>>)
        BY <1>2, <1>4, <2>1 DEF RunPass
      <3>2. PICK p, F : p = <<>> /\ F = {} /\ Lists(p, F)
        BY ListsFew
      <3>3. RequestTransaction(t, v, p)
        BY <3>1, <3>2
      <3>4. PICK y, E :
              /\ y \in TransportContext
              /\ tr' = [tr EXCEPT ![t] = y] /\ Moved(mq', mq, 0, F \cup E) /\ AsksOf(v, y, t, E)
        BY <1>3, <1>4, <3>2, <3>3, AsksFor
      <3>5. F \cup E = E
        BY <3>2
      <3>6. Moved(mq', mq, 0, E)
        BY <3>4, <3>5
      <3> QED
        BY <2>1, <3>4, <3>6
    <2>2. CASE ~x.open
      <3>1. PICK w : w = (v.conn = NoConn /\ ~v.stopped) /\ w \in BOOLEAN
        BY Zenon
      <3>2. PICK y : y = [v EXCEPT !.want = w]
        OBVIOUS
      <3>3. /\ y \in TransportContext /\ y.conn = x.conn /\ ~y.open /\ ~y.will
            /\ y.stopped = x.stopped /\ y.lock = x.lock /\ y.want = w /\ y.again = x.again
        BY <1>4, <2>2, <3>1, <3>2 DEF TransportContext
      <3>4. x.conn = NoConn /\ ~x.stopped => y.want
        BY <1>4, <3>1, <3>3
      <3>5. /\ tr' = [tr EXCEPT ![t] = [v EXCEPT !.want = v.conn = NoConn /\ ~v.stopped]]
            /\ mq' = mq
        BY <1>2, <1>4, <2>2 DEF RunPass
      <3>6. tr' = [tr EXCEPT ![t] = y]
        BY <3>1, <3>2, <3>5
      <3>7. Moved(mq', mq, 0, {})
        BY <3>5, Still
      <3> QED
        BY <2>2, <3>3, <3>4, <3>6, <3>7
    <2> QED
      BY <2>1, <2>2
  <1>6. /\ Len(tr') = Len(tr) /\ tr'[t] = y
        /\ transport # NoTransport /\ transport # t => tr'[transport] = tr[transport]
    BY <1>3, <1>5, OneChanges
  <1>7. Moved(cq', cq, 0, {}) /\ StartsOnce(cq', started')
    BY <1>1, Still, SameStarts
  <1>8. ASSUME transport # NoTransport
        PROVE  TransportMoves(tr[transport], tr'[transport], transport, 1, {}, {}, E)
    <2>1. CASE transport # t
      <3>1. tr'[transport] = tr[transport] /\ tq[1].t # transport
        BY <1>3, <1>6, <1>8, <2>1
      <3> QED
        BY <1>1, <1>3, <1>5, <1>8, <3>1, OthersMove
    <2>2. CASE transport = t
      <3>1. /\ CurrentOK(x, t, tq, mq, started, willRequest \/ paused) /\ Kept(1, {}, E, t)
            /\ x.live /\ (x.conn \in started => x.conn # NoConn)
        BY <1>2, <1>3, <1>5, <1>8, <2>2, CurrentIs, KeptBy
      <3>2. tq[1].op \in Calls /\ tq[1].op \in Passes /\ tq[1].op \notin Sendings
        BY <1>3 DEF Calls, Passes, Sendings
      <3>3. CASE x.open /\ AsksOf(v, y, t, E)
        <4>1. /\ y.conn = x.conn /\ y.open = x.open /\ y.want = x.want /\ ~y.will
              /\ y.stopped = x.stopped /\ x.conn # NoConn
              /\ In(E, Readies, t) \/ (x.lock /\ y.again)
          BY <1>4, <3>1, <3>3 DEF AsksOf, CurrentOK
        <4>2. x.lock => At(tq, Sendings, t, 1) \/ At(mq, Readies, t, 0)
          <5>1. AtMoved(tq', tq, 1, {}, Sendings, t)
            BY <1>3, AtStep
          <5> QED
            BY <1>3, <3>1, <3>2, <5>1 DEF AtMoved, CurrentOK, In
        <4>3. At(tq', Sendings, t, 0) \/ At(mq', Readies, t, 0)
          BY <3>1, <3>2, <4>1 DEF CurrentOK, Kept
        <4>4. SoonMoves(x, y, t, closed, closed', tq, 1, {}, mq, 0, E)
          BY <1>1, <3>2, <4>1, <4>2 DEF SoonMoves, Alert
        <4>5. CurrentOK(y, t, tq', mq', started', willRequest' \/ paused')
          BY <1>1, <3>1, <3>3, <4>1, <4>3 DEF CurrentOK
        <4>6. SendMoves(tq, 1, {}, x, y, t) /\ WriteMoves({}, x.conn, y.conn)
          BY <1>3, <3>2, <4>1 DEF SendMoves, WriteMoves
        <4> QED
          BY <1>2, <1>6, <2>2, <4>4, <4>5, <4>6 DEF TransportMoves
      <3>4. CASE /\ ~x.open /\ E = {} /\ y.conn = x.conn /\ ~y.open /\ ~y.will
                 /\ y.stopped = x.stopped /\ y.lock = x.lock
                 /\ x.conn = NoConn /\ ~x.stopped => y.want
                 /\ y.again = x.again
        <4>1. ~x.stopped /\ (x.conn = NoConn => y.want)
          BY <3>1, <3>4 DEF CurrentOK
        <4>2. Alert(y, closed')
          BY <3>4, <4>1 DEF Alert
        <4>3. SoonMoves(x, y, t, closed, closed', tq, 1, {}, mq, 0, E)
          BY <3>2, <3>4, <4>2 DEF SoonMoves
        <4>4. CurrentOK(y, t, tq', mq', started', willRequest' \/ paused')
          BY <3>1, <3>2, <3>4, <4>1 DEF CurrentOK, Kept
        <4>5. SendMoves(tq, 1, {}, x, y, t) /\ WriteMoves({}, x.conn, y.conn)
          BY <1>3, <3>2, <3>4 DEF SendMoves, WriteMoves
        <4> QED
          BY <1>2, <1>6, <2>2, <4>3, <4>4, <4>5 DEF TransportMoves
      <3> QED
        BY <1>5, <3>3, <3>4
    <2> QED
      BY <2>1, <2>2
  <1>9. /\ OwnMoves(1, {}, 0, {}, 0, E)
        /\ \A e \in E : e.op # "sent"
    BY <1>3, <1>5 DEF OwnMoves, OwnSend, AsksOf
  <1> QED
    BY <1>1, <1>3, <1>5, <1>6, <1>7, <1>8, <1>9, TcpWake

LEMMA OpenedWake ==
    ASSUME IndInv, WakeInv, NEW t \in DOMAIN tr, Opened(t)
    PROVE  WakeInv'
  <1>1. /\ UNCHANGED <<service, transport, willRequest, flags>>
        /\ UNCHANGED <<willRequest, paused, started, closed>> /\ tq' = tq /\ cq' = cq
        /\ tr[t].conn \in started
    BY DEF Opened, flags
  <1>2. t \in 1..Len(tr) /\ tr[t] \in TransportContext
    BY Numbers DEF IndInv
  <1>3. PICK x, v : x = tr[t] /\ v = [tr[t] EXCEPT !.open = TRUE, !.ping = TRUE]
    OBVIOUS
  <1>4. /\ v \in TransportContext /\ v.conn = x.conn /\ v.open /\ v.want = x.want
        /\ v.ping /\ v.stopped = x.stopped /\ v.will = x.will /\ v.live = x.live
    BY <1>2, <1>3 DEF TransportContext
  <1>5. PICK y, E :
          /\ y \in TransportContext
          /\ tr' = [tr EXCEPT ![t] = y] /\ Moved(mq', mq, 0, E) /\ AsksOf(v, y, t, E)
    <2>1. RequestTransaction(t, v, <<>>)
      BY <1>3 DEF Opened
    <2>2. PICK p, F : p = <<>> /\ F = {} /\ Lists(p, F)
      BY ListsFew
    <2>3. RequestTransaction(t, v, p)
      BY <2>1, <2>2
    <2>4. PICK y, E :
            /\ y \in TransportContext
            /\ tr' = [tr EXCEPT ![t] = y] /\ Moved(mq', mq, 0, F \cup E) /\ AsksOf(v, y, t, E)
      BY <1>2, <1>4, <2>2, <2>3, AsksFor
    <2>5. F \cup E = E
      BY <2>2
    <2>6. Moved(mq', mq, 0, E)
      BY <2>4, <2>5
    <2> QED
      BY <2>4, <2>6
  <1>6. /\ Len(tr') = Len(tr) /\ tr'[t] = y
        /\ transport # NoTransport /\ transport # t => tr'[transport] = tr[transport]
    BY <1>2, <1>5, OneChanges
  <1>7. /\ Moved(tq', tq, 0, {}) /\ Moved(cq', cq, 0, {}) /\ StartsOnce(cq', started')
    BY <1>1, Still, SameStarts
  <1>8. ASSUME transport # NoTransport
        PROVE  TransportMoves(tr[transport], tr'[transport], transport, 0, {}, {}, E)
    <2>1. CASE transport # t
      <3>1. tr'[transport] = tr[transport]
        BY <1>6, <1>8, <2>1
      <3> QED
        BY <1>1, <1>5, <1>7, <1>8, <3>1, OthersMove
    <2>2. CASE transport = t
      <3>1. /\ CurrentOK(x, t, tq, mq, started, willRequest \/ paused) /\ Kept(0, {}, E, t)
            /\ x.live /\ (x.conn \in started => x.conn # NoConn)
        BY <1>3, <1>5, <1>7, <1>8, <2>2, CurrentIs, KeptBy
      <3>2. /\ y.conn = x.conn /\ y.open /\ y.will = x.will /\ y.stopped = x.stopped
            /\ x.conn # NoConn /\ In(E, Readies, t)
        BY <1>1, <1>3, <1>4, <1>5, <3>1 DEF AsksOf
      <3>3. SoonMoves(x, y, t, closed, closed', tq, 0, {}, mq, 0, E)
        BY <3>2 DEF SoonMoves
      <3>4. CurrentOK(y, t, tq', mq', started', willRequest' \/ paused')
        BY <1>1, <1>3, <3>1, <3>2 DEF CurrentOK, Kept
      <3>5. SendMoves(tq, 0, {}, x, y, t) /\ WriteMoves({}, x.conn, y.conn)
        BY <3>2 DEF SendMoves, WriteMoves
      <3> QED
        BY <1>3, <1>6, <2>2, <3>3, <3>4, <3>5 DEF TransportMoves
    <2> QED
      BY <2>1, <2>2
  <1>9. OwnMoves(0, {}, 0, {}, 0, E) /\ \A e \in E : e.op # "sent"
    BY <1>5 DEF OwnMoves, AsksOf
  <1> QED
    BY <1>1, <1>5, <1>6, <1>7, <1>8, <1>9, TcpWake

(* A send that fails: somebody will look. *)
LEMMA FailureNoticed ==
    ASSUME IndInv, WakeInv, UNCHANGED <<transport, willRequest, paused>>,
           tq # <<>>, Head(tq).op = "send", Head(tq).batch # {}, tr[Head(tq).t].conn = NoConn,
           Moved(tq', tq, 1, {}),
           transport # NoTransport =>
             /\ tr'[transport].conn = tr[transport].conn
             /\ tr'[transport].want = tr[transport].want
    PROVE  /\ Aware'
  <1>1. /\ Head(tq) = tq[1] /\ tq[1].t \in 1..Len(tr) /\ 1 \in 1..Len(tq)
    BY HeadTq, MovedTail DEF IndInv, Basics
  <1>2. CASE transport = NoTransport
    <2>1. paused
      BY <1>1, <1>2 DEF WakeInv, Resting
    <2> QED
      BY <2>1 DEF Aware, Rouse
  <1>3. CASE transport # NoTransport
    <2>1. PICK x, t : x = tr[transport] /\ t = transport
      OBVIOUS
    <2>2. CurrentOK(x, t, tq, mq, started, willRequest \/ paused) /\ OldSends(tq, x, t)
      BY <1>3, <2>1, CurrentIs DEF WakeInv, Sends
    <2>3. x.conn = NoConn
      <3>1. CASE tq[1].t = t
        BY <1>1, <2>1, <3>1
      <3>2. CASE tq[1].t # t
        BY <1>1, <2>2, <3>2 DEF OldSends
      <3> QED
        BY <3>1, <3>2
    <2>4. willRequest \/ paused \/ x.want \/ At(tq, Calls, t, 0)
      BY <2>2, <2>3 DEF CurrentOK
    <2>5. At(tq, Calls, t, 0) => At(tq', Calls, t, 0)
      <3>1. AtMoved(tq', tq, 1, {}, Calls, t) /\ tq[1].op \notin Calls
        BY <1>1, AtStep DEF Calls
      <3> QED
        BY <3>1 DEF AtMoved
    <2> QED
      BY <1>3, <2>1, <2>4, <2>5 DEF Aware, Rouse, Alert
  <1> QED
    BY <1>2, <1>3

LEMMA RunSendWake ==
    ASSUME IndInv, WakeInv, RunSend
    PROVE  WakeInv'
  <1>1. /\ tq # <<>> /\ Head(tq).op = "send" /\ tq' = Tail(tq)
        /\ UNCHANGED <<service, transport, willRequest, flags>>
        /\ UNCHANGED <<willRequest, paused, started, closed>>
        /\ UNCHANGED <<transport, willRequest, paused>>
    BY DEF RunSend, flags
  <1>2. PICK e, t, c, n, x, v :
          /\ e = Head(tq) /\ t = e.t /\ c = tr[t].conn /\ n = Len(e.payloads) /\ x = tr[t]
          /\ v = [tr[t] EXCEPT !.lock = FALSE, !.again = FALSE]
    OBVIOUS
  <1>3. PICK failed, written : /\ failed = [i \in 1..n |-> FailedSend(e, t, i)]
                               /\ written = [i \in 1..n |-> WriteOf(e, t, c, i)]
    OBVIOUS
  <1>4. PICK F, W : F = {failed[i] : i \in 1..n} /\ W = {written[i] : i \in 1..n}
    OBVIOUS
  <1>5. PICK answer : answer = IF c = NoConn THEN failed ELSE <<>>
    OBVIOUS
  <1>6. /\ cq' = IF c = NoConn THEN cq ELSE cq \o written
        /\ IF tr[t].again THEN RequestTransaction(t, v, answer)
           ELSE tr' = [tr EXCEPT ![t] = v] /\ mq' = mq \o answer
    BY <1>2, <1>3, <1>5 DEF RunSend, FailedSend, WriteOf
  <1>7. n \in Nat
    <2>1. e = Head(tq) /\ e.op = "send" /\ t = e.t /\ c = tr[t].conn /\ n = Len(e.payloads)
      BY <1>1, <1>2
    <2> QED
      BY <1>1, <2>1, SendBlocks
  <1>8. Lists(failed, F) /\ Lists(written, W)
    <2>1. failed = [i \in 1..n |-> failed[i]] /\ written = [i \in 1..n |-> written[i]]
      BY <1>3
    <2> QED
      BY <1>4, <1>7, <2>1, ListsAll
  <1>9. /\ t \in 1..Len(tr) /\ x \in TransportContext /\ Moved(tq', tq, 1, {})
        /\ tq[1] = e /\ e.op = "send"
    BY <1>1, <1>2, HeadTq
  <1>10. /\ v \in TransportContext /\ v.conn = x.conn /\ v.open = x.open /\ v.want = x.want
         /\ ~v.lock /\ ~v.again /\ v.stopped = x.stopped /\ v.will = x.will /\ v.live = x.live
    BY <1>2, <1>9 DEF TransportContext
  <1>11. PICK G, H :
           /\ Lists(answer, G) /\ Moved(cq', cq, 0, H)
           /\ \/ c = NoConn /\ G = F /\ H = {}
              \/ c # NoConn /\ G = {} /\ H = W
    <2>1. CASE c = NoConn
      BY <1>5, <1>6, <1>8, <2>1, Still
    <2>2. CASE c # NoConn
      <3>1. Moved(cq', cq, 0, {} \cup W)
        BY <1>6, <1>8, <2>2, Still, MovedConcat DEF Lists
      <3>2. {} \cup W = W
        OBVIOUS
      <3>3. Lists(answer, {})
        BY <1>5, <2>2, ListsFew
      <3> QED
        BY <2>2, <3>1, <3>2, <3>3
    <2> QED
      BY <2>1, <2>2
  <1>12. PICK y, E, M :
           /\ y \in TransportContext
           /\ tr' = [tr EXCEPT ![t] = y] /\ Moved(mq', mq, 0, M) /\ M = G \cup E
           /\ \A z \in E : z.op = "ready"
           /\ y.conn = x.conn /\ y.open = x.open /\ y.want = x.want /\ y.will = x.will
           /\ y.stopped = x.stopped
           /\ x.live => In(E, Readies, t) \/ (~x.again /\ ~y.lock)
    <2>1. CASE tr[t].again
      <3>1. RequestTransaction(t, v, answer)
        BY <1>6, <2>1
      <3>2. PICK y, E :
              /\ y \in TransportContext
              /\ tr' = [tr EXCEPT ![t] = y] /\ Moved(mq', mq, 0, G \cup E) /\ AsksOf(v, y, t, E)
        BY <1>9, <1>10, <1>11, <3>1, AsksFor
      <3>3. /\ \A z \in E : z.op = "ready"
            /\ y.conn = x.conn /\ y.open = x.open /\ y.want = x.want /\ y.will = x.will
            /\ y.stopped = x.stopped
            /\ x.live => In(E, Readies, t)
        BY <1>10, <3>2 DEF AsksOf
      <3> QED
        BY <3>2, <3>3
    <2>2. CASE ~tr[t].again
      <3>1. Moved(mq', mq, 0, {} \cup G) /\ tr' = [tr EXCEPT ![t] = v]
        <4>1. mq' = mq \o answer /\ Lists(answer, G) /\ Moved(mq, mq, 0, {})
              /\ tr' = [tr EXCEPT ![t] = v]
          BY <1>6, <1>11, <2>2, Still
        <4> QED
          BY <4>1, MovedConcat DEF Lists
      <3>2. PICK E : E = {}
        OBVIOUS
      <3>3. {} \cup G = G \cup E
        BY <3>2
      <3>4. Moved(mq', mq, 0, G \cup E)
        BY <3>1, <3>3
      <3>5. \A z \in E : z.op = "ready"
        BY <3>2
      <3> QED
        BY <1>2, <1>10, <2>2, <3>1, <3>4, <3>5
    <2> QED
      BY <2>1, <2>2
  <1>13. /\ \A f \in F : \E i \in 1..n : f = FailedSend(e, t, i)
         /\ \A w \in W : \E i \in 1..n : w = WriteOf(e, t, c, i)
         /\ \A i \in 1..n : FailedSend(e, t, i) \in F /\ WriteOf(e, t, c, i) \in W
    BY <1>3, <1>4
  <1>14. /\ \A f \in F : f.op = "sent" /\ f.batch = e.batch
         /\ \A w \in W : w.op = "write" /\ w.c = c /\ w.batch = e.batch
    BY <1>13 DEF FailedSend, WriteOf
  <1>15. /\ Len(tr') = Len(tr) /\ tr'[t] = y
         /\ transport # NoTransport /\ transport # t => tr'[transport] = tr[transport]
    BY <1>9, <1>12, OneChanges
  <1>16. StartsOnce(cq', started')
    <2>1. StartsOnce(cq, started) /\ Made(cq, 0, H, started, started')
      BY <1>1, <1>11, <1>14 DEF WakeInv, Made
    <2> QED
      BY <1>11, <2>1, StartsStep
  <1>17. ASSUME transport # NoTransport
         PROVE  TransportMoves(tr[transport], tr'[transport], transport, 1, {}, H, M)
    <2>1. CASE transport # t
      <3>1. tr'[transport] = tr[transport] /\ tq[1].t # transport
        BY <1>2, <1>9, <1>15, <1>17, <2>1
      <3>2. e.batch # {} => tr[transport].conn = NoConn
        <4>1. OldSends(tq, tr[transport], transport) /\ 1 \in 1..Len(tq)
          BY <1>1, <1>17, MovedTail DEF WakeInv, Sends, IndInv, Basics
        <4> QED
          BY <1>9, <3>1, <4>1 DEF OldSends
      <3>3. \A w \in H : w.op = "write" /\ w.batch # {} => tr[transport].conn = NoConn
        BY <1>11, <1>14, <3>2
      <3> QED
        BY <1>1, <1>9, <1>12, <1>17, <3>1, <3>3, OthersMove
    <2>2. CASE transport = t
      <3>1. /\ CurrentOK(x, t, tq, mq, started, willRequest \/ paused) /\ Kept(1, {}, M, t)
            /\ x.live
        BY <1>2, <1>9, <1>12, <1>17, <2>2, CurrentIs, KeptBy
      <3>2. tq[1].op \notin Calls /\ tq[1].op \notin Passes
        BY <1>9 DEF Calls, Passes
      <3>3. In(M, Readies, t) \/ (~x.again /\ ~y.lock)
        BY <1>12, <3>1 DEF In
      <3>4. SoonMoves(x, y, t, closed, closed', tq, 1, {}, mq, 0, M)
        BY <1>1, <1>12, <3>2, <3>3 DEF SoonMoves, Alert
      <3>5. CurrentOK(y, t, tq', mq', started', willRequest' \/ paused')
        BY <1>1, <1>12, <3>1, <3>2, <3>3 DEF CurrentOK, Kept
      <3>6. SendMoves(tq, 1, {}, x, y, t) /\ WriteMoves(H, x.conn, y.conn)
        BY <1>2, <1>11, <1>12, <1>14 DEF SendMoves, WriteMoves
      <3> QED
        BY <1>2, <1>15, <2>2, <3>4, <3>5, <3>6 DEF TransportMoves
    <2> QED
      BY <2>1, <2>2
  <1>18. OwnMoves(1, {}, 0, H, 0, M)
    <2>1. ASSUME NEW r, OwnSend(tq[1], r)
          PROVE  (\E w \in H : OwnWrite(w, r)) \/ \E f \in M : OwnSent(f, r)
      <3>1. r \in e.batch /\ \E j \in 1..n : Names(e.payloads[j].msgs, r)
        BY <1>2, <1>9, <2>1 DEF OwnSend
      <3>2. PICK j \in 1..n : Names(e.payloads[j].msgs, r)
        BY <3>1
      <3>3. OwnSent(FailedSend(e, t, j), r) /\ OwnWrite(WriteOf(e, t, c, j), r)
        BY <3>1, <3>2 DEF OwnSent, OwnWrite, FailedSend, WriteOf
      <3>4. FailedSend(e, t, j) \in F /\ WriteOf(e, t, c, j) \in W
        BY <1>13
      <3>5. CASE c = NoConn
        BY <1>11, <1>12, <3>3, <3>4, <3>5
      <3>6. CASE c # NoConn
        BY <1>11, <3>3, <3>4, <3>6
      <3> QED
        BY <3>5, <3>6
    <2> QED
      BY <2>1 DEF OwnMoves
  <1>19. ASSUME NEW f \in M, f.op = "sent", f.batch # {}
         PROVE  Aware'
    <2>1. c = NoConn /\ e.batch # {}
      BY <1>11, <1>12, <1>14, <1>19
    <2>2. transport # NoTransport => /\ tr'[transport].conn = tr[transport].conn
                                     /\ tr'[transport].want = tr[transport].want
      <3>1. CASE transport = t
        BY <1>2, <1>12, <1>15, <3>1
      <3>2. CASE transport # t
        BY <1>15, <3>2
      <3> QED
        BY <3>1, <3>2
    <2>3. Head(tq).batch # {} /\ tr[Head(tq).t].conn = NoConn
      BY <1>2, <2>1
    <2> QED
      BY <1>1, <1>9, <2>2, <2>3, FailureNoticed
  <1>20. \A f \in M : f.op = "sent" /\ ~f.ok /\ f.batch # {} => Aware'
    BY <1>19
  <1>21. Moved(tq', tq, 1, {}) /\ Moved(cq', cq, 0, H) /\ Moved(mq', mq, 0, M)
         /\ UNCHANGED <<service, transport, willRequest, flags>>
    BY <1>1, <1>9, <1>11, <1>12
  <1> QED
    BY <1>15, <1>16, <1>17, <1>18, <1>20, <1>21, TcpWake

LEMMA RunClosedWake ==
    ASSUME IndInv, WakeInv, RunClosed
    PROVE  WakeInv'
  <1>1. /\ tq # <<>> /\ Head(tq).op = "closed" /\ tq' = Tail(tq)
        /\ UNCHANGED <<service, transport, willRequest, flags>>
        /\ UNCHANGED <<willRequest, paused, started, closed>> /\ cq' = cq
    BY DEF RunClosed, flags
  <1>2. PICK t, c, x, y :
          /\ t = Head(tq).t /\ c = Head(tq).c /\ x = tr[t]
          /\ y = [tr[t] EXCEPT !.conn = NoConn, !.open = FALSE, !.want = TRUE, !.ping = TRUE]
    OBVIOUS
  <1>3. /\ t \in 1..Len(tr) /\ x \in TransportContext
        /\ tq[1].op = "closed" /\ Moved(tq', tq, 1, {}) /\ c \in closed
    <2>1. /\ t \in 1..Len(tr) /\ x \in TransportContext
          /\ Head(tq) = tq[1] /\ Moved(tq', tq, 1, {})
          /\ TqBlock(Head(tq), Len(tr), transport, closed, nextMsg, born, late)
      BY <1>1, <1>2, HeadTq
    <2> QED
      BY <1>1, <1>2, <2>1 DEF TqBlock
  <1>4. /\ y \in TransportContext /\ y.conn = NoConn /\ ~y.open /\ y.want /\ y.will = x.will
        /\ y.lock = x.lock /\ y.again = x.again /\ y.stopped = x.stopped
    BY <1>2, <1>3 DEF TransportContext, NoConn
  <1>5. PICK M : Moved(mq', mq, 0, M) /\ \A e \in M : e.op = "failed"
    <2>1. mq' = mq \/ mq' = Append(mq, FailedBlock(c))
      BY <1>2 DEF RunClosed, FailedBlock
    <2>2. Moved(mq, mq, 0, {}) /\ \A e \in {} : e.op = "failed"
      BY Still
    <2>3. /\ Moved(Append(mq, FailedBlock(c)), mq, 0, {} \cup {FailedBlock(c)})
          /\ \A e \in {} \cup {FailedBlock(c)} : e.op = "failed"
      BY <2>2, MovedAppend DEF FailedBlock
    <2>4. CASE mq' = mq
      BY <2>2, <2>4
    <2>5. CASE mq' = Append(mq, FailedBlock(c))
      BY <2>3, <2>5
    <2> QED
      BY <2>1, <2>4, <2>5
  <1>6. \/ tr' = tr
        \/ x.conn = c /\ tr' = [tr EXCEPT ![t] = y]
    BY <1>2 DEF RunClosed
  <1>7. /\ Moved(cq', cq, 0, {}) /\ StartsOnce(cq', started') /\ OwnMoves(1, {}, 0, {}, 0, M)
    BY <1>1, <1>3, Still, SameStarts DEF OwnMoves, OwnSend
  <1>8. CASE tr' = tr
    <2>1. transport # NoTransport =>
            TransportMoves(tr[transport], tr'[transport], transport, 1, {}, {}, M)
      BY <1>1, <1>3, <1>5, <1>8, OthersMove
    <2> QED
      BY <1>1, <1>3, <1>5, <1>7, <1>8, <2>1, TcpWake
  <1>9. CASE x.conn = c /\ tr' = [tr EXCEPT ![t] = y]
    <2>1. /\ Len(tr') = Len(tr) /\ tr'[t] = y
          /\ transport # NoTransport /\ transport # t => tr'[transport] = tr[transport]
      BY <1>3, <1>4, <1>9, OneChanges
    <2>2. ASSUME transport # NoTransport
          PROVE  TransportMoves(tr[transport], tr'[transport], transport, 1, {}, {}, M)
      <3>1. CASE transport # t
        <4>1. tr'[transport] = tr[transport]
          BY <2>1, <2>2, <3>1
        <4> QED
          BY <1>1, <1>3, <1>5, <2>2, <4>1, OthersMove
      <3>2. CASE transport = t
        <4>1. /\ CurrentOK(x, t, tq, mq, started, willRequest \/ paused) /\ Kept(1, {}, M, t)
              /\ x.conn # NoConn
          BY <1>2, <1>3, <1>5, <1>9, <2>2, <3>2, CurrentIs, KeptBy
        <4>2. tq[1].op \notin Calls /\ tq[1].op \notin Passes /\ tq[1].op \notin Sendings
          BY <1>3 DEF Calls, Passes, Sendings
        <4>3. SoonMoves(x, y, t, closed, closed', tq, 1, {}, mq, 0, M)
          BY <1>4, <4>2 DEF SoonMoves, Alert
        <4>4. CurrentOK(y, t, tq', mq', started', willRequest' \/ paused')
          BY <1>4, <4>1, <4>2 DEF CurrentOK, Kept
        <4>5. SendMoves(tq, 1, {}, x, y, t) /\ WriteMoves({}, x.conn, y.conn)
          BY <1>4, <4>1 DEF SendMoves, WriteMoves
        <4> QED
          BY <1>2, <2>1, <3>2, <4>3, <4>4, <4>5 DEF TransportMoves
      <3> QED
        BY <3>1, <3>2
    <2> QED
      BY <1>1, <1>3, <1>5, <1>7, <2>1, <2>2, TcpWake
  <1> QED
    BY <1>6, <1>8, <1>9

-----------------------------------------------------------------------------
(*               Steps the current transport does not notice               *)

LEMMA UnnoticedWake ==
    ASSUME IndInv, WakeInv, UNCHANGED <<service, transport, willRequest, flags>>,
           Len(tr') = Len(tr), transport # NoTransport => tr'[transport] = tr[transport],
           closed \subseteq closed', started \subseteq started',
           NEW kt \in {0, 1}, NEW Et, Moved(tq', tq, kt, Et),
           kt = 1 => tq[1].op \notin {"needs", "pass", "send"}, \A e \in Et : e.op # "send",
           NEW kc \in {0, 1}, NEW Ec, Moved(cq', cq, kc, Ec), NoWrites(kc, Ec),
           NEW Em, Moved(mq', mq, 0, Em),
           \A r : kc = 1 /\ OwnWrite(cq[1], r) => \E e \in Em : OwnSent(e, r),
           \A e \in Em : e.op = "sent" /\ ~e.ok /\ e.batch # {} => Aware'
    PROVE  WakeInv'
  <1>1. /\ requests' = requests /\ ctx' = ctx /\ err' = err /\ password' = password
        /\ paused' = paused /\ timeFix' = timeFix
    BY DEF service, flags
  <1>2. Unnoticed(kt, Et, 0)
    BY <1>1 DEF Unnoticed
  <1>3. WaitMoves(Et, 0) /\ SleepMoves(Et, 0)
    BY <1>1 DEF WaitMoves, SleepMoves, Sendable, Queued, ReadyTaken
  <1> QED
    BY <1>2, <1>3, QuietWake


LEMMA RunActiveWake ==
    ASSUME IndInv, WakeInv, RunActive
    PROVE  WakeInv'
  <1>1. /\ tq # <<>> /\ Head(tq).op = "active" /\ tq' = Tail(tq)
        /\ UNCHANGED <<service, transport, willRequest, flags>>
        /\ tr' = tr /\ cq' = cq /\ started' = started /\ closed' = closed
    BY DEF RunActive
  <1>2. tq[1].op = "active" /\ Moved(tq', tq, 1, {})
    BY <1>1, HeadTq
  <1>3. PICK c : c = tr[Head(tq).t].conn
    OBVIOUS
  <1>4. PICK M : Moved(mq', mq, 0, M) /\ \A e \in M : e.op # "sent"
    <2>1. CASE mq' = mq
      BY <2>1, Still
    <2>2. CASE mq' = Append(mq, FailedBlock(c))
      <3>1. Moved(mq', mq, 0, {} \cup {FailedBlock(c)})
        BY <2>2, Still, MovedAppend
      <3> QED
        BY <3>1 DEF FailedBlock
    <2> QED
      BY <1>3, <2>1, <2>2 DEF RunActive, FailedBlock
  <1>5. Moved(cq', cq, 0, {}) /\ NoWrites(0, {})
    BY <1>1, Still DEF NoWrites, Made
  <1> QED
    BY <1>1, <1>2, <1>4, <1>5, UnnoticedWake

(* A connection of t is closed, by its transport's wish. *)
LEMMA Closing ==
    ASSUME IndInv, NEW c, NEW t, started' = started,
           cq' = IF c = NoConn THEN cq ELSE Append(cq, [op |-> "close", c |-> c, t |-> t])
    PROVE  \E E : Moved(cq', cq, 0, E) /\ NoWrites(0, E)
  <1>1. CASE c = NoConn
    <2>1. Moved(cq', cq, 0, {}) /\ NoWrites(0, {})
      BY <1>1, Still DEF NoWrites, Made
    <2> QED
      BY <2>1
  <1>2. CASE c # NoConn
    <2>1. PICK e : e = [op |-> "close", c |-> c, t |-> t]
      OBVIOUS
    <2>2. Moved(cq', cq, 0, {} \cup {e})
      BY <1>2, <2>1, Still, MovedAppend
    <2>3. NoWrites(0, {} \cup {e})
      BY <2>1 DEF NoWrites, Made
    <2> QED
      BY <2>2, <2>3
  <1> QED
    BY <1>1, <1>2

LEMMA RunResetWake ==
    ASSUME IndInv, WakeInv, RunReset
    PROVE  WakeInv'
  <1>1. /\ tq # <<>> /\ Head(tq).op = "reset" /\ tq' = Tail(tq)
        /\ UNCHANGED <<service, transport, willRequest, flags>>
        /\ tr' = tr /\ mq' = mq /\ started' = started /\ closed' = closed
    BY DEF RunReset, proto
  <1>2. tq[1].op = "reset" /\ Moved(tq', tq, 1, {}) /\ Moved(mq', mq, 0, {})
    BY <1>1, HeadTq, Still
  <1>3. PICK t, c : t = Head(tq).t /\ c = tr[t].conn
    OBVIOUS
  <1>4. PICK C : Moved(cq', cq, 0, C) /\ NoWrites(0, C)
    <2>1. cq' = IF c = NoConn THEN cq ELSE Append(cq, [op |-> "close", c |-> c, t |-> t])
      BY <1>3 DEF RunReset
    <2> QED
      BY <1>1, <2>1, Closing
  <1> QED
    BY <1>1, <1>2, <1>4, UnnoticedWake

LEMMA RunStopWake ==
    ASSUME IndInv, WakeInv, RunStop
    PROVE  WakeInv'
  <1>1. /\ tq # <<>> /\ Head(tq).op = "stop" /\ tq' = Tail(tq)
        /\ UNCHANGED <<service, transport, willRequest, flags>>
        /\ started' = started /\ closed' = closed
    BY DEF RunStop
  <1>2. PICK t, c, y :
          /\ t = Head(tq).t /\ c = tr[t].conn
          /\ y = [tr[t] EXCEPT !.conn = NoConn, !.open = FALSE, !.want = FALSE, !.stopped = TRUE]
    OBVIOUS
  <1>3. /\ t \in 1..Len(tr) /\ tr[t] \in TransportContext
        /\ tq[1].op = "stop" /\ Moved(tq', tq, 1, {}) /\ t # transport
    <2>1. /\ t \in 1..Len(tr) /\ tr[t] \in TransportContext
          /\ Head(tq) = tq[1] /\ Moved(tq', tq, 1, {})
          /\ TqBlock(Head(tq), Len(tr), transport, closed, nextMsg, born, late)
      BY <1>1, <1>2, HeadTq
    <2> QED
      BY <1>1, <1>2, <2>1 DEF TqBlock
  <1>4. y \in TransportContext /\ tr' = [tr EXCEPT ![t] = y]
    <2>1. y \in TransportContext
      BY <1>2, <1>3 DEF TransportContext, NoConn
    <2> QED
      BY <1>2, <2>1 DEF RunStop
  <1>5. /\ Len(tr') = Len(tr) /\ (transport # NoTransport => tr'[transport] = tr[transport])
    BY <1>3, <1>4, OneChanges
  <1>6. PICK C : Moved(cq', cq, 0, C) /\ NoWrites(0, C)
    <2>1. cq' = IF c = NoConn THEN cq ELSE Append(cq, [op |-> "close", c |-> c, t |-> t])
      BY <1>2 DEF RunStop
    <2> QED
      BY <1>1, <2>1, Closing
  <1>7. PICK M : Moved(mq', mq, 0, M) /\ \A e \in M : e.op # "sent"
    <2>1. CASE mq' = mq
      BY <2>1, Still
    <2>2. CASE mq' = Append(mq, FailedBlock(c))
      <3>1. Moved(mq', mq, 0, {} \cup {FailedBlock(c)})
        BY <2>2, Still, MovedAppend
      <3> QED
        BY <3>1 DEF FailedBlock
    <2> QED
      BY <1>2, <2>1, <2>2 DEF RunStop, FailedBlock
  <1> QED
    BY <1>1, <1>3, <1>5, <1>6, <1>7, UnnoticedWake

LEMMA RunStartWake ==
    ASSUME IndInv, WakeInv, RunStart
    PROVE  WakeInv'
  <1>1. /\ cq # <<>> /\ Head(cq).op = "start" /\ cq' = Tail(cq)
        /\ started' = started \cup {Head(cq).c}
        /\ UNCHANGED <<service, transport, willRequest, flags>>
        /\ tr' = tr /\ tq' = tq /\ mq' = mq /\ closed' = closed
    BY DEF RunStart, proto
  <1>2. Head(cq) = cq[1] /\ Moved(cq', cq, 1, {})
    BY <1>1, HeadCq
  <1>3. NoWrites(1, {}) /\ \A r : ~OwnWrite(cq[1], r)
    BY <1>1, <1>2 DEF NoWrites, Made, OwnWrite
  <1>4. Moved(tq', tq, 0, {}) /\ Moved(mq', mq, 0, {})
    BY <1>1, Still
  <1> QED
    BY <1>1, <1>2, <1>3, <1>4, UnnoticedWake

(* closeAndNotify. *)
LEMMA CloseWake ==
    ASSUME IndInv, WakeInv, NEW t, NEW c, CloseAndNotify(t, c),
           UNCHANGED <<service, transport, willRequest, flags>>, UNCHANGED <<tr, mq, started>>,
           NEW kc \in {0, 1}, Moved(cq', cq, kc, {}), kc = 1 => cq[1].op = "close"
    PROVE  WakeInv'
  <1>1. PICK E : Moved(tq', tq, 0, E) /\ \A e \in E : e.op # "send"
    <2>1. CASE tq' = tq
      BY <2>1, Still
    <2>2. CASE tq' = Append(tq, [op |-> "closed", t |-> t, c |-> c])
      <3>1. Moved(tq', tq, 0, {} \cup {[op |-> "closed", t |-> t, c |-> c]})
        BY <2>2, Still, MovedAppend
      <3> QED
        BY <3>1
    <2> QED
      BY <2>1, <2>2 DEF CloseAndNotify
  <1>2. closed \subseteq closed'
    BY DEF CloseAndNotify
  <1>3. NoWrites(kc, {}) /\ (kc = 1 => \A r : ~OwnWrite(cq[1], r))
    BY DEF NoWrites, Made, OwnWrite
  <1>4. Moved(mq', mq, 0, {})
    BY Still
  <1> QED
    BY <1>1, <1>2, <1>3, <1>4, UnnoticedWake

LEMMA RunCloseWake ==
    ASSUME IndInv, WakeInv, RunClose
    PROVE  WakeInv'
  <1>1. /\ cq # <<>> /\ Head(cq).op = "close" /\ cq' = Tail(cq)
        /\ CloseAndNotify(Head(cq).t, Head(cq).c)
        /\ UNCHANGED <<service, transport, willRequest, flags>> /\ UNCHANGED <<tr, mq, started>>
    BY DEF RunClose, proto
  <1>2. cq[1].op = "close" /\ Moved(cq', cq, 1, {})
    BY <1>1, HeadCq
  <1>3. PICK t, c : t = Head(cq).t /\ c = Head(cq).c
    OBVIOUS
  <1>4. CloseAndNotify(t, c)
    BY <1>1, <1>3
  <1> QED
    BY <1>1, <1>2, <1>4, CloseWake

LEMMA ConnectionFailsWake ==
    ASSUME IndInv, WakeInv, NEW t \in DOMAIN tr, ConnectionFails(t)
    PROVE  WakeInv'
  <1>1. PICK c : c = tr[t].conn
    OBVIOUS
  <1>2. /\ CloseAndNotify(t, c) /\ cq' = cq
        /\ UNCHANGED <<service, transport, willRequest, flags>> /\ UNCHANGED <<tr, mq, started>>
    BY <1>1 DEF ConnectionFails, proto
  <1>3. Moved(cq', cq, 0, {})
    BY <1>2, Still
  <1> QED
    BY <1>2, <1>3, CloseWake

LEMMA ServerRestartsWake ==
    ASSUME IndInv, WakeInv, NEW t \in DOMAIN tr, ServerRestarts(t)
    PROVE  WakeInv'
  <1>1. PICK c : c = tr[t].conn
    OBVIOUS
  <1>2. /\ CloseAndNotify(t, c) /\ cq' = cq
        /\ UNCHANGED <<service, transport, willRequest, flags>> /\ UNCHANGED <<tr, mq, started>>
    BY <1>1 DEF ServerRestarts, proto
  <1>3. Moved(cq', cq, 0, {})
    BY <1>2, Still
  <1> QED
    BY <1>2, <1>3, CloseWake

(* The network and the server, and what they send. *)
LEMMA WorldWake ==
    ASSUME IndInv, WakeInv, UNCHANGED <<service, transport, willRequest, flags>>,
           UNCHANGED <<tr, tq, cq, started, closed>>,
           NEW E, Moved(mq', mq, 0, E), \A e \in E : e.op # "sent"
    PROVE  WakeInv'
  <1>1. Moved(tq', tq, 0, {}) /\ Moved(cq', cq, 0, {}) /\ NoWrites(0, {})
    BY Still DEF NoWrites, Made
  <1> QED
    BY <1>1, UnnoticedWake

LEMMA SilentWake ==
    ASSUME IndInv, WakeInv, UNCHANGED <<service, proto, tcp>>
    PROVE  WakeInv'
  <1>1. /\ UNCHANGED <<service, transport, willRequest, flags>>
        /\ UNCHANGED <<tr, tq, cq, started, closed>> /\ Moved(mq', mq, 0, {})
    BY Still DEF proto, tcp
  <1> QED
    BY <1>1, WorldWake

LEMMA ServerPushWake ==
    ASSUME IndInv, WakeInv, ServerPush
    PROVE  WakeInv'
  <1>1. /\ UNCHANGED <<service, transport, willRequest, flags>>
        /\ UNCHANGED <<tr, tq, cq, started, closed>>
    BY DEF ServerPush, tcp
  <1>2. PICK t, x : mq' = Append(mq, [op |-> "data", t |-> t, x |-> x])
    BY DEF ServerPush
  <1>3. PICK d : d = [op |-> "data", t |-> t, x |-> x]
    OBVIOUS
  <1>4. Moved(mq', mq, 0, {} \cup {d})
    BY <1>2, <1>3, Still, MovedAppend
  <1>5. \A e \in {} \cup {d} : e.op # "sent"
    BY <1>3
  <1> QED
    BY <1>1, <1>4, <1>5, WorldWake

(* A write that fails: the connection it was for is noticed, or a newer    *)
(* one has not begun.                                                      *)
LEMMA WriteNoticed ==
    ASSUME IndInv, WakeInv, UNCHANGED <<transport, willRequest, paused>>,
           UNCHANGED <<tr, tq, closed>>,
           cq # <<>>, Head(cq).op = "write", Head(cq).batch # {}, Head(cq).c \in closed
    PROVE  Aware'
  <1>1. /\ Head(cq) = cq[1] /\ cq[1].t \in 1..Len(tr) /\ 1 \in 1..Len(cq)
    BY HeadCq, MovedTail DEF IndInv, Basics
  <1>2. CASE transport = NoTransport
    <2>1. paused
      BY <1>1, <1>2 DEF WakeInv, Resting
    <2> QED
      BY <2>1 DEF Aware, Rouse
  <1>3. CASE transport # NoTransport
    <2>1. PICK x, t, c : x = tr[transport] /\ t = transport /\ c = tr[transport].conn
      OBVIOUS
    <2>2. /\ CurrentOK(x, t, tq, mq, started, willRequest \/ paused) /\ OldWrites(cq, c)
          /\ StartsOnce(cq, started)
      BY <1>3, <2>1, CurrentIs DEF WakeInv, Writes
    <2>3. c \in {NoConn, cq[1].c} \/ StartAfter(cq, c, 1)
      BY <1>1, <2>2 DEF OldWrites
    <2>4. CASE c = NoConn
      <3>1. willRequest \/ paused \/ x.want \/ At(tq, Calls, t, 0)
        BY <2>1, <2>2, <2>4 DEF CurrentOK
      <3> QED
        BY <1>3, <2>1, <3>1 DEF Aware, Rouse, Alert
    <2>5. CASE c = cq[1].c
      BY <1>1, <1>3, <2>1, <2>5 DEF Aware, Alert
    <2>6. CASE c # NoConn /\ StartAfter(cq, c, 1)
      <3>1. c \notin started
        BY <2>2, <2>6 DEF StartAfter, StartsOnce
      <3>2. ~x.open
        BY <2>1, <2>2, <3>1 DEF CurrentOK
      <3> QED
        BY <1>3, <2>1, <2>6, <3>2 DEF Aware, Alert
    <2> QED
      BY <2>3, <2>4, <2>5, <2>6
  <1> QED
    BY <1>2, <1>3

LEMMA RunWriteWake ==
    ASSUME IndInv, WakeInv, RunWrite
    PROVE  WakeInv'
  <1>1. /\ cq # <<>> /\ Head(cq).op = "write" /\ cq' = Tail(cq)
        /\ UNCHANGED <<service, transport, willRequest, flags>>
        /\ UNCHANGED <<transport, willRequest, paused>>
        /\ UNCHANGED <<tr, tq, closed>> /\ started' = started
    BY DEF RunWrite, flags
  <1>2. PICK e : e = Head(cq)
    OBVIOUS
  <1>3. e = cq[1] /\ Moved(cq', cq, 1, {}) /\ e.op = "write"
    BY <1>1, <1>2, HeadCq
  <1>4. PICK ok : ok = (e.c \notin closed) /\ ok \in BOOLEAN
    BY Zenon
  <1>5. PICK d : d = [op |-> "sent", ok |-> ok, t |-> e.t, c |-> IF ok THEN e.c ELSE NoConn,
                      msgs |-> e.p.msgs, batch |-> e.batch]
    OBVIOUS
  <1>6. mq' = Append(mq, d)
    <2>1. mq' = Append(mq, [op |-> "sent", ok |-> e.c \notin closed, t |-> e.t,
                            c |-> IF e.c \notin closed THEN e.c ELSE NoConn,
                            msgs |-> e.p.msgs, batch |-> e.batch])
      BY <1>2 DEF RunWrite
    <2> QED
      BY <1>4, <1>5, <2>1
  <1>7. Moved(mq', mq, 0, {} \cup {d})
    BY <1>6, Still, MovedAppend
  <1>8. d.op = "sent" /\ d.ok = ok /\ d.batch = e.batch /\ d.msgs = e.p.msgs
    BY <1>5
  <1>9. \A r : OwnWrite(cq[1], r) => \E z \in {} \cup {d} : OwnSent(z, r)
    BY <1>3, <1>8 DEF OwnWrite, OwnSent
  <1>10. \A z \in {} \cup {d} : z.op = "sent" /\ ~z.ok /\ z.batch # {} => Aware'
    <2>1. ASSUME ~ok, e.batch # {}
          PROVE  Aware'
      <3>1. e.c \in closed
        BY <1>4, <2>1
      <3>2. Head(cq).batch # {} /\ Head(cq).c \in closed
        BY <1>2, <2>1, <3>1
      <3> QED
        BY <1>1, <3>2, WriteNoticed
    <2> QED
      BY <1>8, <2>1
  <1>11. NoWrites(1, {}) /\ Moved(tq', tq, 0, {})
    BY <1>1, Still DEF NoWrites, Made
  <1> QED
    BY <1>1, <1>3, <1>7, <1>9, <1>10, <1>11, UnnoticedWake

(* A new connection is started once. *)
LEMMA StartsNew ==
    ASSUME IndInv, WakeInv, NEW e, e.c = Len(net) + 1, cq' = Append(cq, e), started' = started
    PROVE  StartsOnce(cq', started')
  <1>1. PICK n, m, q : n = Len(cq) /\ m = Len(net) /\ q = cq'
    OBVIOUS
  <1>2. n \in Nat /\ m \in Nat
    BY <1>1, Numbers DEF IndInv
  <1>3. Len(q) = n + 1 /\ q[n + 1] = e /\ \A i \in 1..n : q[i] = cq[i]
    <2>1. PICK S : cq \in Seq(S)
      BY DEF IndInv, Basics, IsQueue
    <2>2. cq \in Seq(S \cup {e}) /\ e \in S \cup {e}
      BY <2>1
    <2> QED
      BY <1>1, <2>2, AppendProperties
  <1>4. \A i \in 1..n : cq[i].c \in 1..m
    BY <1>1 DEF IndInv, CqOK, CqBlock
  <1>5. started \subseteq 1..m
    BY <1>1 DEF IndInv, ConnsOK
  <1>6. \A i \in 1..n : cq[i].op = "start" =>
          /\ cq[i].c \notin started
          /\ \A j \in 1..n : cq[j].op = "start" /\ cq[j].c = cq[i].c => i = j
    BY <1>1 DEF WakeInv, StartsOnce
  <1>7. \A i \in 1..(n + 1) : i \in 1..n \/ i = n + 1
    BY <1>2
  <1>8. e.c \notin 1..m
    BY <1>1, <1>2
  <1>9. ASSUME NEW i \in 1..(n + 1), q[i].op = "start"
        PROVE  /\ q[i].c \notin started
               /\ \A j \in 1..(n + 1) : q[j].op = "start" /\ q[j].c = q[i].c => i = j
    <2>1. CASE i = n + 1
      BY <1>3, <1>4, <1>5, <1>7, <1>8, <2>1
    <2>2. CASE i \in 1..n
      BY <1>3, <1>4, <1>6, <1>7, <1>8, <1>9, <2>2
    <2> QED
      BY <1>7, <2>1, <2>2
  <1> QED
    BY <1>1, <1>3, <1>9 DEF StartsOnce

LEMMA ConnectWake ==
    ASSUME IndInv, WakeInv, NEW t \in DOMAIN tr, Connect(t)
    PROVE  WakeInv'
  <1>1. /\ tr[t].want /\ tr[t].conn = NoConn
        /\ UNCHANGED <<service, transport, willRequest, flags>>
        /\ UNCHANGED <<willRequest, paused, started, closed>> /\ tq' = tq /\ mq' = mq
    BY DEF Connect, proto, flags
  <1>2. PICK c, x, y : /\ c = Len(net) + 1 /\ x = tr[t]
                       /\ y = [tr[t] EXCEPT !.conn = c, !.open = FALSE, !.want = FALSE]
    OBVIOUS
  <1>3. PICK e : e = [op |-> "start", c |-> c, t |-> t]
    OBVIOUS
  <1>4. tr' = [tr EXCEPT ![t] = y] /\ cq' = Append(cq, e)
    BY <1>2, <1>3 DEF Connect
  <1>5. /\ c \in Nat \ {0} /\ t \in 1..Len(tr) /\ x \in TransportContext
    BY <1>2, Numbers DEF IndInv
  <1>6. /\ y \in TransportContext /\ y.conn = c /\ ~y.open /\ ~y.want /\ y.will = x.will
        /\ y.lock = x.lock /\ y.again = x.again /\ y.stopped = x.stopped
    <2> HIDE <1>1
    <2> QED
      BY <1>2, <1>5 DEF TransportContext
  <1>7. /\ Len(tr') = Len(tr) /\ tr'[t] = y
        /\ transport # NoTransport /\ transport # t => tr'[transport] = tr[transport]
    BY <1>4, <1>5, <1>6, OneChanges
  <1>8. PICK C : /\ Moved(cq', cq, 0, C) /\ StartIn(C, c) /\ \A z \in C : z.op = "start"
    <2>1. Moved(cq', cq, 0, {} \cup {e})
      BY <1>4, Still, MovedAppend
    <2>2. StartIn({} \cup {e}, c) /\ \A z \in {} \cup {e} : z.op = "start"
      BY <1>3 DEF StartIn
    <2> QED
      BY <2>1, <2>2
  <1>9. StartsOnce(cq', started')
    <2>1. e.c = Len(net) + 1
      BY <1>2, <1>3
    <2> QED
      BY <1>1, <1>4, <2>1, StartsNew
  <1>10. Moved(tq', tq, 0, {}) /\ Moved(mq', mq, 0, {}) /\ OwnMoves(0, {}, 0, C, 0, {})
    BY <1>1, Still DEF OwnMoves
  <1>11. ASSUME transport # NoTransport
         PROVE  TransportMoves(tr[transport], tr'[transport], transport, 0, {}, C, {})
    <2>1. CASE transport # t
      <3>1. tr'[transport] = tr[transport]
        BY <1>7, <1>11, <2>1
      <3> QED
        BY <1>1, <1>8, <1>10, <1>11, <3>1, OthersMove
    <2>2. CASE transport = t
      <3>1. /\ CurrentOK(x, t, tq, mq, started, willRequest \/ paused) /\ Kept(0, {}, {}, t)
        BY <1>2, <1>10, <1>11, <2>2, CurrentIs, KeptBy
      <3>2. Alert(y, closed')
        BY <1>5, <1>6 DEF Alert, NoConn
      <3>3. SoonMoves(x, y, t, closed, closed', tq, 0, {}, mq, 0, {})
        BY <1>6, <3>2 DEF SoonMoves
      <3>4. CurrentOK(y, t, tq', mq', started', willRequest' \/ paused')
        BY <1>5, <1>6, <3>1 DEF CurrentOK, Kept, NoConn
      <3>5. SendMoves(tq, 0, {}, x, y, t) /\ WriteMoves(C, x.conn, y.conn)
        BY <1>1, <1>2, <1>6, <1>8 DEF SendMoves, WriteMoves
      <3> QED
        BY <1>2, <1>7, <2>2, <3>3, <3>4, <3>5 DEF TransportMoves
    <2> QED
      BY <2>1, <2>2
  <1> QED
    BY <1>1, <1>7, <1>8, <1>9, <1>10, <1>11, TcpWake

-----------------------------------------------------------------------------
(*                          Nobody is left asleep                          *)

LEMMA PlainKept ==
    ASSUME Plain, err' = err
    PROVE  Plain'
  BY DEF Plain

LEMMA PlainResult ==
    ASSUME IndInv, Plain, NEW m, NEW how, HandleResult(m, how)
    PROVE  Plain'
  <1> DEFINE hit  == FirstWith(m)
             done == IF how \in {"wait", "token"} THEN {} ELSE hit
             e2(w) == [r \in Request |->
                        IF r \in done THEN NoError
                        ELSE IF r \notin hit THEN err[r]
                        ELSE IF how = "token"
                        THEN [err[r] EXCEPT !.on = TRUE, !.token = TRUE]
                        ELSE [err[r] EXCEPT !.on = TRUE, !.wait = Max({@, w})]]
  <1>1. PICK w \in WaitSeconds : err' = e2(w)
    BY Zenon DEF HandleResult
  <1> HIDE DEF hit, done
  <1> SUFFICES ASSUME NEW r \in Request, ~err'[r].on
               PROVE  err'[r].wait = 0
    BY DEF Plain
  <1>2. err[r] \in [on : BOOLEAN, wait : Wait, token : BOOLEAN]
    BY DEF IndInv, ErrOK
  <1>3. PICK v : v = Max({err[r].wait, w})
    OBVIOUS
  <1>4. err'[r] \in {NoError, err[r], [err[r] EXCEPT !.on = TRUE, !.token = TRUE],
                     [err[r] EXCEPT !.on = TRUE, !.wait = v]}
    BY <1>1, <1>3
  <1>5. err'[r] \in {NoError, err[r]}
    BY <1>2, <1>4
  <1> QED
    BY <1>5 DEF Plain, NoError

LEMMA PlainNext ==
    ASSUME IndInv, Plain, [Next]_vars
    PROVE  Plain'
  <1>0. DOMAIN err = Request /\ \A r \in Request :
          err[r] \in [on : BOOLEAN, wait : Wait, token : BOOLEAN]
    BY DEF IndInv, ErrOK
  <1>1. CASE Application
    <2>1. CASE \E r \in Request, reconnect \in BOOLEAN : RemoveRequest(r, reconnect)
      <3>1. PICK r \in Request : err' = [err EXCEPT ![r] = NoError]
        BY <2>1 DEF RemoveRequest
      <3> QED
        BY <1>0, <3>1 DEF Plain, NoError
    <2>2. CASE AuthTokenUpdated
      <3>1. err' = [r \in Request |-> [err[r] EXCEPT !.token = FALSE]]
        BY <2>2 DEF AuthTokenUpdated
      <3>2. ASSUME NEW r \in Request
            PROVE  err'[r].on = err[r].on /\ err'[r].wait = err[r].wait
        BY <1>0, <3>1
      <3> QED
        BY <3>2 DEF Plain
    <2>3. CASE \/ \E r \in Request : AddRequest(r)
               \/ Pause \/ Resume \/ TransportSchemeUpdated \/ PasswordEntered
      <3>1. err' = err
        BY <2>3 DEF AddRequest, Pause, Resume, TransportSchemeUpdated, PasswordEntered, service
      <3> QED
        BY <3>1, PlainKept
    <2> QED
      BY <1>1, <2>1, <2>2, <2>3 DEF Application
  <1>2. CASE Tick
    <2> SUFFICES ASSUME NEW r \in Request, ~err'[r].on
                 PROVE  err'[r].wait = 0
      BY DEF Plain
    <2>1. PICK n : n = IF err[r].wait > 0 THEN err[r].wait - 1 ELSE err[r].wait
      OBVIOUS
    <2>2. err'[r] = [err[r] EXCEPT !.wait = n]
      BY <1>2, <2>1 DEF Tick
    <2>3. err'[r].on = err[r].on /\ err'[r].wait = n
      BY <1>0, <2>2
    <2>4. err[r].wait = 0
      BY <2>3 DEF Plain
    <2> QED
      BY <2>1, <2>3, <2>4
  <1>3. CASE RunData
    <2>1. PICK e, m, how : e = Head(mq) /\ m = e.x.m /\ how = e.x.how
      OBVIOUS
    <2>2. e.x.k \in Answers
      BY <1>3, <2>1, HeadMq DEF RunData, MqBlock
    <2>3. CASE e.t = transport /\ e.x.k = "res"
      <3>1. HandleResult(m, how)
        BY <1>3, <2>1, <2>3 DEF RunData, HandleMessage
      <3> QED
        BY <3>1, PlainResult
    <2>4. CASE e.t # transport
      <3>1. err' = err
        BY <1>3, <2>1, <2>4 DEF RunData, service
      <3> QED
        BY <3>1, PlainKept
    <2>5. CASE e.t = transport /\ e.x.k # "res"
      <3>1. HandleMessage(e.x)
        BY <1>3, <2>1, <2>5 DEF RunData
      <3>2. HandleAck(m) \/ HandleDropped(m) \/ HandleNewSession(m) \/ HandleBad(m, how)
        BY <2>1, <2>2, <2>5, <3>1 DEF HandleMessage, Answers
      <3>3. err' = err
        BY <3>2 DEF HandleAck, HandleDropped, HandleNewSession, HandleBad
      <3> QED
        BY <3>3, PlainKept
    <2> QED
      BY <2>3, <2>4, <2>5
  <1>4. CASE \/ RequestTimerEvent \/ RunReady \/ RunSent \/ RunFailed
             \/ RunRequestedTransaction \/ SessionReset \/ CompleteTimeSync
    <2>1. err' = err
      BY <1>4 DEF RequestTimerEvent, RunReady, RunSent, RunFailed, RunRequestedTransaction,
         SessionReset, CompleteTimeSync, service
    <2> QED
      BY <2>1, PlainKept
  <1>5. CASE TcpQueue \/ ConnQueue
    <2>1. err' = err
      BY <1>5 DEF TcpQueue, RunNeeds, RunPass, RunSend, RunActive, RunStop, RunReset, RunClosed,
         ConnQueue, RunStart, RunWrite, RunClose, service
    <2> QED
      BY <2>1, PlainKept
  <1>6. CASE \E t \in DOMAIN tr : Connect(t) \/ Opened(t) \/ ConnectionFails(t) \/ ServerRestarts(t)
    <2>1. err' = err
      BY <1>6 DEF Connect, Opened, ConnectionFails, ServerRestarts, service
    <2> QED
      BY <2>1, PlainKept
  <1>7. CASE \/ \E c \in DOMAIN net : Lose(c) \/ ServerExecutes(c) \/ ServerRejects(c)
             \/ ServerPush \/ UNCHANGED vars
    <2>1. err' = err
      BY <1>7 DEF Lose, ServerExecutes, ServerRejects, ServerPush, service, vars
    <2> QED
      BY <2>1, PlainKept
  <1> QED
    BY <1>1, <1>2, <1>3, <1>4, <1>5, <1>6, <1>7 DEF Next, Clock, Manager

LEMMA WakeInit == Init => Plain /\ WakeInv
  <1> SUFFICES ASSUME Init
               PROVE  Plain /\ WakeInv
    OBVIOUS
  <1>1. /\ requests = <<>> /\ ctx = [r \in Request |-> NoCtx] /\ err = [r \in Request |-> NoError]
        /\ transport = NoTransport /\ mq = <<>> /\ tr = <<>> /\ cq = <<>>
    BY DEF Init
  <1>2. Len(<<>>) = 0
    OBVIOUS
  <1>3. Plain
    BY <1>1 DEF Plain, NoError
  <1>4. Current /\ Resting /\ Sends /\ Writes
    BY <1>1, <1>2 DEF Current, Resting, Sends, Writes
  <1>5. StartsOnce(cq, started) /\ Failures
    BY <1>1, <1>2 DEF StartsOnce, Failures
  <1>6. Answered
    BY <1>1, NoCtxIs DEF Answered
  <1>7. Asleep
    <2>1. Queued = {}
      BY <1>1 DEF Queued, ToSet
    <2> QED
      BY <2>1 DEF Asleep
  <1> QED
    BY <1>3, <1>4, <1>5, <1>6, <1>7 DEF WakeInv

LEMMA WakeNext ==
    ASSUME IndInv, Plain, WakeInv, [Next]_vars
    PROVE  WakeInv'
  <1>1. CASE Application
    <2>1. CASE \E r \in Request : AddRequest(r)
      BY <2>1, AddRequestWake
    <2>2. CASE \E r \in Request, reconnect \in BOOLEAN : RemoveRequest(r, reconnect)
      BY <2>2, RemoveRequestWake
    <2>3. CASE Pause
      BY <2>3, PauseWake
    <2>4. CASE Resume
      BY <2>4, ResumeWake
    <2>5. CASE TransportSchemeUpdated
      BY <2>5, TransportSchemeUpdatedWake
    <2>6. CASE AuthTokenUpdated
      BY <2>6, AuthTokenUpdatedWake
    <2>7. CASE PasswordEntered
      BY <2>7, PasswordEnteredWake
    <2> QED
      BY <1>1, <2>1, <2>2, <2>3, <2>4, <2>5, <2>6, <2>7 DEF Application
  <1>2. CASE Clock
    BY <1>2, RequestTimerEventWake, TickWake DEF Clock
  <1>3. CASE Manager
    BY <1>3, RunReadyWake, RunSentWake, RunFailedWake, RunDataWake DEF Manager
  <1>4. CASE RunRequestedTransaction
    BY <1>4, RunRequestedTransactionWake
  <1>5. CASE SessionReset
    BY <1>5, SessionResetWake
  <1>6. CASE CompleteTimeSync
    BY <1>6, CompleteTimeSyncWake
  <1>7. CASE TcpQueue
    BY <1>7, RunNeedsWake, RunPassWake, RunSendWake, RunActiveWake, RunStopWake, RunResetWake,
       RunClosedWake DEF TcpQueue
  <1>8. CASE ConnQueue
    BY <1>8, RunStartWake, RunWriteWake, RunCloseWake DEF ConnQueue
  <1>9. CASE \E t \in DOMAIN tr : Connect(t) \/ Opened(t) \/ ConnectionFails(t) \/ ServerRestarts(t)
    BY <1>9, ConnectWake, OpenedWake, ConnectionFailsWake, ServerRestartsWake
  <1>10. CASE \E c \in DOMAIN net : Lose(c) \/ ServerExecutes(c) \/ ServerRejects(c)
    <2>1. UNCHANGED <<service, proto, tcp>>
      BY <1>10 DEF Lose, ServerExecutes, ServerRejects
    <2> QED
      BY <2>1, SilentWake
  <1>11. CASE ServerPush
    BY <1>11, ServerPushWake
  <1>12. CASE UNCHANGED vars
    BY <1>12, SilentWake DEF vars
  <1> QED
    BY <1>1, <1>2, <1>3, <1>4, <1>5, <1>6, <1>7, <1>8, <1>9, <1>10, <1>11, <1>12 DEF Next

(* A request that can be sent and met no error is not left asleep: a       *)
(* completion that names it is on a queue, or something is on its way that *)
(* makes the client ask for a transaction.                                 *)
THEOREM WakeUpsArrive == Spec => []NoLostWakeUp
  <1>1. Init => IndInv /\ Plain /\ WakeInv
    BY InitInv, WakeInit
  <1>2. IndInv /\ Plain /\ WakeInv /\ [Next]_vars => (IndInv /\ Plain /\ WakeInv)'
    BY NextInv, PlainNext, WakeNext
  <1>3. IndInv /\ Plain /\ WakeInv => NoLostWakeUp
    <2> SUFFICES ASSUME IndInv, WakeInv, NEW r \in Queued,
                        Sendable(r), ~err[r].on, ~InFlight(r)
                 PROVE  WakeUpPending
      BY DEF NoLostWakeUp
    <2>1. DOMAIN tq = 1..Len(tq) /\ DOMAIN cq = 1..Len(cq) /\ DOMAIN mq = 1..Len(mq)
      BY Numbers DEF IndInv
    <2>2. ~Own(r)
      BY <2>1 DEF Own, OwnSend, OwnWrite, OwnSent, InFlight
    <2>3. Pend(0)
      BY <2>2 DEF WakeInv, Asleep
    <2>4. CASE willRequest \/ paused \/ timeFix
      BY <2>4 DEF WakeUpPending
    <2>5. CASE transport # NoTransport /\ Soon(tr[transport], transport, tq, mq, closed, 0)
      BY <2>1, <2>5 DEF Soon, Alert, At, Calls, Sendings, Readies, WakeUpPending
    <2> QED
      BY <2>3, <2>4, <2>5 DEF Pend
  <1> QED
    BY <1>1, <1>2, <1>3, PTL DEF Spec
=============================================================================
