------------------------- MODULE MTTcpTransportProofs -------------------------
(***************************************************************************)
(* The safety properties of MTTcpTransport for every bound on connections, *)
(* pings and faults.                                                       *)
(*                                                                         *)
(* What is posted is described by Has and Shows, so that a step on a queue *)
(* is one fact about it (Taken, Posted) and the rest of the argument does  *)
(* not look into the queues.                                               *)
(***************************************************************************)
EXTENDS MTTcpTransport, QueueTheorems

(* The values of ctx, and of the record that a block changes. *)
Contexts ==
  [conn : {0} \cup Conns, connected : BOOLEAN, stopped : BOOLEAN,
   willRequest : BOOLEAN, backoffCount : 0..MaxConnections,
   backoffTimer : BOOLEAN, watchdog : BOOLEAN, isValid : BOOLEAN,
   didSend : BOOLEAN, ping : 0..MaxPings, pingTimer : BOOLEAN,
   locked : BOOLEAN, another : BOOLEAN]

States ==
  [t : Contexts, c : Seq(Blocks), m : Seq(Blocks), made : 0..MaxConnections, rush : Nat]

(* A block of kind k for connection c is on queue q. *)
Has(q, k, c) == \E i \in 1..Len(q) : q[i].k = k /\ q[i].n = c

(* The block b makes sense when n connections were made and so are their   *)
(* sockets: news of a connection is from an open or a closed one, and only *)
(* pings that exist are sent.                                              *)
Fits(b, so, n) ==
  /\ b \in Blocks
  /\ b.k \in {"opened", "closed", "data", "valid", "start", "close", "write", "incoming"}
       => b.n \in Conns /\ b.n <= n
  /\ b.k = "closed" => so[b.n] = "closed"
  /\ b.k \in {"opened", "data", "valid", "incoming"} => so[b.n] \in {"open", "closed"}
  /\ b.k \in {"pingSent", "sent", "write"} \/ (b.k = "ready" /\ b.n = 1) => b.p # 0

QueueOK(q, so, n) == q \in Seq(Blocks) /\ \A i \in 1..Len(q) : Fits(q[i], so, n)

(* A connection is open before it is valid; it is started before all else. *)
OpensFirst(q) ==
  \A i, j \in 1..Len(q) : i < j /\ q[j].k = "opened" /\ q[i].k = "valid" => q[i].n # q[j].n
StartsFirst(q) ==
  \A i, j \in 1..Len(q) :
    i < j /\ q[j].k = "start" /\ q[i].k \in {"start", "close", "write"} => q[i].n # q[j].n

(* What MTProto will believe when it has heard all that waits: the last    *)
(* word, or what it was told, is that the connection context is updating.  *)
Shows(q, sh) ==
  \/ sh /\ \A i \in 1..Len(q) : q[i].k # "updating"
  \/ \E i \in 1..Len(q) : /\ q[i].k = "updating" /\ q[i].n = 1
                          /\ \A j \in 1..Len(q) : j > i => q[j].k # "updating"

Types ==
  /\ ctx \in Contexts
  /\ made \in 0..MaxConnections /\ pings \in 0..MaxPings /\ faults \in 0..MaxFaults
  /\ chatter \in 0..MaxChatter
  /\ sock \in [Conns -> {"none", "starting", "open", "closed"}]
  /\ asked \subseteq Conns \X (1..MaxPings)
  /\ rush \in Nat /\ excused \subseteq Conns
  /\ canAsk \in BOOLEAN /\ shown \in BOOLEAN /\ lostPing \in BOOLEAN

Queues ==
  /\ QueueOK(tq, sock, made) /\ QueueOK(cq, sock, made) /\ QueueOK(mq, sock, made)
  /\ OpensFirst(tq) /\ StartsFirst(cq)

(* Only the connection of the moment is alive or will be. *)
Live(c) == sock[c] \in {"starting", "open"}

Sockets ==
  /\ \A c \in Conns : c > made => sock[c] = "none"
  /\ \A c \in Conns : Has(cq, "start", c) => sock[c] = "none"
  /\ ctx.conn <= made
  /\ ~ctx.stopped => \A c \in Conns : Live(c) \/ Has(cq, "start", c) => c = ctx.conn

(* After stop, what is alive or will be is also about to be closed. *)
Stopped ==
  ctx.stopped =>
    /\ ctx.conn = 0 /\ ~ctx.connected /\ ~ctx.watchdog
    /\ \A c \in Conns : Live(c) \/ Has(cq, "start", c) => Has(cq, "close", c)

(* Every failed connection counts once, and it takes a failure to connect  *)
(* twice without a wait.                                                   *)
Counts ==
  /\ ctx.backoffCount <= made
  /\ ctx.conn # 0 => ctx.backoffCount + 1 <= made
  /\ made = 0 => rush = 0 /\ ctx.conn = 0
  /\ rush <= 2 /\ (ctx.backoffCount = 0 => rush <= 1)

(* Without a connection the back-off timer runs, and only then; the end of *)
(* a connection will be noticed.                                           *)
Reconnection ==
  /\ made \in 1..(MaxConnections - 1) /\ ~ctx.stopped => (ctx.conn = 0 <=> ctx.backoffTimer)
  /\ ctx.conn # 0 /\ sock[ctx.conn] = "closed" => Has(tq, "closed", ctx.conn)

(* A connection is watched at least until it was open and valid. *)
Watching ==
  ctx.conn # 0 =>
    \/ ctx.watchdog \/ ctx.conn \in excused
    \/ /\ ctx.isValid /\ sock[ctx.conn] \in {"open", "closed"}
       /\ ~Has(tq, "opened", ctx.conn)

(* When MTProto believes, or will, that the connection context is updating,*)
(* there is something that will end it: a ping on this connection.         *)
Ending ==
  \/ ctx.ping # 0 \/ lostPing \/ ctx.stopped
  \/ ctx.conn = 0 \/ sock[ctx.conn] # "open" \/ ~ctx.didSend
  \/ Has(tq, "opened", ctx.conn) \/ Has(cq, "write", ctx.conn)
  \/ Has(tq, "ready", 1) \/ Has(mq, "transaction", 1)
  \/ Has(tq, "pingSent", 0) \/ Has(mq, "sent", 0)

Updating == Shows(mq, shown) => Ending

IndInv ==
  /\ Types /\ Queues /\ Sockets /\ Stopped /\ Counts
  /\ Reconnection /\ Watching /\ Updating

-----------------------------------------------------------------------------
(* The first block of a queue is taken. *)
LEMMA TakenFacts ==
  ASSUME NEW q, NEW so, NEW n, QueueOK(q, so, n), NEW k, Take(q, k)
  PROVE  /\ Dropped(Tail(q), q) /\ Head(q) = q[1] /\ q[1].k = k /\ Fits(q[1], so, n)
         /\ QueueOK(Tail(q), so, n)
         /\ OpensFirst(q) => OpensFirst(Tail(q))
         /\ StartsFirst(q) => StartsFirst(Tail(q))
         /\ \A l, c : Has(q, l, c) <=> Has(Tail(q), l, c) \/ (l = k /\ c = q[1].n)
         /\ OpensFirst(q) /\ k = "valid" => ~Has(Tail(q), "opened", q[1].n)
         /\ StartsFirst(q) /\ k \in {"start", "close", "write"} => ~Has(Tail(q), "start", q[1].n)
  <1> DEFINE r == Tail(q)
  <1>1. /\ r \in Seq(Blocks) /\ Dropped(r, q) /\ Head(q) = q[1] /\ 1 \in 1..Len(q) /\ q[1].k = k
    BY TailDrops DEF QueueOK, Take
  <1> HIDE DEF r
  <1>2. QueueOK(r, so, n) /\ Fits(q[1], so, n)
    <2>1. \A i \in 1..Len(q) : Fits(q[i], so, n)
      BY DEF QueueOK
    <2>2. ASSUME NEW i \in 1..Len(r) PROVE Fits(r[i], so, n)
      <3>1. i + 1 \in 1..Len(q) /\ r[i] = q[i + 1]
        BY <1>1 DEF Dropped
      <3> QED
        BY <2>1, <3>1
    <2> QED
      BY <1>1, <2>1, <2>2 DEF QueueOK
  <1>3. OpensFirst(q) => OpensFirst(r)
    <2> SUFFICES ASSUME OpensFirst(q), NEW i \in 1..Len(r), NEW j \in 1..Len(r), i < j,
                        r[j].k = "opened", r[i].k = "valid"
                 PROVE  r[i].n # r[j].n
      BY DEF OpensFirst
    <2>1. /\ i + 1 \in 1..Len(q) /\ r[i] = q[i + 1] /\ j + 1 \in 1..Len(q) /\ r[j] = q[j + 1]
          /\ i + 1 < j + 1
      BY <1>1 DEF Dropped
    <2> QED
      BY <2>1 DEF OpensFirst
  <1>4. StartsFirst(q) => StartsFirst(r)
    <2> SUFFICES ASSUME StartsFirst(q), NEW i \in 1..Len(r), NEW j \in 1..Len(r), i < j,
                        r[j].k = "start", r[i].k \in {"start", "close", "write"}
                 PROVE  r[i].n # r[j].n
      BY DEF StartsFirst
    <2>1. /\ i + 1 \in 1..Len(q) /\ r[i] = q[i + 1] /\ j + 1 \in 1..Len(q) /\ r[j] = q[j + 1]
          /\ i + 1 < j + 1
      BY <1>1 DEF Dropped
    <2> QED
      BY <2>1 DEF StartsFirst
  <1>5. ASSUME NEW l, NEW c
        PROVE  Has(q, l, c) <=> Has(r, l, c) \/ (l = k /\ c = q[1].n)
    <2>1. ASSUME NEW i \in 1..Len(r), r[i].k = l, r[i].n = c PROVE Has(q, l, c)
      <3>1. i + 1 \in 1..Len(q) /\ r[i] = q[i + 1]
        BY <1>1 DEF Dropped
      <3> QED
        BY <2>1, <3>1 DEF Has
    <2>2. ASSUME NEW i \in 1..Len(q), q[i].k = l, q[i].n = c, i # 1 PROVE Has(r, l, c)
      <3>1. i - 1 \in 1..Len(r) /\ r[i - 1] = q[i]
        BY <1>1, <2>2 DEF Dropped
      <3> QED
        BY <2>2, <3>1 DEF Has
    <2> QED
      BY <1>1, <2>1, <2>2 DEF Has
  <1>6. ASSUME NEW i \in 1..Len(r)
        PROVE  i + 1 \in 1..Len(q) /\ r[i] = q[i + 1] /\ 1 < i + 1
    BY <1>1 DEF Dropped
  <1>7. OpensFirst(q) /\ k = "valid" => ~Has(r, "opened", q[1].n)
    BY <1>1, <1>6 DEF OpensFirst, Has
  <1>8. StartsFirst(q) /\ k \in {"start", "close", "write"} => ~Has(r, "start", q[1].n)
    BY <1>1, <1>6 DEF StartsFirst, Has
  <1> QED
    BY <1>1, <1>2, <1>3, <1>4, <1>5, <1>7, <1>8 DEF r

(* A block is posted to a queue. *)
LEMMA PostedFacts ==
  ASSUME NEW q, NEW so, NEW n, QueueOK(q, so, n), NEW b, Fits(b, so, n)
  PROVE  /\ Added(Append(q, b), q, b)
         /\ QueueOK(Append(q, b), so, n)
         /\ OpensFirst(q) /\ (b.k = "opened" => ~Has(q, "valid", b.n)) => OpensFirst(Append(q, b))
         /\ StartsFirst(q) /\ (b.k = "start" => \A l \in {"start", "close", "write"} : ~Has(q, l, b.n))
              => StartsFirst(Append(q, b))
         /\ \A l, c : Has(Append(q, b), l, c) <=> Has(q, l, c) \/ (l = b.k /\ c = b.n)
  <1> DEFINE r == Append(q, b)
  <1>1. r \in Seq(Blocks) /\ Added(r, q, b)
    BY AppendAdds DEF QueueOK, Fits
  <1> HIDE DEF r
  <1>2. QueueOK(r, so, n)
    BY <1>1 DEF QueueOK, Added
  <1>3. OpensFirst(q) /\ (b.k = "opened" => ~Has(q, "valid", b.n)) => OpensFirst(r)
    BY <1>1 DEF OpensFirst, Added, Has
  <1>4. StartsFirst(q) /\ (b.k = "start" => \A l \in {"start", "close", "write"} : ~Has(q, l, b.n))
          => StartsFirst(r)
    BY <1>1 DEF StartsFirst, Added, Has
  <1>5. ASSUME NEW l, NEW c
        PROVE  Has(r, l, c) <=> Has(q, l, c) \/ (l = b.k /\ c = b.n)
    BY <1>1 DEF Has, Added
  <1> QED
    BY <1>1, <1>2, <1>3, <1>4, <1>5 DEF r

(* The socket of a connection that is spoken of. *)
LEMMA HasFacts ==
  ASSUME NEW q, NEW so, NEW n, QueueOK(q, so, n), NEW k, NEW c, Has(q, k, c)
  PROVE  /\ k = "closed" => so[c] = "closed"
         /\ k \in {"opened", "data", "valid", "incoming"} => so[c] \in {"open", "closed"}
         /\ k \in {"opened", "closed", "data", "valid", "start", "close", "write", "incoming"}
              => c \in Conns /\ c <= n
  BY DEF Has, QueueOK, Fits

(* A socket goes on: what is posted fits as before. *)
LEMMA SocketMoves ==
  ASSUME NEW q, NEW so \in [Conns -> {"none", "starting", "open", "closed"}], NEW n,
         QueueOK(q, so, n), NEW c \in Conns, NEW v,
         so[c] = "closed" => v = "closed", so[c] = "open" => v \in {"open", "closed"}
  PROVE  QueueOK(q, [so EXCEPT ![c] = v], n)
  BY DEF QueueOK, Fits

(* What MTProto will believe, when it hears the next news. *)
LEMMA ShowsTaken ==
  ASSUME NEW r, NEW q, Dropped(r, q), NEW sh \in BOOLEAN
  PROVE  /\ q[1].k # "updating" => (Shows(r, sh) => Shows(q, sh))
         /\ q[1].k = "updating" => (Shows(r, q[1].n = 1) => Shows(q, sh))
  <1>1. 1 \in 1..Len(q)
    BY DEF Dropped
  <1>2. ASSUME NEW i \in 1..Len(r), r[i].k = "updating", r[i].n = 1,
               \A j \in 1..Len(r) : j > i => r[j].k # "updating"
        PROVE  Shows(q, sh)
    <2>1. i + 1 \in 1..Len(q) /\ q[i + 1] = r[i]
      BY DEF Dropped
    <2>2. ASSUME NEW j \in 1..Len(q), j > i + 1 PROVE q[j].k # "updating"
      <3>1. j - 1 \in 1..Len(r) /\ r[j - 1] = q[j] /\ j - 1 > i
        BY <2>1, <2>2 DEF Dropped
      <3> QED
        BY <1>2, <3>1
    <2> QED
      BY <1>2, <2>1, <2>2 DEF Shows
  <1>3. ASSUME \A i \in 1..Len(r) : r[i].k # "updating"
        PROVE  \A i \in 1..Len(q) : i # 1 => q[i].k # "updating"
    BY <1>3 DEF Dropped
  <1>4. ASSUME q[1].k # "updating", Shows(r, sh) PROVE Shows(q, sh)
    BY <1>1, <1>2, <1>3, <1>4 DEF Shows
  <1>5. ASSUME q[1].k = "updating", Shows(r, q[1].n = 1) PROVE Shows(q, sh)
    <2>1. CASE q[1].n = 1 /\ \A i \in 1..Len(r) : r[i].k # "updating"
      <3>1. \A i \in 1..Len(q) : i > 1 => q[i].k # "updating"
        BY <1>3, <2>1 DEF Dropped
      <3> QED
        BY <1>1, <1>5, <2>1, <3>1 DEF Shows
    <2> QED
      BY <1>2, <1>5, <2>1 DEF Shows
  <1> QED
    BY <1>4, <1>5

(* What MTProto will believe, when news is posted. *)
LEMMA ShowsPosted ==
  ASSUME NEW r, NEW q, NEW b, Added(r, q, b), NEW sh \in BOOLEAN
  PROVE  /\ b.k # "updating" => (Shows(r, sh) => Shows(q, sh))
         /\ b.k = "updating" => (Shows(r, sh) => b.n = 1)
  <1>1. ASSUME b.k # "updating", Shows(r, sh) PROVE Shows(q, sh)
    BY <1>1 DEF Shows, Added
  <1>2. ASSUME b.k = "updating", Shows(r, sh) PROVE b.n = 1
    BY <1>2 DEF Shows, Added
  <1> QED
    BY <1>1, <1>2

-----------------------------------------------------------------------------
(* The state that a block of the transport queue starts from. *)
LEMMA RunningState ==
  ASSUME IndInv
  PROVE  Running \in States /\ Running.t = ctx /\ Running.c = cq /\ Running.m = mq
         /\ Running.made = made /\ Running.rush = rush
  BY DEF IndInv, Types, Queues, QueueOK, Running, States

(* _requestTransactionFromDelegate: the transaction is posted, and has a   *)
(* ping when none was sent on this connection, or one is under way.        *)
LEMMA RequestedFacts ==
  ASSUME NEW s \in States, NEW late \in BOOLEAN
  PROVE  LET r == RequestTransaction(s, late) IN
         /\ r.t \in Contexts /\ r.c = s.c /\ r.made = s.made /\ r.rush = s.rush
         /\ r.t.conn = s.t.conn /\ r.t.connected = s.t.connected /\ r.t.stopped = s.t.stopped
         /\ r.t.backoffCount = s.t.backoffCount /\ r.t.backoffTimer = s.t.backoffTimer
         /\ r.t.watchdog = s.t.watchdog /\ r.t.isValid = s.t.isValid /\ r.t.ping = s.t.ping
         /\ \/ r.m = s.m /\ s.t.didSend /\ r.t.didSend
            \/ r.m = Append(s.m, Block("transaction", IF s.t.didSend THEN 0 ELSE 1, 0))
  <1> DEFINE r == RequestTransaction(s, late)
             a == [s EXCEPT !.t.another = TRUE]
             b == [s EXCEPT !.t.locked = TRUE, !.t.didSend = TRUE]
             x == Block("transaction", IF s.t.didSend THEN 0 ELSE 1, 0)
  <1>1. CASE s.t.locked /\ s.t.didSend /\ ~late
    <2>1. r = a
      BY <1>1 DEF RequestTransaction
    <2> HIDE DEF r
    <2>2. a.t \in Contexts
      BY DEF States, Contexts
    <2> QED
      BY <1>1, <2>1, <2>2 DEF States, Contexts, r
  <1>2. CASE ~(s.t.locked /\ s.t.didSend /\ ~late)
    <2>1. r = [b EXCEPT !.m = Append(@, x)]
      BY <1>2 DEF RequestTransaction, ToMTProto
    <2> HIDE DEF r, x
    <2>2. b.t \in Contexts
      BY DEF States, Contexts
    <2>3. /\ r.t = b.t /\ r.m = Append(s.m, x) /\ r.c = s.c /\ r.made = s.made /\ r.rush = s.rush
      BY <2>1 DEF States
    <2>4. /\ b.t.conn = s.t.conn /\ b.t.connected = s.t.connected /\ b.t.stopped = s.t.stopped
          /\ b.t.backoffCount = s.t.backoffCount /\ b.t.backoffTimer = s.t.backoffTimer
          /\ b.t.watchdog = s.t.watchdog /\ b.t.isValid = s.t.isValid /\ b.t.ping = s.t.ping
      BY DEF States, Contexts
    <2> HIDE DEF b
    <2> QED
      BY <2>2, <2>3, <2>4 DEF r, x
  <1> QED
    BY <1>1, <1>2

(* startIfNeeded: a connection is made, with its watchdog, or nothing      *)
(* changes.                                                                *)
LEMMA ReconnectedFacts ==
  ASSUME NEW s \in States, NEW waited \in BOOLEAN
  PROVE  LET r == RequestsReconnection(s, waited) IN
         \/ /\ s.t.stopped \/ s.t.conn # 0 \/ s.made = MaxConnections
            /\ r = s
         \/ /\ ~s.t.stopped /\ s.t.conn = 0 /\ s.made < MaxConnections
            /\ r.t \in Contexts /\ r.m = s.m /\ r.made = s.made + 1 /\ r.t.conn = s.made + 1
            /\ r.c = Append(s.c, Block("start", s.made + 1, 0))
            /\ r.rush = IF waited THEN 0 ELSE s.rush + 1
            /\ r.t.watchdog /\ ~r.t.stopped
            /\ r.t.connected = s.t.connected /\ r.t.backoffCount = s.t.backoffCount
            /\ r.t.backoffTimer = s.t.backoffTimer /\ r.t.isValid = s.t.isValid
            /\ r.t.ping = s.t.ping /\ r.t.didSend = s.t.didSend
  <1> DEFINE r == RequestsReconnection(s, waited)
             u == [s.t EXCEPT !.watchdog = TRUE, !.conn = s.made + 1]
  <1>1. CASE s.t.stopped \/ s.t.conn # 0 \/ s.made = MaxConnections
    BY <1>1 DEF RequestsReconnection
  <1>2. CASE ~(s.t.stopped \/ s.t.conn # 0 \/ s.made = MaxConnections)
    <2>1. s.made < MaxConnections /\ s.made + 1 \in Conns
      BY <1>2, TransportAssumption DEF States, Conns
    <2>2. /\ r.t = u /\ r.m = s.m /\ r.made = s.made + 1
          /\ r.c = Append(s.c, Block("start", s.made + 1, 0))
          /\ r.rush = IF waited THEN 0 ELSE s.rush + 1
      BY <1>2 DEF RequestsReconnection, States, Contexts
    <2>3. u \in Contexts
      BY <2>1 DEF States, Contexts
    <2>4. /\ u.conn = s.made + 1 /\ u.watchdog /\ u.stopped = s.t.stopped
          /\ u.connected = s.t.connected /\ u.backoffCount = s.t.backoffCount
          /\ u.backoffTimer = s.t.backoffTimer /\ u.isValid = s.t.isValid
          /\ u.ping = s.t.ping /\ u.didSend = s.t.didSend
      BY DEF States, Contexts
    <2> HIDE DEF r, u
    <2> QED
      BY <1>2, <2>1, <2>2, <2>3, <2>4 DEF r
  <1> QED
    BY <1>1, <1>2

(* What of the transport's state the connections depend on. *)
Kept(t, u) ==
  /\ u.conn = t.conn /\ u.stopped = t.stopped /\ u.watchdog = t.watchdog
  /\ u.backoffCount = t.backoffCount /\ u.backoffTimer = t.backoffTimer

(* A step that makes, opens and closes no connection. *)
LEMMA Calm ==
  ASSUME IndInv, Kept(ctx, ctx'), ctx.stopped => ~ctx'.connected,
         UNCHANGED <<sock, made, rush>>,
         QueueOK(tq', sock, made), QueueOK(cq', sock, made), QueueOK(mq', sock, made),
         OpensFirst(tq'), StartsFirst(cq'),
         \A c \in Conns : /\ Has(cq', "start", c) => Has(cq, "start", c)
                          /\ Has(cq, "close", c) => Has(cq', "close", c)
                          /\ c = ctx.conn /\ Has(tq, "closed", c) => Has(tq', "closed", c)
  PROVE  Queues' /\ Sockets' /\ Stopped' /\ Counts' /\ Reconnection'
  <1>1. Queues'
    BY DEF Queues
  <1>2. Sockets' /\ Stopped'
    BY DEF IndInv, Sockets, Stopped, Live, Kept
  <1>3. Counts'
    BY DEF IndInv, Counts, Kept
  <1>4. Reconnection'
    <2>1. ctx.conn # 0 => ctx.conn \in Conns
      BY DEF IndInv, Types, Contexts
    <2> QED
      BY <2>1 DEF IndInv, Reconnection, Kept
  <1> QED
    BY <1>1, <1>2, <1>3, <1>4

-----------------------------------------------------------------------------
(* A block that is not about an opened connection is posted to the         *)
(* transport queue.                                                        *)
LEMMA PostStep ==
  ASSUME IndInv, Types', NEW b, Fits(b, sock, made), b.k # "opened", tq' = Append(tq, b),
         UNCHANGED <<ctx, made, sock, cq, mq, shown, rush, excused, lostPing>>
  PROVE  IndInv'
  <1>1. /\ QueueOK(tq', sock, made) /\ OpensFirst(tq')
        /\ \A l, c : Has(tq', l, c) <=> Has(tq, l, c) \/ (l = b.k /\ c = b.n)
    BY PostedFacts DEF IndInv, Queues
  <1>2. Kept(ctx, ctx') /\ (ctx.stopped => ~ctx'.connected)
    BY DEF Kept, IndInv, Stopped
  <1>3. Queues' /\ Sockets' /\ Stopped' /\ Counts' /\ Reconnection'
    <2>1. QueueOK(cq', sock, made) /\ QueueOK(mq', sock, made) /\ StartsFirst(cq')
      BY DEF IndInv, Queues
    <2>2. \A c \in Conns : /\ Has(cq', "start", c) => Has(cq, "start", c)
                           /\ Has(cq, "close", c) => Has(cq', "close", c)
                           /\ c = ctx.conn /\ Has(tq, "closed", c) => Has(tq', "closed", c)
      BY <1>1
    <2> QED
      BY <1>1, <1>2, <2>1, <2>2, Calm
  <1>4. Watching'
    BY <1>1 DEF IndInv, Watching
  <1>5. Updating'
    BY <1>1 DEF IndInv, Updating, Ending
  <1> QED
    BY <1>3, <1>4, <1>5 DEF IndInv

(* What MTProto, the network and the server do, but for the sockets. *)
LEMMA EnvironmentStep ==
  ASSUME IndInv,
         \/ NeedsTransaction \/ BlockTransactions \/ UnblockTransactions \/ Disturb
         \/ ServerRestarts \/ RequestStop
         \/ \E c \in Conns : Pong(c) \/ ServerData(c)
  PROVE  IndInv'
  <1>1. /\ faults \in 0..MaxFaults /\ chatter \in 0..MaxChatter /\ MaxFaults \in Nat
        /\ MaxChatter \in Nat /\ MaxConnections \in Nat /\ MaxConnections >= 1 /\ MaxPings \in Nat
    BY TransportAssumption DEF IndInv, Types
  <1>2. faults < MaxFaults => faults + 1 \in 0..MaxFaults
    BY <1>1
  <1>3. chatter < MaxChatter => chatter + 1 \in 0..MaxChatter
    BY <1>1
  <1>4. CASE NeedsTransaction
    <2>1. Types'
      BY <1>3, <1>4 DEF NeedsTransaction, IndInv, Types
    <2>2. Fits(Block("needs", 0, 0), sock, made)
      BY <1>1 DEF Fits, Block, Blocks, Kinds
    <2> QED
      BY <1>4, <2>1, <2>2, PostStep DEF NeedsTransaction, Post, Block
  <1>5. CASE BlockTransactions
    <2>1. canAsk' \in BOOLEAN
      BY <1>5, Zenon DEF BlockTransactions
    <2>2. Types'
      BY <1>2, <1>5, <2>1 DEF BlockTransactions, Fault, IndInv, Types
    <2>3. UNCHANGED <<ctx, made, sock, tq, cq, mq, shown, rush, excused, lostPing>>
      BY <1>5 DEF BlockTransactions
    <2>4. Queues' /\ Sockets' /\ Stopped' /\ Counts' /\ Reconnection' /\ Watching' /\ Updating'
      BY <2>3 DEF IndInv, Queues, Sockets, Live, Stopped, Counts, Reconnection, Watching, Updating,
                  Ending
    <2> QED
      BY <2>2, <2>4 DEF IndInv
  <1>6. CASE UnblockTransactions
    <2>1. canAsk' \in BOOLEAN
      BY <1>6, Zenon DEF UnblockTransactions
    <2>2. Types'
      BY <1>6, <2>1 DEF UnblockTransactions, IndInv, Types
    <2>3. Fits(Block("needs", 0, 0), sock, made)
      BY <1>1 DEF Fits, Block, Blocks, Kinds
    <2> QED
      BY <1>6, <2>2, <2>3, PostStep DEF UnblockTransactions, Post, Block
  <1>7. CASE Disturb
    <2>1. Types'
      BY <1>2, <1>7 DEF Disturb, Fault, IndInv, Types
    <2>2. PICK k \in {"session", "network"}, n \in {0, 1} : tq' = Append(tq, Block(k, n, 0))
      BY <1>7 DEF Disturb, Post
    <2>3. Fits(Block(k, n, 0), sock, made)
      BY <1>1 DEF Fits, Block, Blocks, Kinds
    <2> QED
      BY <1>7, <2>1, <2>2, <2>3, PostStep DEF Disturb, Block
  <1>8. CASE ServerRestarts
    <2>1. Types'
      BY <1>2, <1>8 DEF ServerRestarts, Fault, IndInv, Types
    <2>2. Fits(Block("newSession", 0, 0), sock, made)
      BY <1>1 DEF Fits, Block, Blocks, Kinds
    <2> QED
      BY <1>8, <2>1, <2>2, PostStep DEF ServerRestarts, Post, Block
  <1>9. CASE RequestStop
    <2>1. Types'
      BY <1>2, <1>9 DEF RequestStop, Fault, IndInv, Types
    <2>2. Fits(Block("stop", 0, 0), sock, made)
      BY <1>1 DEF Fits, Block, Blocks, Kinds
    <2> QED
      BY <1>9, <2>1, <2>2, PostStep DEF RequestStop, Post, Block
  <1>10. ASSUME NEW c \in Conns, sock[c] = "open", NEW p \in 0..MaxPings
         PROVE  Fits(Block("data", c, p), sock, made)
    <2>1. c <= made
      BY <1>10 DEF IndInv, Types, Sockets, Conns
    <2> QED
      BY <1>1, <1>10, <2>1 DEF Fits, Block, Blocks, Kinds, Conns
  <1>11. ASSUME NEW c \in Conns, Pong(c) PROVE IndInv'
    <2>1. PICK a \in asked : asked' = asked \ {a} /\ tq' = Append(tq, Block("data", c, a[2]))
      BY <1>11 DEF Pong, Post
    <2>2. a[2] \in 0..MaxPings
      BY <2>1, <1>1 DEF IndInv, Types
    <2>3. Fits(Block("data", c, a[2]), sock, made)
      BY <1>10, <1>11, <2>2 DEF Pong
    <2>4. Types'
      BY <1>11, <2>1 DEF Pong, IndInv, Types
    <2> QED
      BY <1>11, <2>1, <2>3, <2>4, PostStep DEF Pong, Block
  <1>12. ASSUME NEW c \in Conns, ServerData(c) PROVE IndInv'
    <2>1. Types'
      BY <1>3, <1>12 DEF ServerData, IndInv, Types
    <2>2. Fits(Block("data", c, 0), sock, made)
      BY <1>1, <1>10, <1>12 DEF ServerData
    <2> QED
      BY <1>12, <2>1, <2>2, PostStep DEF ServerData, Post, Block
  <1> QED
    BY <1>4, <1>5, <1>6, <1>7, <1>8, <1>9, <1>11, <1>12

-----------------------------------------------------------------------------
(* tcpQueue takes its next block. *)
LEMMA ConnectionTaken ==
  ASSUME IndInv, NEW k, Take(cq, k), cq' = Tail(cq)
  PROVE  /\ QueueOK(cq', sock, made) /\ StartsFirst(cq') /\ Head(cq) = cq[1] /\ cq[1].k = k
         /\ Fits(cq[1], sock, made)
         /\ \A l, d : Has(cq, l, d) <=> Has(cq', l, d) \/ (l = k /\ d = cq[1].n)
         /\ k \in {"start", "close", "write"} => ~Has(cq', "start", cq[1].n)
  <1>1. QueueOK(cq, sock, made) /\ StartsFirst(cq)
    BY DEF IndInv, Queues
  <1>2. /\ QueueOK(Tail(cq), sock, made) /\ StartsFirst(Tail(cq)) /\ Head(cq) = cq[1]
        /\ cq[1].k = k /\ Fits(cq[1], sock, made)
    BY <1>1, TakenFacts
  <1>3. \A l, d : Has(cq, l, d) <=> Has(Tail(cq), l, d) \/ (l = k /\ d = cq[1].n)
    BY <1>1, TakenFacts
  <1>4. k \in {"start", "close", "write"} => ~Has(Tail(cq), "start", cq[1].n)
    BY <1>1, TakenFacts
  <1> QED
    BY <1>2, <1>3, <1>4

(* startSocket, on tcpQueue. *)
LEMMA StartStep ==
  ASSUME IndInv, ConnectionStart
  PROVE  IndInv'
  <1> DEFINE c == cq[1].n
  <1>1. /\ QueueOK(cq', sock, made) /\ StartsFirst(cq') /\ ~Has(cq', "start", c)
        /\ c \in Conns /\ c <= made /\ Has(cq, "start", c)
        /\ \A l, d : Has(cq, l, d) <=> Has(cq', l, d) \/ (l = "start" /\ d = c)
        /\ sock' = [sock EXCEPT ![c] = "starting"]
        /\ UNCHANGED <<ctx, made, tq, mq, pings, asked, canAsk, shown, faults, chatter, rush,
                       excused, lostPing>>
    <2>1. QueueOK(cq, sock, made) /\ Take(cq, "start") /\ StartsFirst(cq) /\ cq' = Tail(cq)
      BY DEF ConnectionStart, IndInv, Queues
    <2>2. /\ QueueOK(cq', sock, made) /\ StartsFirst(cq') /\ ~Has(cq', "start", c)
          /\ \A l, d : Has(cq, l, d) <=> Has(cq', l, d) \/ (l = "start" /\ d = c)
          /\ Head(cq) = cq[1] /\ cq[1].k = "start" /\ Fits(cq[1], sock, made)
      BY <2>1, ConnectionTaken
    <2>3. c \in Conns /\ c <= made
      BY <2>2 DEF Fits
    <2> QED
      BY <2>2, <2>3 DEF ConnectionStart
  <1>2. sock[c] = "none"
    BY <1>1 DEF IndInv, Sockets
  <1> HIDE DEF c
  <1>3. Types'
    BY <1>1 DEF IndInv, Types
  <1>4. Queues'
    <2>1. QueueOK(tq, sock', made) /\ QueueOK(cq', sock', made) /\ QueueOK(mq, sock', made)
      BY <1>1, <1>2, SocketMoves DEF IndInv, Types, Queues
    <2> QED
      BY <1>1, <2>1 DEF IndInv, Queues
  <1>5. \A d \in Conns : sock'[d] = IF d = c THEN "starting" ELSE sock[d]
    BY <1>1 DEF IndInv, Types
  <1>6. Sockets' /\ Stopped'
    <2>1. made \in Nat
      BY TransportAssumption DEF IndInv, Types
    <2> QED
      BY <1>1, <1>2, <1>5, <2>1 DEF IndInv, Sockets, Stopped, Live, Conns
  <1>7. Counts'
    BY <1>1 DEF IndInv, Counts
  <1>8. ctx.conn # 0 => ctx.conn \in Conns
    BY DEF IndInv, Types, Contexts
  <1>9. Reconnection' /\ Watching'
    BY <1>1, <1>2, <1>5, <1>8 DEF IndInv, Reconnection, Watching
  <1>10. Updating'
    BY <1>1, <1>2, <1>5, <1>8 DEF IndInv, Updating, Ending
  <1> QED
    BY <1>3, <1>4, <1>6, <1>7, <1>9, <1>10 DEF IndInv

(* A connection closes and the transport will be told, once. *)
LEMMA CloseKeeps ==
  ASSUME IndInv, NEW c \in Conns, c <= made, CloseAndNotify(c), ~Has(cq', "start", c),
         QueueOK(cq', sock, made), StartsFirst(cq'),
         \A d \in Conns : /\ Has(cq', "start", d) => Has(cq, "start", d)
                          /\ d # c => (Has(cq, "close", d) => Has(cq', "close", d)),
         \A d : Has(cq, "write", d) => Has(cq', "write", d),
         faults' \in 0..MaxFaults,
         UNCHANGED <<ctx, made, mq, pings, asked, canAsk, shown, chatter, rush, excused, lostPing>>
  PROVE  IndInv'
  <1> DEFINE b == Block("closed", c, 0)
  <1>1. /\ sock' = [sock EXCEPT ![c] = "closed"]
        /\ \A d \in Conns : sock'[d] = IF d = c THEN "closed" ELSE sock[d]
    BY DEF CloseAndNotify, IndInv, Types
  <1>2. Types'
    BY <1>1 DEF IndInv, Types
  <1>3. b.k = "closed" /\ b.n = c /\ Fits(b, sock', made)
    BY <1>1, TransportAssumption DEF Fits, Block, Blocks, Kinds, Conns
  <1> HIDE DEF b
  <1>4. QueueOK(tq, sock', made) /\ QueueOK(cq', sock', made) /\ QueueOK(mq, sock', made)
    BY <1>1, SocketMoves DEF IndInv, Types, Queues
  <1>5. /\ QueueOK(tq', sock', made) /\ OpensFirst(tq')
        /\ \A l, d : Has(tq', l, d) <=>
             Has(tq, l, d) \/ (l = "closed" /\ d = c /\ sock[c] # "closed")
    <2>1. CASE sock[c] = "closed"
      BY <1>4, <2>1 DEF CloseAndNotify, IndInv, Queues
    <2>2. CASE sock[c] # "closed"
      <3>1. tq' = Append(tq, b)
        BY <2>2 DEF CloseAndNotify, b
      <3>2. OpensFirst(tq)
        BY DEF IndInv, Queues
      <3> QED
        BY <1>3, <1>4, <2>2, <3>1, <3>2, PostedFacts
    <2> QED
      BY <2>1, <2>2
  <1>6. Queues'
    BY <1>4, <1>5 DEF Queues
  <1>7. Sockets' /\ Stopped'
    <2>1. made \in Nat
      BY TransportAssumption DEF IndInv, Types
    <2> QED
      BY <1>1, <2>1 DEF IndInv, Sockets, Stopped, Live, Conns
  <1>8. Counts'
    BY DEF IndInv, Counts
  <1>9. ctx.conn # 0 => ctx.conn \in Conns
    BY DEF IndInv, Types, Contexts
  <1>10. Reconnection' /\ Watching'
    BY <1>1, <1>5, <1>9 DEF IndInv, Reconnection, Watching
  <1>11. Updating'
    BY <1>1, <1>5, <1>9 DEF IndInv, Updating, Ending
  <1> QED
    BY <1>2, <1>6, <1>7, <1>8, <1>10, <1>11 DEF IndInv

(* stop of a connection, on tcpQueue. *)
LEMMA StopConnectionStep ==
  ASSUME IndInv, ConnectionStop
  PROVE  IndInv'
  <1> DEFINE c == cq[1].n
  <1>1. QueueOK(cq, sock, made) /\ Take(cq, "close") /\ StartsFirst(cq)
    BY DEF ConnectionStop, IndInv, Queues
  <1>2. /\ QueueOK(cq', sock, made) /\ StartsFirst(cq') /\ ~Has(cq', "start", c)
        /\ \A l, d : Has(cq, l, d) <=> Has(cq', l, d) \/ (l = "close" /\ d = c)
        /\ c \in Conns /\ c <= made /\ CloseAndNotify(c)
    BY <1>1, ConnectionTaken DEF ConnectionStop, Fits
  <1> HIDE DEF c
  <1>3. faults' \in 0..MaxFaults
    BY DEF ConnectionStop, IndInv, Types
  <1>4. UNCHANGED <<ctx, made, mq, pings, asked, canAsk, shown, chatter, rush, excused, lostPing>>
    BY DEF ConnectionStop
  <1> QED
    BY <1>2, <1>3, <1>4, CloseKeeps

(* A socket fails. *)
LEMMA SocketFailsStep ==
  ASSUME IndInv, NEW c \in Conns, SocketFails(c)
  PROVE  IndInv'
  <1>1. /\ sock[c] \in {"starting", "open"} /\ CloseAndNotify(c) /\ cq' = cq
        /\ UNCHANGED <<ctx, made, mq, pings, asked, canAsk, shown, chatter, rush, excused, lostPing>>
    BY DEF SocketFails
  <1>2. faults' \in 0..MaxFaults
    BY TransportAssumption DEF SocketFails, Fault, IndInv, Types
  <1>3. c <= made /\ ~Has(cq, "start", c)
    BY <1>1 DEF IndInv, Types, Sockets, Conns
  <1>4. QueueOK(cq', sock, made) /\ StartsFirst(cq')
    BY <1>1 DEF IndInv, Queues
  <1> QED
    BY <1>1, <1>2, <1>3, <1>4, CloseKeeps

(* A socket opens: the transport will hear of it before anything else. *)
LEMMA SocketOpensStep ==
  ASSUME IndInv, NEW c \in Conns, SocketOpens(c)
  PROVE  IndInv'
  <1> DEFINE b == Block("opened", c, 0)
  <1>1. /\ sock[c] = "starting" /\ sock' = [sock EXCEPT ![c] = "open"] /\ tq' = Append(tq, b)
        /\ UNCHANGED <<ctx, made, cq, mq, pings, asked, canAsk, shown, faults, chatter, rush,
                       excused, lostPing>>
    BY DEF SocketOpens, Post
  <1>2. \A d \in Conns : sock'[d] = IF d = c THEN "open" ELSE sock[d]
    BY <1>1 DEF IndInv, Types
  <1>3. Types'
    BY <1>1 DEF IndInv, Types
  <1>4. c <= made
    BY <1>1 DEF IndInv, Types, Sockets, Conns
  <1>5. b.k = "opened" /\ b.n = c /\ Fits(b, sock', made)
    BY <1>2, <1>4, TransportAssumption DEF Fits, Block, Blocks, Kinds, Conns
  <1> HIDE DEF b
  <1>6. QueueOK(tq, sock', made) /\ QueueOK(cq, sock', made) /\ QueueOK(mq, sock', made)
    BY <1>1, SocketMoves DEF IndInv, Types, Queues
  <1>7. /\ QueueOK(tq', sock', made) /\ OpensFirst(tq')
        /\ \A l, d : Has(tq', l, d) <=> Has(tq, l, d) \/ (l = "opened" /\ d = c)
    <2>1. OpensFirst(tq) /\ ~Has(tq, "valid", c)
      BY <1>1, HasFacts DEF IndInv, Queues
    <2> QED
      BY <1>1, <1>5, <1>6, <2>1, PostedFacts
  <1>8. Queues'
    BY <1>1, <1>6, <1>7 DEF IndInv, Queues
  <1>9. Sockets' /\ Stopped'
    <2>1. made \in Nat
      BY TransportAssumption DEF IndInv, Types
    <2> QED
      BY <1>1, <1>2, <1>4, <2>1 DEF IndInv, Sockets, Stopped, Live, Conns
  <1>10. Counts'
    BY <1>1 DEF IndInv, Counts
  <1>11. ctx.conn # 0 => ctx.conn \in Conns
    BY DEF IndInv, Types, Contexts
  <1>12. Reconnection' /\ Watching'
    BY <1>1, <1>2, <1>7, <1>11 DEF IndInv, Reconnection, Watching
  <1>13. Updating'
    BY <1>1, <1>2, <1>7, <1>11 DEF IndInv, Updating, Ending
  <1> QED
    BY <1>3, <1>8, <1>9, <1>10, <1>12, <1>13 DEF IndInv

(* sendDatas: a ping that is written will be reported as sent, and one for *)
(* a connection that is closed is not for this one, or it is not open.     *)
LEMMA SendStep ==
  ASSUME IndInv, SendDatas
  PROVE  IndInv'
  <1> DEFINE c == cq[1].n
             p == cq[1].p
             b == Block("sent", 0, p)
  <1>1. QueueOK(cq, sock, made) /\ Take(cq, "write") /\ StartsFirst(cq) /\ cq' = Tail(cq)
    BY DEF SendDatas, IndInv, Queues
  <1>2. /\ QueueOK(cq', sock, made) /\ StartsFirst(cq')
        /\ \A l, d : Has(cq, l, d) <=> Has(cq', l, d) \/ (l = "write" /\ d = c)
        /\ Head(cq) = cq[1] /\ cq[1].k = "write" /\ Fits(cq[1], sock, made)
    BY <1>1, ConnectionTaken
  <1>3. /\ c \in Conns /\ p \in 1..MaxPings
        /\ \/ Live(c) /\ asked' = asked \cup {<<c, p>>} /\ mq' = Append(mq, b)
           \/ ~Live(c) /\ UNCHANGED <<asked, mq>>
        /\ UNCHANGED <<ctx, made, sock, tq, pings, canAsk, shown, faults, chatter, rush, excused,
                       lostPing>>
    BY <1>2, TransportAssumption DEF SendDatas, Fits, Blocks, Live
  <1>4. b.k = "sent" /\ b.n = 0 /\ Fits(b, sock, made)
    BY <1>3, TransportAssumption DEF Fits, Block, Blocks, Kinds
  <1> HIDE DEF b, c, p
  <1>5. Types'
    <2>1. asked' \subseteq Conns \X (1..MaxPings)
      BY <1>3 DEF IndInv, Types
    <2> QED
      BY <1>3, <2>1 DEF IndInv, Types
  <1>6. /\ QueueOK(mq', sock, made)
        /\ Live(c) => Has(mq', "sent", 0)
        /\ \A l, d : Has(mq, l, d) => Has(mq', l, d)
        /\ Shows(mq', shown) => Shows(mq, shown)
    <2>1. QueueOK(mq, sock, made) /\ shown \in BOOLEAN
      BY DEF IndInv, Queues, Types
    <2>2. CASE Live(c) /\ mq' = Append(mq, b)
      BY <1>4, <2>1, <2>2, PostedFacts, ShowsPosted
    <2>3. CASE ~Live(c) /\ mq' = mq
      BY <2>1, <2>3
    <2> QED
      BY <1>3, <2>2, <2>3
  <1>7. Queues' /\ Sockets' /\ Stopped' /\ Counts' /\ Reconnection'
    <2>1. Kept(ctx, ctx') /\ (ctx.stopped => ~ctx'.connected)
      BY <1>3 DEF Kept, IndInv, Stopped
    <2>2. QueueOK(tq', sock, made) /\ OpensFirst(tq')
      BY <1>3 DEF IndInv, Queues
    <2> QED
      BY <1>2, <1>3, <1>6, <2>1, <2>2, Calm
  <1>8. Watching'
    BY <1>3 DEF IndInv, Watching
  <1>9. Updating'
    BY <1>2, <1>3, <1>6 DEF IndInv, Updating, Ending, Live
  <1> QED
    BY <1>5, <1>7, <1>8, <1>9 DEF IndInv

-----------------------------------------------------------------------------
(* The manager queue takes its next block. *)
LEMMA ManagerTaken ==
  ASSUME IndInv, NEW k, Take(mq, k), mq' = Tail(mq)
  PROVE  /\ QueueOK(mq', sock, made) /\ Dropped(mq', mq) /\ Head(mq) = mq[1] /\ mq[1].k = k
         /\ Fits(mq[1], sock, made)
         /\ \A l, d : Has(mq, l, d) <=> Has(mq', l, d) \/ (l = k /\ d = mq[1].n)
  <1>1. QueueOK(mq, sock, made)
    BY DEF IndInv, Queues
  <1>2. /\ QueueOK(Tail(mq), sock, made) /\ Dropped(Tail(mq), mq) /\ Head(mq) = mq[1]
        /\ mq[1].k = k /\ Fits(mq[1], sock, made)
    BY <1>1, TakenFacts
  <1>3. \A l, d : Has(mq, l, d) <=> Has(Tail(mq), l, d) \/ (l = k /\ d = mq[1].n)
    BY <1>1, TakenFacts
  <1> QED
    BY <1>2, <1>3

(* A block of the manager queue runs: it may post to the transport queue.  *)
LEMMA ManagerKeeps ==
  ASSUME IndInv, Types', Updating',
         QueueOK(mq', sock, made), QueueOK(tq', sock, made), OpensFirst(tq'),
         \A l, d : Has(tq, l, d) => Has(tq', l, d),
         \A d : Has(tq', "opened", d) => Has(tq, "opened", d),
         UNCHANGED <<ctx, made, sock, cq, rush, excused>>
  PROVE  IndInv'
  <1>1. Kept(ctx, ctx') /\ (ctx.stopped => ~ctx'.connected)
    BY DEF Kept, IndInv, Stopped
  <1>2. QueueOK(cq', sock, made) /\ StartsFirst(cq')
    BY DEF IndInv, Queues
  <1>3. Queues' /\ Sockets' /\ Stopped' /\ Counts' /\ Reconnection'
    BY <1>1, <1>2, Calm
  <1>4. Watching'
    BY DEF IndInv, Watching
  <1> QED
    BY <1>3, <1>4 DEF IndInv

(* transportReadyForTransaction: the ping goes into the transaction, or    *)
(* MTProto has refused it.                                                 *)
LEMMA ReadyForTransactionStep ==
  ASSUME IndInv, TransportReadyForTransaction
  PROVE  IndInv'
  <1>1. QueueOK(mq, sock, made) /\ Take(mq, "transaction") /\ mq' = Tail(mq) /\ shown \in BOOLEAN
    BY DEF TransportReadyForTransaction, IndInv, Queues, Types
  <1>2. /\ QueueOK(mq', sock, made) /\ Dropped(mq', mq) /\ Head(mq) = mq[1] /\ mq[1].k = "transaction"
        /\ Fits(mq[1], sock, made)
        /\ \A l, d : Has(mq, l, d) <=> Has(mq', l, d) \/ (l = "transaction" /\ d = mq[1].n)
    BY <1>1, ManagerTaken
  <1>3. Shows(mq', shown) => Shows(mq, shown)
    BY <1>1, <1>2, ShowsTaken
  <1> DEFINE ping == mq[1].n = 1
             b == IF ping /\ canAsk THEN Block("ready", 1, pings + 1) ELSE Block("ready", 0, 0)
  <1>4. /\ ping /\ canAsk => pings < MaxPings
        /\ pings' = IF ping /\ canAsk THEN pings + 1 ELSE pings
        /\ tq' = Append(tq, b)
        /\ UNCHANGED <<ctx, made, sock, cq, asked, canAsk, shown, faults, chatter, rush, excused>>
    BY <1>2 DEF TransportReadyForTransaction, Post
  <1>5. lostPing' = IF ping THEN ~canAsk ELSE lostPing
    BY <1>2, Zenon DEF TransportReadyForTransaction
  <1>6. Types'
    <2>1. lostPing' \in BOOLEAN
      BY <1>5, Zenon DEF IndInv, Types
    <2>2. pings' \in 0..MaxPings
      BY <1>4, TransportAssumption DEF IndInv, Types
    <2> QED
      BY <1>4, <2>1, <2>2 DEF IndInv, Types
  <1>7. b.k = "ready" /\ Fits(b, sock, made) /\ (ping /\ canAsk => b.n = 1)
    <2>1. MaxConnections \in Nat /\ MaxConnections >= 1 /\ MaxPings \in Nat /\ pings \in 0..MaxPings
      BY TransportAssumption DEF IndInv, Types
    <2>2. CASE ping /\ canAsk
      <3>1. b = Block("ready", 1, pings + 1) /\ pings + 1 \in 0..MaxPings /\ pings + 1 # 0
        BY <1>4, <2>1, <2>2
      <3> QED
        BY <2>1, <3>1 DEF Fits, Block, Blocks, Kinds
    <2>3. CASE ~(ping /\ canAsk)
      <3>1. b = Block("ready", 0, 0)
        BY <2>3
      <3> QED
        BY <2>1, <2>3, <3>1 DEF Fits, Block, Blocks, Kinds
    <2> QED
      BY <2>2, <2>3
  <1> HIDE DEF b
  <1>8. /\ QueueOK(tq', sock, made) /\ OpensFirst(tq')
        /\ \A l, d : Has(tq', l, d) <=> Has(tq, l, d) \/ (l = "ready" /\ d = b.n)
    <2>1. QueueOK(tq, sock, made) /\ OpensFirst(tq)
      BY DEF IndInv, Queues
    <2> QED
      BY <1>4, <1>7, <2>1, PostedFacts
  <1>9. Updating'
    <2> SUFFICES ASSUME Ending PROVE Ending'
      BY <1>3, <1>4 DEF IndInv, Updating
    <2>1. CASE ping /\ canAsk
      BY <1>7, <1>8, <2>1 DEF Ending
    <2>2. CASE ping /\ ~canAsk
      BY <1>5, <2>2 DEF Ending
    <2>3. CASE ~ping
      BY <1>2, <1>4, <1>5, <1>8, <2>3 DEF Ending
    <2> QED
      BY <2>1, <2>2, <2>3
  <1> QED
    BY <1>2, <1>4, <1>6, <1>8, <1>9, ManagerKeeps

(* transportHasIncomingData: the transport hears that the connection is    *)
(* valid, and of the pong.                                                 *)
LEMMA IncomingStep ==
  ASSUME IndInv, TransportHasIncomingData
  PROVE  IndInv'
  <1> DEFINE c == mq[1].n
             p == mq[1].p
             a == Block("valid", c, 0)
             b == Block("pong", 0, p)
             q == Append(tq, a)
  <1>1. QueueOK(mq, sock, made) /\ Take(mq, "incoming") /\ mq' = Tail(mq) /\ shown \in BOOLEAN
    BY DEF TransportHasIncomingData, IndInv, Queues, Types
  <1>2. /\ QueueOK(mq', sock, made) /\ Dropped(mq', mq) /\ Head(mq) = mq[1] /\ mq[1].k = "incoming"
        /\ Fits(mq[1], sock, made)
        /\ \A l, d : Has(mq, l, d) <=> Has(mq', l, d) \/ (l = "incoming" /\ d = mq[1].n)
    BY <1>1, ManagerTaken
  <1>3. Shows(mq', shown) => Shows(mq, shown)
    BY <1>1, <1>2, ShowsTaken
  <1>4. /\ a.k = "valid" /\ Fits(a, sock, made)
        /\ b.k = "pong" /\ Fits(b, sock, made)
    BY <1>2, TransportAssumption DEF Fits, Block, Blocks, Kinds, Conns
  <1>5. QueueOK(tq, sock, made) /\ OpensFirst(tq) /\ tq \in Seq(Blocks) /\ a \in Blocks /\ b \in Blocks
    BY <1>4 DEF IndInv, Queues, QueueOK, Fits
  <1>6. /\ tq' = tq \o <<a>> \o (IF p = 0 THEN <<>> ELSE <<b>>)
        /\ UNCHANGED <<ctx, made, sock, cq, pings, asked, canAsk, shown, faults, chatter, rush,
                       excused, lostPing>>
    BY <1>2 DEF TransportHasIncomingData
  <1> HIDE DEF a, b, p
  <1>7. tq' = q \/ tq' = Append(q, b)
    <2>1. tq \o <<a>> = q /\ q \in Seq(Blocks)
      BY <1>5, AppendIsConcat
    <2> HIDE DEF q
    <2>2. q \o <<>> = q /\ q \o <<b>> = Append(q, b)
      BY <1>5, <2>1, AppendIsConcat, ConcatEmptySeq
    <2> QED
      BY <1>6, <2>1, <2>2
  <1>8. /\ QueueOK(q, sock, made) /\ OpensFirst(q)
        /\ \A l, d : Has(q, l, d) <=> Has(tq, l, d) \/ (l = "valid" /\ d = a.n)
    BY <1>4, <1>5, PostedFacts
  <1> HIDE DEF q
  <1>9. /\ QueueOK(tq', sock, made) /\ OpensFirst(tq')
        /\ \A l, d : Has(tq, l, d) => Has(tq', l, d)
        /\ \A d : Has(tq', "opened", d) => Has(tq, "opened", d)
    <2>1. CASE tq' = q
      BY <1>8, <2>1
    <2>2. CASE tq' = Append(q, b)
      <3>1. /\ QueueOK(tq', sock, made) /\ OpensFirst(tq')
            /\ \A l, d : Has(tq', l, d) <=> Has(q, l, d) \/ (l = "pong" /\ d = b.n)
        BY <1>4, <1>8, <2>2, PostedFacts
      <3> QED
        BY <1>8, <3>1
    <2> QED
      BY <1>7, <2>1, <2>2
  <1>10. Types'
    BY <1>6 DEF IndInv, Types
  <1>11. Updating'
    <2> SUFFICES ASSUME Ending PROVE Ending'
      BY <1>3, <1>6 DEF IndInv, Updating
    <2>1. /\ Has(mq, "transaction", 1) => Has(mq', "transaction", 1)
          /\ Has(mq, "sent", 0) => Has(mq', "sent", 0)
      BY <1>2
    <2> QED
      BY <1>6, <1>9, <2>1 DEF Ending
  <1> QED
    BY <1>2, <1>6, <1>9, <1>10, <1>11, ManagerKeeps

(* Data that is not valid: the transport is reset. *)
LEMMA InvalidStep ==
  ASSUME IndInv, TransportHasInvalidData
  PROVE  IndInv'
  <1> DEFINE b == Block("network", 0, 0)
  <1>1. QueueOK(mq, sock, made) /\ Take(mq, "incoming") /\ mq' = Tail(mq) /\ shown \in BOOLEAN
    BY DEF TransportHasInvalidData, IndInv, Queues, Types
  <1>2. /\ QueueOK(mq', sock, made) /\ Dropped(mq', mq) /\ Head(mq) = mq[1] /\ mq[1].k = "incoming"
        /\ \A l, d : Has(mq, l, d) <=> Has(mq', l, d) \/ (l = "incoming" /\ d = mq[1].n)
    BY <1>1, ManagerTaken
  <1>3. Shows(mq', shown) => Shows(mq, shown)
    BY <1>1, <1>2, ShowsTaken
  <1>4. b.k = "network" /\ b.n = 0 /\ Fits(b, sock, made)
    BY TransportAssumption DEF Fits, Block, Blocks, Kinds
  <1>5. /\ tq' = Append(tq, b) /\ faults < MaxFaults /\ faults' = faults + 1
        /\ UNCHANGED <<ctx, made, sock, cq, pings, asked, canAsk, shown, chatter, rush, excused,
                       lostPing>>
    BY DEF TransportHasInvalidData, Post, Fault
  <1> HIDE DEF b
  <1>6. /\ QueueOK(tq', sock, made) /\ OpensFirst(tq')
        /\ \A l, d : Has(tq', l, d) <=> Has(tq, l, d) \/ (l = "network" /\ d = 0)
    <2>1. QueueOK(tq, sock, made) /\ OpensFirst(tq)
      BY DEF IndInv, Queues
    <2> QED
      BY <1>4, <1>5, <2>1, PostedFacts
  <1>7. Types'
    BY <1>5, TransportAssumption DEF IndInv, Types
  <1>8. Updating'
    BY <1>2, <1>3, <1>5, <1>6 DEF IndInv, Updating, Ending
  <1> QED
    BY <1>2, <1>5, <1>6, <1>7, <1>8, ManagerKeeps

(* The completion of the transaction with the ping. *)
LEMMA CompletedStep ==
  ASSUME IndInv, TransactionCompleted
  PROVE  IndInv'
  <1> DEFINE b == Block("pingSent", 0, mq[1].p)
  <1>1. QueueOK(mq, sock, made) /\ Take(mq, "sent") /\ mq' = Tail(mq) /\ shown \in BOOLEAN
    BY DEF TransactionCompleted, IndInv, Queues, Types
  <1>2. /\ QueueOK(mq', sock, made) /\ Dropped(mq', mq) /\ Head(mq) = mq[1] /\ mq[1].k = "sent"
        /\ Fits(mq[1], sock, made)
        /\ \A l, d : Has(mq, l, d) <=> Has(mq', l, d) \/ (l = "sent" /\ d = mq[1].n)
    BY <1>1, ManagerTaken
  <1>3. Shows(mq', shown) => Shows(mq, shown)
    BY <1>1, <1>2, ShowsTaken
  <1>4. b.k = "pingSent" /\ b.n = 0 /\ Fits(b, sock, made)
    BY <1>2, TransportAssumption DEF Fits, Block, Blocks, Kinds
  <1>5. /\ tq' = Append(tq, b)
        /\ UNCHANGED <<ctx, made, sock, cq, pings, asked, canAsk, shown, faults, chatter, rush,
                       excused, lostPing>>
    BY <1>2 DEF TransactionCompleted, Post
  <1> HIDE DEF b
  <1>6. /\ QueueOK(tq', sock, made) /\ OpensFirst(tq')
        /\ \A l, d : Has(tq', l, d) <=> Has(tq, l, d) \/ (l = "pingSent" /\ d = 0)
    <2>1. QueueOK(tq, sock, made) /\ OpensFirst(tq)
      BY DEF IndInv, Queues
    <2> QED
      BY <1>4, <1>5, <2>1, PostedFacts
  <1>7. Types'
    BY <1>5 DEF IndInv, Types
  <1>8. Updating'
    BY <1>2, <1>3, <1>5, <1>6 DEF IndInv, Updating, Ending
  <1> QED
    BY <1>2, <1>5, <1>6, <1>7, <1>8, ManagerKeeps

(* MTProto is told that its connection context is updating, or not. *)
LEMMA ContextUpdateStep ==
  ASSUME IndInv, ConnectionContextUpdateStateChanged
  PROVE  IndInv'
  <1>1. QueueOK(mq, sock, made) /\ Take(mq, "updating") /\ mq' = Tail(mq) /\ shown \in BOOLEAN
    BY DEF ConnectionContextUpdateStateChanged, IndInv, Queues, Types
  <1>2. /\ QueueOK(mq', sock, made) /\ Dropped(mq', mq) /\ Head(mq) = mq[1] /\ mq[1].k = "updating"
        /\ Fits(mq[1], sock, made)
        /\ \A l, d : Has(mq, l, d) <=> Has(mq', l, d) \/ (l = "updating" /\ d = mq[1].n)
    BY <1>1, ManagerTaken
  <1>3. shown' = (mq[1].n = 1) /\ shown' \in BOOLEAN
    <2>1. shown' = (Head(mq).n = 1)
      BY Zenon DEF ConnectionContextUpdateStateChanged
    <2>2. shown' = (mq[1].n = 1)
      BY <1>2, <2>1, Zenon
    <2> QED
      BY <2>2, Zenon
  <1>4. UNCHANGED <<ctx, made, sock, tq, cq, pings, asked, canAsk, faults, chatter, rush, excused,
                    lostPing>>
    BY DEF ConnectionContextUpdateStateChanged
  <1>5. Shows(mq', mq[1].n = 1) => Shows(mq, shown)
    BY <1>1, <1>2, ShowsTaken
  <1>6. Shows(mq', shown') => Shows(mq, shown)
    BY <1>3, <1>5, Zenon
  <1>7. Types'
    BY <1>3, <1>4 DEF IndInv, Types
  <1>8. Updating'
    BY <1>2, <1>4, <1>6 DEF IndInv, Updating, Ending
  <1>9. QueueOK(tq', sock, made) /\ OpensFirst(tq')
    BY <1>4 DEF IndInv, Queues
  <1> QED
    BY <1>2, <1>4, <1>7, <1>8, <1>9, ManagerKeeps

-----------------------------------------------------------------------------
(* The transport queue takes its next block. *)
LEMMA TransportTaken ==
  ASSUME IndInv, NEW k, Take(tq, k), tq' = Tail(tq)
  PROVE  /\ QueueOK(tq', sock, made) /\ OpensFirst(tq') /\ Head(tq) = tq[1] /\ tq[1].k = k
         /\ Fits(tq[1], sock, made)
         /\ \A l, d : Has(tq, l, d) <=> Has(tq', l, d) \/ (l = k /\ d = tq[1].n)
         /\ k = "valid" => ~Has(tq', "opened", tq[1].n)
  <1>1. QueueOK(tq, sock, made) /\ OpensFirst(tq)
    BY DEF IndInv, Queues
  <1>2. /\ QueueOK(Tail(tq), sock, made) /\ OpensFirst(Tail(tq)) /\ Head(tq) = tq[1]
        /\ tq[1].k = k /\ Fits(tq[1], sock, made)
    BY <1>1, TakenFacts
  <1>3. \A l, d : Has(tq, l, d) <=> Has(Tail(tq), l, d) \/ (l = k /\ d = tq[1].n)
    BY <1>1, TakenFacts
  <1>4. k = "valid" => ~Has(Tail(tq), "opened", tq[1].n)
    BY <1>1, TakenFacts
  <1> QED
    BY <1>2, <1>3, <1>4

(* The transport posts to MTProto's queue. *)
LEMMA ManagerPosted ==
  ASSUME IndInv, NEW b, Fits(b, sock, made), mq' = Append(mq, b), shown' = shown
  PROVE  /\ QueueOK(mq', sock, made)
         /\ \A l, d : Has(mq', l, d) <=> Has(mq, l, d) \/ (l = b.k /\ d = b.n)
         /\ b.k # "updating" => (Shows(mq', shown') => Shows(mq, shown))
         /\ b.k = "updating" /\ b.n # 1 => ~Shows(mq', shown')
  <1>1. QueueOK(mq, sock, made) /\ shown \in BOOLEAN
    BY DEF IndInv, Queues, Types
  <1>2. /\ QueueOK(mq', sock, made) /\ Added(mq', mq, b)
        /\ \A l, d : Has(mq', l, d) <=> Has(mq, l, d) \/ (l = b.k /\ d = b.n)
    BY <1>1, PostedFacts
  <1>3. /\ b.k # "updating" => (Shows(mq', shown) => Shows(mq, shown))
        /\ b.k = "updating" => (Shows(mq', shown) => b.n = 1)
    BY <1>1, <1>2, ShowsPosted
  <1> QED
    BY <1>2, <1>3

(* A block of the transport queue that leaves the connections alone. *)
LEMMA QuietKeeps ==
  ASSUME IndInv, ctx' \in Contexts, Kept(ctx, ctx'), ctx.stopped => ~ctx'.connected,
         QueueOK(tq', sock, made), QueueOK(cq', sock, made), QueueOK(mq', sock, made),
         OpensFirst(tq'), StartsFirst(cq'),
         Has(tq, "closed", ctx.conn) => Has(tq', "closed", ctx.conn),
         \A c \in Conns : /\ Has(cq', "start", c) => Has(cq, "start", c)
                          /\ Has(cq, "close", c) => Has(cq', "close", c),
         Watching', Updating',
         UNCHANGED <<made, sock, pings, asked, canAsk, shown, faults, chatter, rush, excused,
                     lostPing>>
  PROVE  IndInv'
  <1>1. Queues' /\ Sockets' /\ Stopped' /\ Counts' /\ Reconnection'
    BY Calm
  <1>2. Types'
    BY DEF IndInv, Types
  <1> QED
    BY <1>1, <1>2 DEF IndInv

(* A transaction is requested from s, the state in the middle of a block.  *)
LEMMA RequestKeeps ==
  ASSUME IndInv, NEW s \in States, Kept(ctx, s.t), s.m = mq, s.made = made, s.rush = rush,
         NEW late \in BOOLEAN, Done(RequestTransaction(s, late)), shown' = shown
  PROVE  /\ ctx' \in Contexts /\ Kept(ctx, ctx') /\ cq' = s.c /\ made' = made /\ rush' = rush
         /\ ctx'.connected = s.t.connected /\ ctx'.isValid = s.t.isValid /\ ctx'.ping = s.t.ping
         /\ QueueOK(mq', sock, made) /\ \A l, d : Has(mq, l, d) => Has(mq', l, d)
         /\ Shows(mq', shown') => Shows(mq, shown)
         /\ s.t.didSend \/ Has(mq', "transaction", 1)
  <1> DEFINE r == RequestTransaction(s, late)
             b == Block("transaction", IF s.t.didSend THEN 0 ELSE 1, 0)
  <1>1. /\ r.t \in Contexts /\ r.c = s.c /\ r.made = s.made /\ r.rush = s.rush
        /\ r.t.conn = s.t.conn /\ r.t.connected = s.t.connected /\ r.t.stopped = s.t.stopped
        /\ r.t.backoffCount = s.t.backoffCount /\ r.t.backoffTimer = s.t.backoffTimer
        /\ r.t.watchdog = s.t.watchdog /\ r.t.isValid = s.t.isValid /\ r.t.ping = s.t.ping
        /\ (r.m = s.m /\ s.t.didSend) \/ r.m = Append(s.m, b)
    BY RequestedFacts
  <1>2. ctx' = r.t /\ cq' = r.c /\ mq' = r.m /\ made' = r.made /\ rush' = r.rush
    BY DEF Done
  <1>3. /\ b.k = "transaction" /\ (~s.t.didSend => b.n = 1) /\ Fits(b, sock, made)
    BY TransportAssumption DEF Fits, Block, Blocks, Kinds
  <1> HIDE DEF r, b
  <1>4. /\ QueueOK(mq', sock, made) /\ \A l, d : Has(mq, l, d) => Has(mq', l, d)
        /\ Shows(mq', shown') => Shows(mq, shown)
        /\ s.t.didSend \/ Has(mq', "transaction", 1)
    <2>1. CASE mq' = mq /\ s.t.didSend
      BY <2>1 DEF IndInv, Queues
    <2>2. CASE mq' = Append(mq, b)
      BY <1>3, <2>2, ManagerPosted
    <2> QED
      BY <1>1, <1>2, <2>1, <2>2
  <1> QED
    BY <1>1, <1>2, <1>4 DEF Kept

(* Such a block, when it posts nothing to the connections. *)
LEMMA TalkKeeps ==
  ASSUME IndInv, NEW k, Take(tq, k), k = "closed" => tq[1].n # ctx.conn, tq' = Tail(tq), cq' = cq,
         ctx' \in Contexts, Kept(ctx, ctx'), ctx.stopped => ~ctx'.connected,
         k # "opened" \/ tq[1].n # ctx.conn => ctx'.isValid = ctx.isValid,
         QueueOK(mq', sock, made), Updating',
         UNCHANGED <<made, sock, pings, asked, canAsk, shown, faults, chatter, rush, excused,
                     lostPing>>
  PROVE  IndInv'
  <1>1. /\ QueueOK(tq', sock, made) /\ OpensFirst(tq')
        /\ \A l, d : Has(tq, l, d) <=> Has(tq', l, d) \/ (l = k /\ d = tq[1].n)
    BY TransportTaken
  <1>2. QueueOK(cq', sock, made) /\ StartsFirst(cq')
    BY DEF IndInv, Queues
  <1>3. Watching'
    BY <1>1 DEF IndInv, Watching, Kept
  <1> QED
    BY <1>1, <1>2, <1>3, QuietKeeps

(* setDelegateNeedsTransaction: at most one pass of the queue is due. *)
LEMMA NeedsStep ==
  ASSUME IndInv, SetDelegateNeedsTransaction
  PROVE  IndInv'
  <1> DEFINE r == Tail(tq)
             b == Block("pass", 0, 0)
  <1>1. QueueOK(tq, sock, made) /\ OpensFirst(tq) /\ Take(tq, "needs")
    BY DEF IndInv, Queues, SetDelegateNeedsTransaction
  <1>2. QueueOK(r, sock, made) /\ OpensFirst(r)
    BY <1>1, TakenFacts
  <1>3. \A l, d : Has(tq, l, d) <=> Has(r, l, d) \/ (l = "needs" /\ d = tq[1].n)
    BY <1>1, TakenFacts
  <1>4. b.k = "pass" /\ Fits(b, sock, made)
    BY TransportAssumption DEF Fits, Block, Blocks, Kinds
  <1>5. tq' = r \/ tq' = Append(r, b)
    BY DEF SetDelegateNeedsTransaction
  <1> HIDE DEF r, b
  <1>6. /\ QueueOK(tq', sock, made) /\ OpensFirst(tq')
        /\ \A l, d : l \in {"closed", "opened", "ready", "pingSent"} => (Has(tq', l, d) <=> Has(tq, l, d))
    <2>1. CASE tq' = r
      BY <1>2, <1>3, <2>1
    <2>2. CASE tq' = Append(r, b)
      <3>1. /\ QueueOK(tq', sock, made) /\ OpensFirst(tq')
            /\ \A l, d : Has(tq', l, d) <=> Has(r, l, d) \/ (l = "pass" /\ d = b.n)
        BY <1>2, <1>4, <2>2, PostedFacts
      <3> QED
        BY <1>3, <3>1
    <2> QED
      BY <1>5, <2>1, <2>2
  <1>7. /\ ctx' \in Contexts /\ Kept(ctx, ctx') /\ ctx'.connected = ctx.connected
        /\ ctx'.isValid = ctx.isValid /\ ctx'.ping = ctx.ping /\ ctx'.didSend = ctx.didSend
    <2>1. ctx \in Contexts /\ ctx' = [ctx EXCEPT !.willRequest = TRUE]
      BY DEF SetDelegateNeedsTransaction, IndInv, Types
    <2> QED
      BY <2>1 DEF Contexts, Kept
  <1>8. UNCHANGED <<made, sock, cq, mq, pings, asked, canAsk, shown, faults, chatter, rush, excused,
                    lostPing>>
    BY DEF SetDelegateNeedsTransaction
  <1>9. /\ QueueOK(cq', sock, made) /\ QueueOK(mq', sock, made) /\ StartsFirst(cq')
        /\ ctx.stopped => ~ctx'.connected
    BY <1>7, <1>8 DEF IndInv, Queues, Stopped
  <1>10. Watching'
    BY <1>6, <1>7, <1>8 DEF IndInv, Watching, Kept
  <1>11. Updating'
    BY <1>6, <1>7, <1>8 DEF IndInv, Updating, Ending, Kept
  <1> QED
    BY <1>6, <1>7, <1>8, <1>9, <1>10, <1>11, QuietKeeps

(* A block that requests a transaction and does nothing else of note. *)
LEMMA AskStep ==
  ASSUME IndInv, NEW s \in States, Kept(ctx, s.t), s.m = mq, s.c = cq, s.made = made,
         s.rush = rush, s.t.connected = ctx.connected, s.t.isValid = ctx.isValid,
         s.t.ping = ctx.ping, s.t.didSend = ctx.didSend,
         NEW late \in BOOLEAN, Done(RequestTransaction(s, late)),
         Take(tq, "pass"), tq' = Tail(tq),
         UNCHANGED <<sock, pings, asked, canAsk, shown, faults, chatter, excused, lostPing>>
  PROVE  IndInv'
  <1>1. /\ ctx' \in Contexts /\ Kept(ctx, ctx') /\ cq' = cq /\ made' = made /\ rush' = rush
        /\ ctx'.connected = ctx.connected /\ ctx'.isValid = ctx.isValid /\ ctx'.ping = ctx.ping
        /\ QueueOK(mq', sock, made) /\ \A l, d : Has(mq, l, d) => Has(mq', l, d)
        /\ Shows(mq', shown') => Shows(mq, shown)
        /\ ctx.didSend \/ Has(mq', "transaction", 1)
    BY RequestKeeps
  <1>2. \A l, d : Has(tq, l, d) <=> Has(tq', l, d) \/ (l = "pass" /\ d = tq[1].n)
    BY TransportTaken
  <1>3. Updating'
    <2> SUFFICES ASSUME Ending PROVE Ending'
      BY <1>1 DEF IndInv, Updating
    <2>1. ctx'.conn = ctx.conn /\ ctx'.stopped = ctx.stopped
      BY <1>1 DEF Kept
    <2> QED
      BY <1>1, <1>2, <2>1 DEF Ending
  <1>4. ctx.stopped => ~ctx'.connected
    BY <1>1 DEF IndInv, Stopped
  <1>5. UNCHANGED <<made, sock, pings, asked, canAsk, shown, faults, chatter, rush, excused, lostPing>>
    BY <1>1
  <1> QED
    BY <1>1, <1>3, <1>4, <1>5, TalkKeeps

(* A block that finds nothing to do. *)
LEMMA IdleStep ==
  ASSUME IndInv, NEW k, Take(tq, k), k \notin {"ready", "pingSent"},
         k \in {"opened", "closed"} => tq[1].n # ctx.conn,
         tq' = Tail(tq), Done(Running),
         UNCHANGED <<sock, pings, asked, canAsk, shown, faults, chatter, excused, lostPing>>
  PROVE  IndInv'
  <1>1. ctx' = ctx /\ cq' = cq /\ mq' = mq /\ made' = made /\ rush' = rush
    BY RunningState DEF Done
  <1>2. \A l, d : Has(tq, l, d) <=> Has(tq', l, d) \/ (l = k /\ d = tq[1].n)
    BY TransportTaken
  <1>3. Updating'
    BY <1>1, <1>2 DEF IndInv, Updating, Ending
  <1>4. /\ ctx' \in Contexts /\ Kept(ctx, ctx') /\ (ctx.stopped => ~ctx'.connected)
        /\ QueueOK(mq', sock, made)
    BY <1>1 DEF IndInv, Types, Kept, Stopped, Queues
  <1> QED
    BY <1>1, <1>3, <1>4, TalkKeeps

(* MTProto is told that the update has ended. *)
LEMMA UpdatedStep ==
  ASSUME IndInv, NEW k, k \in {"pong", "session", "newSession"}, Take(tq, k), tq' = Tail(tq),
         Done(ToMTProto([Running EXCEPT !.t.ping = 0, !.t.pingTimer = FALSE],
                        Block("updating", 0, 0))),
         UNCHANGED <<sock, pings, asked, canAsk, shown, faults, chatter, excused, lostPing>>
  PROVE  IndInv'
  <1> DEFINE b == Block("updating", 0, 0)
             t == [ctx EXCEPT !.ping = 0, !.pingTimer = FALSE]
  <1>1. ctx' = t /\ mq' = Append(mq, b) /\ cq' = cq /\ made' = made /\ rush' = rush
    BY RunningState DEF Done, ToMTProto, States, Contexts
  <1>2. b.k = "updating" /\ b.n = 0 /\ Fits(b, sock, made)
    BY TransportAssumption DEF Fits, Block, Blocks, Kinds
  <1>3. t \in Contexts /\ Kept(ctx, t) /\ t.connected = ctx.connected /\ t.isValid = ctx.isValid
    <2>1. ctx \in Contexts /\ 0 \in 0..MaxPings
      BY TransportAssumption DEF IndInv, Types
    <2>2. t \in Contexts
      BY <2>1 DEF Contexts
    <2> QED
      BY <2>1, <2>2 DEF Contexts, Kept
  <1> HIDE DEF b, t
  <1>4. QueueOK(mq', sock, made) /\ ~Shows(mq', shown')
    BY <1>1, <1>2, ManagerPosted
  <1>5. Updating' /\ (ctx.stopped => ~ctx'.connected)
    BY <1>1, <1>3, <1>4 DEF Updating, IndInv, Stopped
  <1> QED
    BY <1>1, <1>3, <1>4, <1>5, TalkKeeps

(* tcpConnectionOpened: the first transaction on it carries a ping. *)
LEMMA OpenedStep ==
  ASSUME IndInv, TcpConnectionOpened
  PROVE  IndInv'
  <1> DEFINE t == [ctx EXCEPT !.connected = TRUE, !.isValid = FALSE, !.didSend = FALSE, !.ping = 0]
             s == [Running EXCEPT !.t.connected = TRUE, !.t.isValid = FALSE,
                                  !.t.didSend = FALSE, !.t.ping = 0]
  <1>1. /\ Take(tq, "opened") /\ tq' = Tail(tq)
        /\ UNCHANGED <<sock, pings, asked, canAsk, shown, faults, chatter, excused, lostPing>>
    BY DEF TcpConnectionOpened
  <1>2. /\ Head(tq) = tq[1] /\ tq[1].k = "opened" /\ Fits(tq[1], sock, made)
        /\ \A l, d : Has(tq, l, d) <=> Has(tq', l, d) \/ (l = "opened" /\ d = tq[1].n)
    BY <1>1, TransportTaken
  <1>3. CASE ctx.conn # tq[1].n
    <2>1. Done(Running)
      BY <1>2, <1>3 DEF TcpConnectionOpened
    <2> QED
      BY <1>1, <1>3, <2>1, IdleStep
  <1>4. CASE ctx.conn = tq[1].n
    <2>1. PICK late \in {FALSE, ctx.locked} : Done(RequestTransaction(s, late))
      BY <1>2, <1>4 DEF TcpConnectionOpened, ConnectionOpened
    <2>2. late \in BOOLEAN
      <3>1. ctx.locked \in BOOLEAN
        BY DEF IndInv, Types, Contexts
      <3> QED
        BY <2>1, <3>1, Zenon
    <2>3. t \in Contexts /\ Kept(ctx, t) /\ t.connected /\ ~t.isValid /\ ~t.didSend
      <3>1. ctx \in Contexts /\ 0 \in 0..MaxPings
        BY TransportAssumption DEF IndInv, Types
      <3>2. t \in Contexts
        BY <3>1 DEF Contexts
      <3> QED
        BY <3>1, <3>2 DEF Contexts, Kept
    <2>4. s.t = t /\ s.m = mq /\ s.c = cq /\ s.made = made /\ s.rush = rush
      BY RunningState DEF States, Contexts
    <2>5. s \in States
      <3> HIDE DEF t
      <3> QED
        BY <2>3, <2>4, RunningState DEF States
    <2> HIDE DEF s, t
    <2>6. /\ ctx' \in Contexts /\ Kept(ctx, ctx') /\ cq' = cq /\ made' = made /\ rush' = rush
          /\ QueueOK(mq', sock, made) /\ Has(mq', "transaction", 1)
      BY <1>1, <2>1, <2>2, <2>3, <2>4, <2>5, RequestKeeps
    <2>7. Updating'
      BY <2>6 DEF Updating, Ending
    <2>8. ~ctx.stopped
      BY <1>2, <1>4 DEF Fits, Conns, IndInv, Stopped
    <2> QED
      BY <1>1, <1>4, <2>6, <2>7, <2>8, TalkKeeps
  <1> QED
    BY <1>3, <1>4

(* tcpConnectionReceivedData: MTProto gets the data. *)
LEMMA DataStep ==
  ASSUME IndInv, TcpConnectionReceivedData
  PROVE  IndInv'
  <1> DEFINE b == Block("incoming", ctx.conn, tq[1].p)
             t == [ctx EXCEPT !.pingTimer = @ \/ ctx.ping # 0]
  <1>1. /\ Take(tq, "data") /\ tq' = Tail(tq)
        /\ UNCHANGED <<sock, pings, asked, canAsk, shown, faults, chatter, excused, lostPing>>
    BY DEF TcpConnectionReceivedData
  <1>2. /\ Head(tq) = tq[1] /\ tq[1].k = "data" /\ Fits(tq[1], sock, made)
        /\ \A l, d : Has(tq, l, d) <=> Has(tq', l, d) \/ (l = "data" /\ d = tq[1].n)
    BY <1>1, TransportTaken
  <1>3. CASE ctx.conn # tq[1].n
    <2>1. Done(Running)
      BY <1>2, <1>3 DEF TcpConnectionReceivedData
    <2> QED
      BY <1>1, <2>1, IdleStep
  <1>4. CASE ctx.conn = tq[1].n
    <2>1. ctx' = t /\ mq' = Append(mq, b) /\ cq' = cq /\ made' = made /\ rush' = rush
      <3>1. Done(ToMTProto([Running EXCEPT !.t.pingTimer = @ \/ ctx.ping # 0], b))
        BY <1>2, <1>4 DEF TcpConnectionReceivedData
      <3> QED
        BY <3>1, RunningState DEF Done, ToMTProto, States, Contexts
    <2>2. b.k = "incoming" /\ Fits(b, sock, made)
      BY <1>2, <1>4, TransportAssumption DEF Fits, Block, Blocks, Kinds, Conns
    <2>3. /\ t \in Contexts /\ Kept(ctx, t) /\ t.connected = ctx.connected /\ t.isValid = ctx.isValid
          /\ t.ping = ctx.ping /\ t.didSend = ctx.didSend
      BY DEF IndInv, Types, Contexts, Kept
    <2> HIDE DEF b, t
    <2>4. /\ QueueOK(mq', sock, made) /\ (Shows(mq', shown') => Shows(mq, shown))
          /\ \A l, d : Has(mq, l, d) => Has(mq', l, d)
      BY <1>1, <2>1, <2>2, ManagerPosted
    <2>5. Updating'
      <3> SUFFICES ASSUME Ending PROVE Ending'
        BY <2>4 DEF IndInv, Updating
      <3> QED
        BY <1>1, <1>2, <2>1, <2>3, <2>4 DEF Ending, Kept
    <2>6. ctx.stopped => ~ctx'.connected
      BY <2>1, <2>3 DEF IndInv, Stopped
    <2> QED
      BY <1>1, <2>1, <2>3, <2>4, <2>5, <2>6, TalkKeeps
  <1> QED
    BY <1>3, <1>4

(* mtProto:receivedMessage: for a pong, and the changes of the session. *)
LEMMA SessionStep ==
  ASSUME IndInv, ReceivedPong \/ MtProtoDidChangeSession \/ MtProtoServerDidChangeSession
  PROVE  IndInv'
  <1>1. CASE ReceivedPong
    <2>1. /\ Take(tq, "pong") /\ tq' = Tail(tq)
          /\ UNCHANGED <<sock, pings, asked, canAsk, shown, faults, chatter, excused, lostPing>>
      BY <1>1 DEF ReceivedPong
    <2>2. CASE Done(Running)
      BY <2>1, <2>2, IdleStep
    <2>3. CASE Done(ToMTProto([Running EXCEPT !.t.ping = 0, !.t.pingTimer = FALSE],
                              Block("updating", 0, 0)))
      BY <2>1, <2>3, UpdatedStep
    <2> QED
      BY <1>1, <2>2, <2>3 DEF ReceivedPong
  <1>2. CASE MtProtoDidChangeSession
    BY <1>2, UpdatedStep DEF MtProtoDidChangeSession
  <1>3. CASE MtProtoServerDidChangeSession
    <2>1. /\ Take(tq, "newSession") /\ tq' = Tail(tq)
          /\ UNCHANGED <<sock, pings, asked, canAsk, shown, faults, chatter, excused, lostPing>>
      BY <1>3 DEF MtProtoServerDidChangeSession
    <2>2. CASE Done(Running)
      BY <2>1, <2>2, IdleStep
    <2>3. CASE Done(ToMTProto([Running EXCEPT !.t.ping = 0, !.t.pingTimer = FALSE],
                              Block("updating", 0, 0)))
      BY <2>1, <2>3, UpdatedStep
    <2> QED
      BY <1>3, <2>2, <2>3 DEF MtProtoServerDidChangeSession
  <1> QED
    BY <1>1, <1>2, <1>3

(* The completion of a transaction with a ping: the update will end with   *)
(* the pong.                                                               *)
LEMMA PingSentStep ==
  ASSUME IndInv, PingSent
  PROVE  IndInv'
  <1> DEFINE b == Block("updating", 1, 0)
             p == tq[1].p
             t == [ctx EXCEPT !.ping = p]
  <1>1. /\ Take(tq, "pingSent") /\ tq' = Tail(tq)
        /\ UNCHANGED <<sock, pings, asked, canAsk, shown, faults, chatter, excused, lostPing>>
    BY DEF PingSent
  <1>2. Head(tq) = tq[1] /\ tq[1].k = "pingSent" /\ Fits(tq[1], sock, made)
    BY <1>1, TransportTaken
  <1>3. p \in 0..MaxPings /\ p # 0
    BY <1>2 DEF Fits, Blocks
  <1>4. ctx' = t /\ mq' = Append(mq, b) /\ cq' = cq /\ made' = made /\ rush' = rush
    <2>1. Done(ToMTProto([Running EXCEPT !.t.ping = p], b))
      BY <1>2 DEF PingSent
    <2> QED
      BY <2>1, RunningState DEF Done, ToMTProto, States, Contexts
  <1>5. b.k = "updating" /\ b.n = 1 /\ Fits(b, sock, made)
    BY TransportAssumption DEF Fits, Block, Blocks, Kinds
  <1>6. /\ t \in Contexts /\ Kept(ctx, t) /\ t.connected = ctx.connected /\ t.isValid = ctx.isValid
        /\ t.ping # 0
    <2>1. ctx \in Contexts
      BY DEF IndInv, Types
    <2>2. t \in Contexts
      BY <1>3, <2>1 DEF Contexts
    <2> QED
      BY <1>3, <2>1, <2>2 DEF Contexts, Kept
  <1> HIDE DEF b, t, p
  <1>7. QueueOK(mq', sock, made)
    BY <1>1, <1>4, <1>5, ManagerPosted
  <1>8. Updating' /\ (ctx.stopped => ~ctx'.connected)
    BY <1>4, <1>6 DEF Updating, Ending, IndInv, Stopped
  <1> QED
    BY <1>1, <1>4, <1>6, <1>7, <1>8, TalkKeeps

(* transactionReady: a ping is written to the connection of the moment. *)
LEMMA ReadyStep ==
  ASSUME IndInv, TransactionReady
  PROVE  IndInv'
  <1> DEFINE w == tq[1].n = 1 /\ ctx.conn # 0
             b == Block("write", ctx.conn, tq[1].p)
             s == IF w THEN [Running EXCEPT !.c = Append(@, b)] ELSE Running
             u == [s EXCEPT !.t.locked = FALSE, !.t.another = FALSE]
             t == [ctx EXCEPT !.locked = FALSE, !.another = FALSE]
  <1>1. /\ Take(tq, "ready") /\ tq' = Tail(tq)
        /\ UNCHANGED <<sock, pings, asked, canAsk, shown, faults, chatter, excused, lostPing>>
    BY DEF TransactionReady
  <1>2. /\ QueueOK(tq', sock, made) /\ OpensFirst(tq')
        /\ Head(tq) = tq[1] /\ tq[1].k = "ready" /\ Fits(tq[1], sock, made)
        /\ \A l, d : Has(tq, l, d) <=> Has(tq', l, d) \/ (l = "ready" /\ d = tq[1].n)
    BY <1>1, TransportTaken
  <1>3. Done(RequestTransaction(u, FALSE)) \/ Done(u)
    BY <1>2 DEF TransactionReady
  <1>4. /\ t \in Contexts /\ Kept(ctx, t) /\ t.connected = ctx.connected /\ t.isValid = ctx.isValid
        /\ t.ping = ctx.ping /\ t.didSend = ctx.didSend
    BY DEF IndInv, Types, Contexts, Kept
  <1>5. w => /\ b.k = "write" /\ b.n = ctx.conn /\ Fits(b, sock, made)
             /\ Append(cq, b) \in Seq(Blocks)
    <2>1. ASSUME w PROVE b.k = "write" /\ b.n = ctx.conn /\ Fits(b, sock, made)
      <3>1. ctx.conn \in Conns /\ ctx.conn <= made
        BY <2>1 DEF IndInv, Types, Contexts, Sockets
      <3>2. tq[1].p \in 0..MaxPings /\ tq[1].p # 0
        BY <1>2, <2>1 DEF Fits, Blocks
      <3> QED
        BY <3>1, <3>2, TransportAssumption DEF Fits, Block, Blocks, Kinds, Conns
    <2>2. ASSUME w PROVE Append(cq, b) \in Seq(Blocks)
      BY <2>1, <2>2 DEF IndInv, Queues, QueueOK, Fits
    <2> QED
      BY <2>1, <2>2
  <1>6. s \in States /\ s.t = ctx /\ s.m = mq /\ s.made = made /\ s.rush = rush
        /\ s.c = IF w THEN Append(cq, b) ELSE cq
    <2> HIDE DEF w, b
    <2>1. CASE w
      BY <1>5, <2>1, RunningState DEF States
    <2>2. CASE ~w
      BY <2>2, RunningState
    <2> QED
      BY <2>1, <2>2
  <1>7. /\ u \in States /\ u.t = t /\ u.m = mq /\ u.made = made /\ u.rush = rush
        /\ u.c = IF w THEN Append(cq, b) ELSE cq
    <2> HIDE DEF s, b, w
    <2>1. u.t = t /\ u.m = mq /\ u.made = made /\ u.rush = rush /\ u.c = s.c
      BY <1>6 DEF States, Contexts
    <2>2. u \in States
      <3> HIDE DEF t
      <3> QED
        BY <1>4, <1>6, <2>1 DEF States
    <2> QED
      BY <1>6, <2>1, <2>2
  <1> HIDE DEF u, s, t, b
  <1>8. /\ ctx' \in Contexts /\ Kept(ctx, ctx') /\ cq' = u.c /\ made' = made /\ rush' = rush
        /\ ctx'.connected = ctx.connected /\ ctx'.isValid = ctx.isValid /\ ctx'.ping = ctx.ping
        /\ QueueOK(mq', sock, made) /\ \A l, d : Has(mq, l, d) => Has(mq', l, d)
        /\ Shows(mq', shown') => Shows(mq, shown)
        /\ ctx'.didSend = ctx.didSend \/ Has(mq', "transaction", 1) \/ ctx.didSend
    <2>1. CASE Done(u)
      <3>1. ctx' = t /\ cq' = u.c /\ mq' = mq /\ made' = made /\ rush' = rush
        BY <1>7, <2>1 DEF Done
      <3>2. QueueOK(mq', sock, made)
        BY <3>1 DEF IndInv, Queues
      <3> QED
        BY <1>1, <1>4, <3>1, <3>2
    <2>2. CASE Done(RequestTransaction(u, FALSE))
      BY <1>1, <1>4, <1>7, <2>2, RequestKeeps
    <2> QED
      BY <1>3, <2>1, <2>2
  <1>9. /\ QueueOK(cq', sock, made) /\ StartsFirst(cq')
        /\ \A l, d : Has(cq, l, d) => Has(cq', l, d)
        /\ \A d : Has(cq', "start", d) => Has(cq, "start", d)
        /\ w => Has(cq', "write", ctx.conn)
    <2>1. QueueOK(cq, sock, made) /\ StartsFirst(cq)
      BY DEF IndInv, Queues
    <2> HIDE DEF w
    <2>2. CASE w
      <3>1. cq' = Append(cq, b)
        BY <1>7, <1>8, <2>2
      <3> QED
        BY <1>5, <2>1, <2>2, <3>1, PostedFacts
    <2>3. CASE ~w
      <3>1. cq' = cq
        BY <1>7, <1>8, <2>3
      <3> QED
        BY <2>1, <2>3, <3>1
    <2> QED
      BY <2>2, <2>3
  <1>10. Updating'
    <2> SUFFICES ASSUME Ending PROVE Ending'
      BY <1>8 DEF IndInv, Updating
    <2>1. ctx'.conn = ctx.conn /\ ctx'.stopped = ctx.stopped
      BY <1>8 DEF Kept
    <2>2. CASE tq[1].n = 1
      BY <1>9, <2>1, <2>2 DEF Ending
    <2>3. CASE tq[1].n # 1
      BY <1>1, <1>2, <1>8, <1>9, <2>1, <2>3 DEF Ending
    <2> QED
      BY <2>2, <2>3
  <1>11. Watching' /\ (ctx.stopped => ~ctx'.connected)
    BY <1>1, <1>2, <1>8 DEF IndInv, Watching, Kept, Stopped
  <1> QED
    BY <1>1, <1>2, <1>8, <1>9, <1>10, <1>11, QuietKeeps

(* The timer of the ping: a transaction with a new one is asked for. *)
LEMMA ResendStep ==
  ASSUME IndInv, ResendActualizationPing
  PROVE  IndInv'
  <1> DEFINE s == [Running EXCEPT !.t.pingTimer = FALSE]
             u == [s EXCEPT !.t.didSend = FALSE, !.t.ping = 0]
             t == [ctx EXCEPT !.pingTimer = FALSE]
             v == [t EXCEPT !.didSend = FALSE, !.ping = 0]
  <1>1. UNCHANGED <<sock, tq, pings, asked, canAsk, shown, faults, chatter, excused, lostPing>>
    BY DEF ResendActualizationPing
  <1>2. ctx \in Contexts /\ 0 \in 0..MaxPings /\ ctx.locked \in BOOLEAN
    BY TransportAssumption DEF IndInv, Types, Contexts
  <1>3. /\ t \in Contexts /\ Kept(ctx, t) /\ t.connected = ctx.connected /\ t.isValid = ctx.isValid
        /\ t.ping = ctx.ping /\ t.didSend = ctx.didSend
    BY <1>2 DEF Contexts, Kept
  <1>4. /\ v \in Contexts /\ Kept(ctx, v) /\ v.connected = ctx.connected /\ v.isValid = ctx.isValid
        /\ ~v.didSend
    BY <1>2 DEF Contexts, Kept
  <1>5. s.t = t /\ s.c = cq /\ s.m = mq /\ s.made = made /\ s.rush = rush
    BY RunningState DEF States, Contexts
  <1>6. u \in States /\ u.t = v /\ u.c = cq /\ u.m = mq /\ u.made = made /\ u.rush = rush
    <2>1. u.t = v /\ u.c = cq /\ u.m = mq /\ u.made = made /\ u.rush = rush
      BY RunningState DEF States, Contexts
    <2>2. u \in States
      <3> HIDE DEF t, v
      <3> QED
        BY <1>4, <2>1, RunningState DEF States
    <2> QED
      BY <2>1, <2>2
  <1>7. PICK late \in {FALSE, ctx.locked} : Done(IF ctx.ping = 0 THEN s ELSE RequestTransaction(u, late))
    BY DEF ResendActualizationPing
  <1>8. late \in BOOLEAN
    BY <1>2, <1>7, Zenon
  <1> HIDE DEF s, t, u, v
  <1>9. /\ ctx' \in Contexts /\ Kept(ctx, ctx') /\ cq' = cq /\ made' = made /\ rush' = rush
        /\ ctx'.connected = ctx.connected /\ ctx'.isValid = ctx.isValid
        /\ QueueOK(mq', sock, made) /\ Updating'
    <2>1. CASE ctx.ping = 0
      <3>1. ctx' = t /\ cq' = cq /\ mq' = mq /\ made' = made /\ rush' = rush
        BY <1>5, <1>7, <2>1 DEF Done
      <3>2. QueueOK(mq', sock, made)
        BY <3>1 DEF IndInv, Queues
      <3>3. Updating'
        BY <1>1, <1>3, <3>1 DEF IndInv, Updating, Ending, Kept
      <3> QED
        BY <1>3, <3>1, <3>2, <3>3
    <2>2. CASE ctx.ping # 0
      <3>1. Done(RequestTransaction(u, late))
        BY <1>7, <2>2
      <3>2. /\ ctx' \in Contexts /\ Kept(ctx, ctx') /\ cq' = cq /\ made' = made /\ rush' = rush
            /\ ctx'.connected = ctx.connected /\ ctx'.isValid = ctx.isValid
            /\ QueueOK(mq', sock, made) /\ Has(mq', "transaction", 1)
        BY <1>1, <1>4, <1>6, <1>8, <3>1, RequestKeeps
      <3> QED
        BY <3>2 DEF Updating, Ending
    <2> QED
      BY <2>1, <2>2
  <1>10. /\ QueueOK(tq', sock, made) /\ OpensFirst(tq') /\ QueueOK(cq', sock, made) /\ StartsFirst(cq')
         /\ (ctx.stopped => ~ctx'.connected) /\ Watching'
    BY <1>1, <1>9 DEF IndInv, Queues, Watching, Stopped, Kept
  <1> QED
    BY <1>1, <1>9, <1>10, QuietKeeps

-----------------------------------------------------------------------------
(* The transport makes its next connection: nothing is alive, nothing of   *)
(* the new connection was spoken of, and it starts with a watchdog.        *)
LEMMA ConnectKeeps ==
  ASSUME IndInv, made < MaxConnections, made' = made + 1,
         \A c \in Conns : ~Live(c) /\ ~Has(cq, "start", c),
         ctx' \in Contexts, ctx'.conn = made + 1, ctx'.watchdog, ~ctx'.stopped, ~ctx'.backoffTimer,
         ctx'.backoffCount <= made, rush' \in Nat, rush' <= 2,
         ctx'.backoffCount = 0 => rush' <= 1,
         cq' = Append(cq, Block("start", made + 1, 0)), mq' = mq,
         QueueOK(tq', sock, made), OpensFirst(tq'),
         UNCHANGED <<sock, pings, asked, canAsk, shown, faults, chatter, excused, lostPing>>
  PROVE  IndInv'
  <1> DEFINE b == Block("start", made + 1, 0)
  <1>1. made \in Nat /\ made + 1 \in Conns /\ sock[made + 1] = "none"
    BY TransportAssumption DEF IndInv, Types, Sockets, Conns
  <1>2. b.k = "start" /\ b.n = made + 1 /\ Fits(b, sock, made + 1)
    BY <1>1, TransportAssumption DEF Fits, Block, Blocks, Kinds, Conns
  <1> HIDE DEF b
  <1>3. ASSUME NEW q, QueueOK(q, sock, made) PROVE QueueOK(q, sock, made + 1)
    BY <1>1, <1>3 DEF QueueOK, Fits, Blocks, Conns
  <1>4. Types'
    BY <1>1 DEF IndInv, Types, Conns
  <1>5. /\ QueueOK(tq', sock', made') /\ QueueOK(cq', sock', made') /\ QueueOK(mq', sock', made')
        /\ \A l, d : Has(cq', l, d) <=> Has(cq, l, d) \/ (l = "start" /\ d = made + 1)
    <2>1. QueueOK(cq, sock, made + 1) /\ QueueOK(mq, sock, made + 1) /\ QueueOK(tq', sock, made + 1)
      BY <1>3 DEF IndInv, Queues
    <2>2. cq' = Append(cq, b)
      BY DEF b
    <2> QED
      BY <1>2, <2>1, <2>2, PostedFacts
  <1>6. StartsFirst(cq')
    <2>1. \A l \in {"start", "close", "write"} : ~Has(cq, l, made + 1)
      BY <1>1, HasFacts DEF IndInv, Queues
    <2>2. QueueOK(cq, sock, made + 1) /\ StartsFirst(cq) /\ cq' = Append(cq, b)
      BY <1>3 DEF IndInv, Queues, b
    <2> QED
      BY <1>2, <2>1, <2>2, PostedFacts
  <1>7. Queues'
    BY <1>5, <1>6 DEF Queues
  <1>8. Sockets' /\ Stopped'
    BY <1>1, <1>5 DEF IndInv, Sockets, Stopped, Live, Conns
  <1>9. Counts'
    BY <1>1 DEF IndInv, Counts, Contexts
  <1>10. Reconnection' /\ Watching'
    BY <1>1 DEF IndInv, Reconnection, Watching
  <1>11. Updating'
    BY <1>1 DEF Updating, Ending
  <1> QED
    BY <1>4, <1>7, <1>8, <1>9, <1>10, <1>11 DEF IndInv

(* The transport is left without a connection, or with one less to count.  *)
LEMMA LeaveKeeps ==
  ASSUME IndInv, ctx' \in Contexts, ctx'.conn = 0, ~ctx'.stopped,
         \A c \in Conns : ~Live(c) /\ ~Has(cq, "start", c),
         ctx'.backoffCount <= made, ctx'.backoffCount = 0 => rush <= 1,
         made \in 1..(MaxConnections - 1) => ctx'.backoffTimer,
         QueueOK(tq', sock, made), OpensFirst(tq'),
         UNCHANGED <<cq, mq, made, rush, sock, pings, asked, canAsk, shown, faults, chatter, excused,
                     lostPing>>
  PROVE  IndInv'
  <1>1. Types'
    BY DEF IndInv, Types
  <1>2. Queues'
    BY DEF IndInv, Queues
  <1>3. made \in Nat
    BY TransportAssumption DEF IndInv, Types
  <1>4. Sockets' /\ Stopped'
    BY <1>3 DEF IndInv, Sockets, Stopped, Live
  <1>5. Counts'
    BY DEF IndInv, Counts
  <1>6. Reconnection' /\ Watching' /\ Updating'
    BY DEF Reconnection, Watching, Updating, Ending
  <1> QED
    BY <1>1, <1>2, <1>4, <1>5, <1>6 DEF IndInv

(* A pass of the queue: a connection is requested, or a transaction. *)
LEMMA PassStep ==
  ASSUME IndInv, QueuePass
  PROVE  IndInv'
  <1> DEFINE t == [ctx EXCEPT !.willRequest = FALSE]
             s == [Running EXCEPT !.t.willRequest = FALSE]
             e == [s EXCEPT !.t.backoffTimer = FALSE]
             v == [t EXCEPT !.backoffTimer = FALSE]
  <1>1. /\ Take(tq, "pass") /\ tq' = Tail(tq)
        /\ UNCHANGED <<sock, pings, asked, canAsk, shown, faults, chatter, excused, lostPing>>
    BY DEF QueuePass
  <1>2. /\ QueueOK(tq', sock, made) /\ OpensFirst(tq')
        /\ \A l, d : Has(tq, l, d) <=> Has(tq', l, d) \/ (l = "pass" /\ d = tq[1].n)
    BY <1>1, TransportTaken
  <1>3. ctx \in Contexts /\ ctx.locked \in BOOLEAN /\ made \in Nat
    BY TransportAssumption DEF IndInv, Types, Contexts
  <1>4. /\ t \in Contexts /\ Kept(ctx, t) /\ t.connected = ctx.connected /\ t.isValid = ctx.isValid
        /\ t.ping = ctx.ping /\ t.didSend = ctx.didSend
    BY <1>3 DEF Contexts, Kept
  <1>5. /\ v \in Contexts /\ v.connected = ctx.connected /\ v.isValid = ctx.isValid
        /\ v.ping = ctx.ping /\ v.didSend = ctx.didSend /\ ~v.backoffTimer
        /\ v.conn = ctx.conn /\ v.stopped = ctx.stopped /\ v.watchdog = ctx.watchdog
        /\ v.backoffCount = ctx.backoffCount
    BY <1>3 DEF Contexts
  <1>6. s \in States /\ s.t = t /\ s.c = cq /\ s.m = mq /\ s.made = made /\ s.rush = rush
    <2>1. s.t = t /\ s.c = cq /\ s.m = mq /\ s.made = made /\ s.rush = rush
      BY RunningState DEF States, Contexts
    <2>2. s \in States
      <3> HIDE DEF t
      <3> QED
        BY <1>4, <2>1, RunningState DEF States
    <2> QED
      BY <2>1, <2>2
  <1>7. e \in States /\ e.t = v /\ e.c = cq /\ e.m = mq /\ e.made = made /\ e.rush = rush
    <2>1. e.t = v /\ e.c = cq /\ e.m = mq /\ e.made = made /\ e.rush = rush
      BY RunningState DEF States, Contexts
    <2>2. e \in States
      <3> HIDE DEF t, v
      <3> QED
        BY <1>5, <2>1, RunningState DEF States
    <2> QED
      BY <2>1, <2>2
  <1>8. \/ ctx.conn = 0 /\ ctx.backoffTimer /\ Done(s)
        \/ ctx.conn = 0 /\ ~ctx.backoffTimer /\ Done(RequestsReconnection(e, FALSE))
        \/ \E late \in {FALSE, ctx.locked} : Done(RequestTransaction(s, late))
        \/ Done(s)
    <2> DEFINE x == s
    <2>1. x.t.backoffTimer = ctx.backoffTimer
      BY <1>4, <1>6 DEF Kept
    <2>2. PICK late \in {FALSE, ctx.locked} :
            Done(CASE ctx.conn = 0 -> RequestConnection(x)
                   [] ctx.conn # 0 /\ ctx.connected -> RequestTransaction(x, late)
                   [] OTHER -> x)
      BY DEF QueuePass
    <2>3. RequestConnection(x) = IF x.t.backoffTimer THEN x ELSE RequestsReconnection(e, FALSE)
      BY DEF RequestConnection, TimerEvent
    <2> HIDE DEF x
    <2>4. CASE ctx.conn = 0
      BY <2>1, <2>2, <2>3, <2>4 DEF x
    <2>5. CASE ctx.conn # 0 /\ ctx.connected
      BY <2>2, <2>5 DEF x
    <2>6. CASE ctx.conn # 0 /\ ~ctx.connected
      BY <2>2, <2>6 DEF x
    <2> QED
      BY <2>4, <2>5, <2>6
  <1> HIDE DEF s, t, e, v
  <1>9. CASE Done(s)
    <2>1. ctx' = t /\ cq' = cq /\ mq' = mq /\ made' = made /\ rush' = rush
      BY <1>6, <1>9 DEF Done
    <2>2. QueueOK(mq', sock, made) /\ (ctx.stopped => ~ctx'.connected)
      BY <1>4, <2>1 DEF IndInv, Queues, Stopped
    <2>3. Updating'
      BY <1>1, <1>2, <1>4, <2>1 DEF IndInv, Updating, Ending, Kept
    <2> QED
      BY <1>1, <1>4, <2>1, <2>2, <2>3, TalkKeeps
  <1>10. CASE \E late \in {FALSE, ctx.locked} : Done(RequestTransaction(s, late))
    <2>1. PICK late \in {FALSE, ctx.locked} : Done(RequestTransaction(s, late))
      BY <1>10
    <2>2. late \in BOOLEAN
      BY <1>3, <2>1, Zenon
    <2> QED
      BY <1>1, <1>4, <1>6, <2>1, <2>2, AskStep
  <1>11. CASE ctx.conn = 0 /\ ~ctx.backoffTimer /\ Done(RequestsReconnection(e, FALSE))
    <2> DEFINE r == RequestsReconnection(e, FALSE)
    <2>1. ctx' = r.t /\ cq' = r.c /\ mq' = r.m /\ made' = r.made /\ rush' = r.rush
      BY <1>11 DEF Done
    <2>2. CASE r = e
      <3>1. ctx' = v /\ cq' = cq /\ mq' = mq /\ made' = made /\ rush' = rush
        BY <1>7, <2>1, <2>2
      <3> HIDE DEF r
      <3>2. ctx'.backoffTimer = ctx.backoffTimer
        BY <1>3, <1>5, <1>11, <3>1 DEF Contexts
      <3>3. /\ ctx' \in Contexts /\ Kept(ctx, ctx') /\ ctx'.isValid = ctx.isValid
            /\ ctx'.connected = ctx.connected
        BY <1>5, <3>1, <3>2 DEF Kept
      <3>4. QueueOK(mq', sock, made) /\ (ctx.stopped => ~ctx'.connected)
        BY <3>1, <3>3 DEF IndInv, Queues, Stopped
      <3>5. Updating'
        BY <1>1, <1>2, <1>5, <3>1 DEF IndInv, Updating, Ending
      <3> QED
        BY <1>1, <3>1, <3>3, <3>4, <3>5, TalkKeeps
    <2>3. CASE r # e
      <3>1. /\ ~e.t.stopped /\ e.t.conn = 0 /\ e.made < MaxConnections
            /\ r.t \in Contexts /\ r.m = e.m /\ r.made = e.made + 1 /\ r.t.conn = e.made + 1
            /\ r.c = Append(e.c, Block("start", e.made + 1, 0))
            /\ r.rush = e.rush + 1
            /\ r.t.watchdog /\ ~r.t.stopped
            /\ r.t.backoffCount = e.t.backoffCount /\ r.t.backoffTimer = e.t.backoffTimer
        BY <1>7, <2>3, ReconnectedFacts
      <3> HIDE DEF r
      <3>2. ~ctx.stopped /\ made < MaxConnections /\ made = 0 /\ rush = 0
        BY <1>3, <1>5, <1>7, <1>11, <3>1, TransportAssumption DEF IndInv, Reconnection, Counts
      <3>3. \A c \in Conns : ~Live(c) /\ ~Has(cq, "start", c)
        BY <1>11, <3>2 DEF IndInv, Sockets, Conns
      <3>4. ctx'.backoffCount <= made /\ rush' = 1 /\ ~ctx'.backoffTimer
        BY <1>5, <1>7, <2>1, <3>1, <3>2 DEF IndInv, Counts
      <3> QED
        BY <1>1, <1>2, <1>7, <2>1, <3>1, <3>2, <3>3, <3>4, ConnectKeeps
    <2> QED
      BY <2>2, <2>3
  <1> QED
    BY <1>8, <1>9, <1>10, <1>11

(* The back-off timer fires: a connection is made after a wait. *)
LEMMA BackoffStep ==
  ASSUME IndInv, BackoffTimerFires
  PROVE  IndInv'
  <1> DEFINE e == [Running EXCEPT !.t.backoffTimer = FALSE]
             v == [ctx EXCEPT !.backoffTimer = FALSE]
             r == RequestsReconnection(e, TRUE)
  <1>1. /\ ctx.backoffTimer
        /\ UNCHANGED <<sock, tq, pings, asked, canAsk, shown, faults, chatter, excused, lostPing>>
        /\ QueueOK(tq', sock, made) /\ OpensFirst(tq')
    BY DEF BackoffTimerFires, IndInv, Queues
  <1>2. ctx \in Contexts /\ made \in 0..MaxConnections /\ MaxConnections \in Nat /\ MaxConnections >= 1
    BY TransportAssumption DEF IndInv, Types, Contexts
  <1>3. /\ v \in Contexts /\ v.connected = ctx.connected /\ v.isValid = ctx.isValid
        /\ v.ping = ctx.ping /\ v.didSend = ctx.didSend /\ ~v.backoffTimer
        /\ v.conn = ctx.conn /\ v.stopped = ctx.stopped /\ v.watchdog = ctx.watchdog
        /\ v.backoffCount = ctx.backoffCount
    BY <1>2 DEF Contexts
  <1>4. e \in States /\ e.t = v /\ e.c = cq /\ e.m = mq /\ e.made = made /\ e.rush = rush
    <2>1. e.t = v /\ e.c = cq /\ e.m = mq /\ e.made = made /\ e.rush = rush
      BY RunningState DEF States, Contexts
    <2>2. e \in States
      <3> HIDE DEF v
      <3> QED
        BY <1>3, <2>1, RunningState DEF States
    <2> QED
      BY <2>1, <2>2
  <1>5. ctx' = r.t /\ cq' = r.c /\ mq' = r.m /\ made' = r.made /\ rush' = r.rush
    BY DEF BackoffTimerFires, TimerEvent, Done
  <1>6. \/ /\ e.t.stopped \/ e.t.conn # 0 \/ e.made = MaxConnections
           /\ r = e
        \/ /\ ~e.t.stopped /\ e.t.conn = 0 /\ e.made < MaxConnections
           /\ r.t \in Contexts /\ r.m = e.m /\ r.made = e.made + 1 /\ r.t.conn = e.made + 1
           /\ r.c = Append(e.c, Block("start", e.made + 1, 0))
           /\ r.rush = 0
           /\ r.t.watchdog /\ ~r.t.stopped
           /\ r.t.backoffCount = e.t.backoffCount /\ r.t.backoffTimer = e.t.backoffTimer
    BY <1>4, ReconnectedFacts
  <1> HIDE DEF e, v, r
  <1>7. CASE /\ e.t.stopped \/ e.t.conn # 0 \/ e.made = MaxConnections
             /\ r = e
    <2>1. ctx' = v /\ cq' = cq /\ mq' = mq /\ made' = made /\ rush' = rush
      BY <1>4, <1>5, <1>7
    <2>2. Types'
      BY <1>1, <1>3, <2>1 DEF IndInv, Types
    <2>3. Queues'
      BY <1>1, <2>1 DEF IndInv, Queues
    <2>4. Sockets' /\ Stopped' /\ Counts'
      BY <1>1, <1>3, <2>1 DEF IndInv, Sockets, Stopped, Live, Counts
    <2>5. Watching' /\ Updating'
      BY <1>1, <1>3, <2>1 DEF IndInv, Watching, Updating, Ending
    <2>6. made \in 1..(MaxConnections - 1) => ctx.stopped
      BY <1>1, <1>2, <1>3, <1>4, <1>7 DEF IndInv, Reconnection
    <2>7. Reconnection'
      BY <1>1, <1>3, <2>1, <2>6 DEF IndInv, Reconnection
    <2> QED
      BY <2>2, <2>3, <2>4, <2>5, <2>7 DEF IndInv
  <1>8. CASE /\ ~e.t.stopped /\ e.t.conn = 0 /\ e.made < MaxConnections
             /\ r.t \in Contexts /\ r.m = e.m /\ r.made = e.made + 1 /\ r.t.conn = e.made + 1
             /\ r.c = Append(e.c, Block("start", e.made + 1, 0))
             /\ r.rush = 0
             /\ r.t.watchdog /\ ~r.t.stopped
             /\ r.t.backoffCount = e.t.backoffCount /\ r.t.backoffTimer = e.t.backoffTimer
    <2>1. ~ctx.stopped /\ ctx.conn = 0 /\ made < MaxConnections
      BY <1>3, <1>4, <1>8
    <2>2. \A c \in Conns : ~Live(c) /\ ~Has(cq, "start", c)
      BY <2>1 DEF IndInv, Sockets, Conns
    <2>3. ctx'.backoffCount <= made /\ rush' = 0 /\ ~ctx'.backoffTimer
      BY <1>3, <1>4, <1>5, <1>8 DEF IndInv, Counts
    <2> QED
      BY <1>1, <1>4, <1>5, <1>8, <2>1, <2>2, <2>3, ConnectKeeps
  <1> QED
    BY <1>6, <1>7, <1>8

(* tcpConnectionClosed: the first failure is answered with another         *)
(* connection, the next one with a wait.                                   *)
LEMMA ClosedStep ==
  ASSUME IndInv, TcpConnectionClosed
  PROVE  IndInv'
  <1>1. /\ Take(tq, "closed") /\ tq' = Tail(tq)
        /\ UNCHANGED <<sock, pings, asked, canAsk, shown, faults, chatter, excused, lostPing>>
    BY DEF TcpConnectionClosed
  <1>2. /\ QueueOK(tq', sock, made) /\ OpensFirst(tq')
        /\ Head(tq) = tq[1] /\ tq[1].k = "closed" /\ Fits(tq[1], sock, made)
    BY <1>1, TransportTaken
  <1>3. CASE ctx.conn # tq[1].n
    <2>1. Done(Running)
      BY <1>2, <1>3 DEF TcpConnectionClosed
    <2> QED
      BY <1>1, <1>3, <2>1, IdleStep
  <1>4. CASE ctx.conn = tq[1].n
    <2> DEFINE n == ctx.backoffCount + 1
               a == [Running EXCEPT !.t.connected = FALSE, !.t.isValid = FALSE, !.t.conn = 0]
               b == [a EXCEPT !.t.backoffCount = n]
               t == [ctx EXCEPT !.connected = FALSE, !.isValid = FALSE, !.conn = 0,
                                !.backoffCount = n]
    <2>1. ctx.conn \in Conns /\ ctx.conn # 0 /\ ~ctx.stopped /\ sock[ctx.conn] = "closed"
      BY <1>2, <1>4 DEF Fits, Conns, IndInv, Stopped
    <2>2. \A c \in Conns : ~Live(c) /\ ~Has(cq, "start", c)
      BY <2>1 DEF IndInv, Sockets, Live
    <2>3. /\ ctx \in Contexts /\ 0 \in 0..MaxPings /\ ctx.backoffCount \in Nat /\ made \in Nat
          /\ n <= made /\ n \in 0..MaxConnections /\ n # 0 /\ rush \in Nat
      BY <2>1, TransportAssumption DEF IndInv, Types, Contexts, Counts
    <2>4. t \in Contexts /\ t.conn = 0 /\ ~t.stopped /\ t.backoffCount = n
      <3> HIDE DEF n
      <3> QED
        BY <2>1, <2>3 DEF Contexts
    <2>5. b \in States /\ b.t = t /\ b.c = cq /\ b.m = mq /\ b.made = made /\ b.rush = rush
      <3> HIDE DEF n
      <3>1. b.t = t /\ b.c = cq /\ b.m = mq /\ b.made = made /\ b.rush = rush
        BY RunningState DEF States, Contexts
      <3>2. b \in States
        <4> HIDE DEF t
        <4> QED
          BY <2>4, <3>1, RunningState DEF States
      <3> QED
        BY <3>1, <3>2
    <2>6. a.t.backoffCount + 1 = n /\ ~a.t.stopped
      BY <2>1, RunningState DEF States, Contexts
    <2>7. ConnectionClosed(a) = IF n = 1 THEN RequestsReconnection([b EXCEPT !.t.backoffTimer = FALSE], FALSE)
                                ELSE [b EXCEPT !.t.backoffTimer = TRUE]
      <3> HIDE DEF a, n
      <3>1. [a EXCEPT !.t.backoffCount = a.t.backoffCount + 1] = b
        BY <2>6, Zenon
      <3>2. ConnectionClosed(a) =
              IF a.t.backoffCount + 1 = 1
                THEN TimerEvent([a EXCEPT !.t.backoffCount = a.t.backoffCount + 1], FALSE)
                ELSE [[a EXCEPT !.t.backoffCount = a.t.backoffCount + 1] EXCEPT !.t.backoffTimer = TRUE]
        BY <2>6 DEF ConnectionClosed
      <3>3. ConnectionClosed(a) = IF n = 1 THEN TimerEvent(b, FALSE) ELSE [b EXCEPT !.t.backoffTimer = TRUE]
        BY <2>6, <3>1, <3>2, Zenon
      <3> HIDE DEF b
      <3> QED
        BY <3>3 DEF TimerEvent
    <2>8. Done([ConnectionClosed(a) EXCEPT !.t.didSend = FALSE, !.t.ping = 0])
      BY <1>2, <1>4 DEF TcpConnectionClosed
    <2> HIDE DEF a, b, t, n
    <2>9. CASE n = 1
      <3> DEFINE e == [b EXCEPT !.t.backoffTimer = FALSE]
                 v == [t EXCEPT !.backoffTimer = FALSE]
                 r == RequestsReconnection(e, FALSE)
                 z == [r EXCEPT !.t.didSend = FALSE, !.t.ping = 0]
      <3>1. v \in Contexts /\ v.conn = 0 /\ ~v.stopped /\ v.backoffCount = n /\ ~v.backoffTimer
        BY <2>4 DEF Contexts
      <3>2. e \in States /\ e.t = v /\ e.c = cq /\ e.m = mq /\ e.made = made /\ e.rush = rush
        <4>1. e.t = v /\ e.c = cq /\ e.m = mq /\ e.made = made /\ e.rush = rush
          BY <2>5 DEF States, Contexts
        <4>2. e \in States
          <5> HIDE DEF v
          <5> QED
            BY <2>5, <3>1, <4>1 DEF States
        <4> QED
          BY <4>1, <4>2
      <3>3. ctx' = z.t /\ cq' = z.c /\ mq' = z.m /\ made' = z.made /\ rush' = z.rush
        BY <2>7, <2>8, <2>9 DEF Done
      <3>4. \/ made = MaxConnections /\ r = e
            \/ /\ made < MaxConnections
               /\ r.t \in Contexts /\ r.m = mq /\ r.made = made + 1 /\ r.t.conn = made + 1
               /\ r.c = Append(cq, Block("start", made + 1, 0))
               /\ r.rush = rush + 1
               /\ r.t.watchdog /\ ~r.t.stopped /\ r.t.backoffCount = n /\ ~r.t.backoffTimer
        <4> HIDE DEF e, v
        <4>1. \/ /\ e.t.stopped \/ e.t.conn # 0 \/ e.made = MaxConnections
                 /\ r = e
              \/ /\ ~e.t.stopped /\ e.t.conn = 0 /\ e.made < MaxConnections
                 /\ r.t \in Contexts /\ r.m = e.m /\ r.made = e.made + 1 /\ r.t.conn = e.made + 1
                 /\ r.c = Append(e.c, Block("start", e.made + 1, 0))
                 /\ r.rush = e.rush + 1
                 /\ r.t.watchdog /\ ~r.t.stopped
                 /\ r.t.backoffCount = e.t.backoffCount /\ r.t.backoffTimer = e.t.backoffTimer
          BY <3>2, ReconnectedFacts
        <4> HIDE DEF r
        <4> QED
          BY <3>1, <3>2, <4>1
      <3> HIDE DEF e, v
      <3>5. r \in States
        <4>1. CASE r = e
          BY <3>2, <4>1
        <4>2. CASE r # e
          <5>1. Append(cq, Block("start", made + 1, 0)) \in Seq(Blocks) /\ made + 1 \in 0..MaxConnections
            <6>1. made < MaxConnections
              BY <3>4, <4>2
            <6>2. Block("start", made + 1, 0) \in Blocks /\ made + 1 \in 0..MaxConnections
              BY <2>3, <6>1, TransportAssumption DEF Block, Blocks, Kinds
            <6> QED
              BY <6>2 DEF IndInv, Queues, QueueOK
          <5>2. mq \in Seq(Blocks) /\ rush + 1 \in Nat
            BY <2>3 DEF IndInv, Queues, QueueOK
          <5>3. r = [t |-> r.t, c |-> r.c, m |-> r.m, made |-> r.made, rush |-> r.rush]
            <6> HIDE <4>2
            <6>1. \/ r = e
                  \/ r = [e EXCEPT !.t.watchdog = TRUE, !.t.conn = e.made + 1, !.made = e.made + 1,
                                   !.c = Append(@, Block("start", e.made + 1, 0)),
                                   !.rush = IF FALSE THEN 0 ELSE @ + 1]
              BY DEF RequestsReconnection
            <6> QED
              BY <3>2, <6>1 DEF States
          <5> HIDE DEF r
          <5> QED
            BY <3>4, <4>2, <5>1, <5>2, <5>3 DEF States
        <4> QED
          BY <4>1, <4>2
      <3> HIDE DEF r
      <3>6. /\ z.c = r.c /\ z.m = r.m /\ z.made = r.made /\ z.rush = r.rush
            /\ z.t = [r.t EXCEPT !.didSend = FALSE, !.ping = 0]
        BY <3>5 DEF States, Contexts
      <3>7. /\ z.t \in Contexts /\ z.t.conn = r.t.conn /\ z.t.stopped = r.t.stopped
            /\ z.t.watchdog = r.t.watchdog /\ z.t.backoffCount = r.t.backoffCount
            /\ z.t.backoffTimer = r.t.backoffTimer
        <4>1. r.t \in Contexts
          BY <3>5 DEF States
        <4> HIDE DEF z
        <4>2. z.t \in Contexts
          BY <2>3, <3>6, <4>1 DEF Contexts
        <4> QED
          BY <3>6, <4>1, <4>2 DEF Contexts
      <3> HIDE DEF z
      <3>8. rush <= 1
        BY <2>3, <2>9 DEF IndInv, Counts, n
      <3>9. CASE made = MaxConnections /\ r = e
        <4>1. /\ ctx' \in Contexts /\ ctx'.conn = 0 /\ ~ctx'.stopped /\ ctx'.backoffCount = n
              /\ cq' = cq /\ mq' = mq /\ made' = made /\ rush' = rush
          BY <3>1, <3>2, <3>3, <3>6, <3>7, <3>9
        <4>2. made \notin 1..(MaxConnections - 1)
          BY <2>3, <3>9
        <4> QED
          BY <1>1, <1>2, <2>2, <2>3, <3>8, <4>1, <4>2, LeaveKeeps
      <3>10. CASE /\ made < MaxConnections
                  /\ r.t \in Contexts /\ r.m = mq /\ r.made = made + 1 /\ r.t.conn = made + 1
                  /\ r.c = Append(cq, Block("start", made + 1, 0))
                  /\ r.rush = rush + 1
                  /\ r.t.watchdog /\ ~r.t.stopped /\ r.t.backoffCount = n /\ ~r.t.backoffTimer
        <4>1. /\ ctx' \in Contexts /\ ctx'.conn = made + 1 /\ ctx'.watchdog /\ ~ctx'.stopped
              /\ ~ctx'.backoffTimer /\ ctx'.backoffCount = n
              /\ cq' = Append(cq, Block("start", made + 1, 0)) /\ mq' = mq /\ made' = made + 1
              /\ rush' = rush + 1
          BY <3>3, <3>6, <3>7, <3>10
        <4>2. rush' \in Nat /\ rush' <= 2 /\ ctx'.backoffCount <= made /\ ctx'.backoffCount # 0
          BY <2>3, <3>8, <4>1
        <4> QED
          BY <1>1, <1>2, <2>2, <2>3, <3>10, <4>1, <4>2, ConnectKeeps
      <3> QED
        BY <3>4, <3>9, <3>10
    <2>10. CASE n # 1
      <3> DEFINE e == [b EXCEPT !.t.backoffTimer = TRUE]
                 z == [e EXCEPT !.t.didSend = FALSE, !.t.ping = 0]
                 v == [t EXCEPT !.backoffTimer = TRUE, !.didSend = FALSE, !.ping = 0]
      <3>1. ctx' = z.t /\ cq' = z.c /\ mq' = z.m /\ made' = z.made /\ rush' = z.rush
        BY <2>7, <2>8, <2>10 DEF Done
      <3>2. z.t = v /\ z.c = cq /\ z.m = mq /\ z.made = made /\ z.rush = rush
        BY <2>5 DEF States, Contexts
      <3>3. v \in Contexts /\ v.conn = 0 /\ ~v.stopped /\ v.backoffCount = n /\ v.backoffTimer
        BY <2>3, <2>4 DEF Contexts
      <3> HIDE DEF e, z, v
      <3> QED
        BY <1>1, <1>2, <2>2, <2>3, <3>1, <3>2, <3>3, LeaveKeeps
    <2> QED
      BY <2>9, <2>10
  <1> QED
    BY <1>3, <1>4

(* connectionIsValid: a connection that loses its watchdog to the late     *)
(* news of the one before it is excused.                                   *)
LEMMA ValidStep ==
  ASSUME IndInv, ConnectionIsValid
  PROVE  IndInv'
  <1> DEFINE current == ctx.conn # 0 /\ ctx.conn = tq[1].n
             t == [ctx EXCEPT !.watchdog = FALSE, !.isValid = @ \/ current,
                              !.backoffCount = IF current THEN 0 ELSE @,
                              !.backoffTimer = @ /\ ~current]
  <1>1. /\ Take(tq, "valid") /\ tq' = Tail(tq)
        /\ UNCHANGED <<made, sock, cq, mq, pings, asked, canAsk, shown, faults, chatter, lostPing>>
    BY DEF ConnectionIsValid
  <1>2. /\ QueueOK(tq', sock, made) /\ OpensFirst(tq')
        /\ Head(tq) = tq[1] /\ tq[1].k = "valid" /\ Fits(tq[1], sock, made)
        /\ ~Has(tq', "opened", tq[1].n)
        /\ \A l, d : Has(tq, l, d) <=> Has(tq', l, d) \/ (l = "valid" /\ d = tq[1].n)
    BY <1>1, TransportTaken
  <1>3. /\ ctx' = t /\ rush' = IF current THEN 0 ELSE rush
        /\ excused' = IF current \/ ctx.conn = 0 THEN excused ELSE excused \cup {ctx.conn}
    BY <1>2, Zenon DEF ConnectionIsValid
  <1>4. ctx \in Contexts /\ 0 \in 0..MaxConnections /\ rush \in Nat
    BY TransportAssumption DEF IndInv, Types
  <1>5. /\ t \in Contexts /\ t.conn = ctx.conn /\ t.stopped = ctx.stopped /\ ~t.watchdog
        /\ t.connected = ctx.connected /\ t.ping = ctx.ping /\ t.didSend = ctx.didSend
        /\ current => t.isValid /\ t.backoffCount = 0 /\ ~t.backoffTimer
        /\ ~current => t.backoffCount = ctx.backoffCount /\ t.backoffTimer = ctx.backoffTimer
    <2> DEFINE v == ctx.isValid \/ current
               n == IF current THEN 0 ELSE ctx.backoffCount
               b == ctx.backoffTimer /\ ~current
    <2>1. t = [ctx EXCEPT !.watchdog = FALSE, !.isValid = v, !.backoffCount = n, !.backoffTimer = b]
      OBVIOUS
    <2>2. v \in BOOLEAN /\ b \in BOOLEAN
      BY Zenon
    <2>3. /\ n \in 0..MaxConnections /\ (current => n = 0) /\ (~current => n = ctx.backoffCount)
      BY <1>4 DEF Contexts
    <2>4. /\ current => v /\ ~b
          /\ ~current => b = ctx.backoffTimer
      <3>1. ctx.backoffTimer \in BOOLEAN
        BY <1>4 DEF Contexts
      <3> QED
        BY <3>1, Zenon
    <2> HIDE DEF v, n, b, current, t
    <2>5. t \in Contexts
      BY <1>4, <2>1, <2>2, <2>3 DEF Contexts
    <2>6. /\ t.conn = ctx.conn /\ t.stopped = ctx.stopped /\ t.watchdog = FALSE
          /\ t.connected = ctx.connected /\ t.ping = ctx.ping /\ t.didSend = ctx.didSend
          /\ t.isValid = v /\ t.backoffCount = n /\ t.backoffTimer = b
      BY <1>4, <2>1 DEF Contexts
    <2> QED
      BY <2>3, <2>4, <2>5, <2>6, Zenon
  <1> HIDE DEF t
  <1>6. ctx.conn # 0 => ctx.conn \in Conns /\ made # 0
    BY <1>4 DEF IndInv, Contexts, Counts
  <1>7. Types'
    <2> HIDE DEF current
    <2>1. excused' \subseteq Conns /\ rush' \in Nat
      BY <1>3, <1>4, <1>6 DEF IndInv, Types
    <2> QED
      BY <1>1, <1>3, <1>5, <2>1 DEF IndInv, Types
  <1>8. Queues'
    BY <1>1, <1>2 DEF IndInv, Queues
  <1>9. Sockets' /\ Stopped'
    BY <1>1, <1>3, <1>5 DEF IndInv, Sockets, Stopped, Live
  <1>10. Counts'
    <2>1. CASE current
      <3>1. ctx'.backoffCount = 0 /\ rush' = 0 /\ ctx'.conn = ctx.conn /\ made' = made
        BY <1>1, <1>3, <1>5, <2>1
      <3>2. made \in Nat /\ made # 0
        BY <1>6, <2>1, TransportAssumption DEF IndInv, Types
      <3> QED
        BY <3>1, <3>2 DEF Counts
    <2>2. CASE ~current
      <3>1. ctx'.backoffCount = ctx.backoffCount /\ rush' = rush /\ ctx'.conn = ctx.conn /\ made' = made
        BY <1>1, <1>3, <1>5, <2>2
      <3> QED
        BY <3>1 DEF IndInv, Counts
    <2> QED
      BY <2>1, <2>2
  <1>11. Reconnection'
    <2>1. /\ ctx'.conn = ctx.conn /\ ctx'.stopped = ctx.stopped /\ made' = made /\ sock' = sock
          /\ \A d : Has(tq, "closed", d) => Has(tq', "closed", d)
      BY <1>1, <1>2, <1>3, <1>5
    <2>2. CASE current
      <3>1. ctx.conn # 0 /\ ~ctx'.backoffTimer
        BY <1>3, <1>5, <2>2
      <3> QED
        BY <2>1, <3>1 DEF IndInv, Reconnection
    <2>3. CASE ~current
      <3>1. ctx'.backoffTimer = ctx.backoffTimer
        BY <1>3, <1>5, <2>3
      <3> QED
        BY <2>1, <3>1 DEF IndInv, Reconnection
    <2> QED
      BY <2>2, <2>3
  <1>12. Watching'
    <2> SUFFICES ASSUME ctx'.conn # 0 PROVE Watching'
      BY DEF Watching
    <2>1. CASE current
      <3>1. ctx'.isValid /\ ctx'.conn = tq[1].n /\ sock'[ctx'.conn] \in {"open", "closed"}
        BY <1>1, <1>2, <1>3, <1>5, <2>1 DEF Fits
      <3> QED
        BY <1>2, <3>1 DEF Watching
    <2>2. CASE ~current
      <3>1. ctx'.conn \in excused'
        BY <1>3, <1>5, <2>2
      <3> QED
        BY <3>1 DEF Watching
    <2> QED
      BY <2>1, <2>2
  <1>13. Updating'
    BY <1>1, <1>2, <1>3, <1>5 DEF IndInv, Updating, Ending
  <1> QED
    BY <1>7, <1>8, <1>9, <1>10, <1>11, <1>12, <1>13 DEF IndInv

(* The watchdog has reported. *)
LEMMA WatchdogStep ==
  ASSUME IndInv, ConnectionWatchdogTimeout
  PROVE  IndInv'
  <1>1. /\ ctx' = [ctx EXCEPT !.watchdog = FALSE]
        /\ excused' = IF ctx.conn = 0 THEN excused ELSE excused \cup {ctx.conn}
        /\ UNCHANGED <<made, sock, tq, cq, mq, pings, asked, canAsk, shown, faults, chatter, rush,
                       lostPing>>
    BY DEF ConnectionWatchdogTimeout
  <1>2. ctx \in Contexts
    BY DEF IndInv, Types
  <1>3. /\ ctx' \in Contexts /\ ctx'.conn = ctx.conn /\ ctx'.stopped = ctx.stopped /\ ~ctx'.watchdog
        /\ ctx'.connected = ctx.connected /\ ctx'.ping = ctx.ping /\ ctx'.didSend = ctx.didSend
        /\ ctx'.backoffCount = ctx.backoffCount /\ ctx'.backoffTimer = ctx.backoffTimer
    BY <1>1, <1>2 DEF Contexts
  <1>4. Types'
    <2>1. excused' \subseteq Conns
      BY <1>1, <1>2 DEF IndInv, Types, Contexts
    <2> QED
      BY <1>1, <1>3, <2>1 DEF IndInv, Types
  <1>5. Queues' /\ Sockets' /\ Stopped' /\ Counts' /\ Reconnection'
    BY <1>1, <1>3 DEF IndInv, Queues, Sockets, Stopped, Live, Counts, Reconnection
  <1>6. Watching'
    BY <1>1, <1>3 DEF Watching
  <1>7. Updating'
    BY <1>1, <1>3 DEF IndInv, Updating, Ending
  <1> QED
    BY <1>4, <1>5, <1>6, <1>7 DEF IndInv

(* The connection of the moment, if there is one, is told to close. *)
LEMMA ClosePosted ==
  ASSUME IndInv,
         cq' = IF ctx.conn = 0 THEN cq ELSE Append(cq, Block("close", ctx.conn, 0))
  PROVE  /\ QueueOK(cq', sock, made) /\ StartsFirst(cq')
         /\ \A l, d : Has(cq', l, d) <=>
              Has(cq, l, d) \/ (l = "close" /\ d = ctx.conn /\ ctx.conn # 0)
  <1> DEFINE b == Block("close", ctx.conn, 0)
  <1>1. QueueOK(cq, sock, made) /\ StartsFirst(cq)
    BY DEF IndInv, Queues
  <1>2. CASE ctx.conn = 0
    BY <1>1, <1>2
  <1>3. CASE ctx.conn # 0
    <2>1. ctx.conn \in Conns /\ ctx.conn <= made
      BY <1>3 DEF IndInv, Types, Contexts, Sockets
    <2>2. b.k = "close" /\ b.n = ctx.conn /\ Fits(b, sock, made)
      BY <2>1, TransportAssumption DEF Fits, Block, Blocks, Kinds, Conns
    <2>3. cq' = Append(cq, b)
      BY <1>3
    <2> HIDE DEF b
    <2> QED
      BY <1>1, <1>3, <2>2, <2>3, PostedFacts
  <1> QED
    BY <1>2, <1>3

(* _networkAvailabilityChanged: the connection is closed, and with a       *)
(* network the failures are forgotten.                                     *)
LEMMA NetworkStep ==
  ASSUME IndInv, NetworkAvailabilityChanged
  PROVE  IndInv'
  <1>1. /\ Take(tq, "network") /\ tq' = Tail(tq)
        /\ UNCHANGED <<made, sock, mq, pings, asked, canAsk, shown, faults, chatter, excused, lostPing>>
    BY DEF NetworkAvailabilityChanged
  <1>2. /\ QueueOK(tq', sock, made) /\ OpensFirst(tq') /\ Head(tq) = tq[1]
        /\ \A l, d : Has(tq, l, d) <=> Has(tq', l, d) \/ (l = "network" /\ d = tq[1].n)
    BY <1>1, TransportTaken
  <1>3. /\ QueueOK(cq', sock, made) /\ StartsFirst(cq')
        /\ \A l, d : Has(cq', l, d) <=>
             Has(cq, l, d) \/ (l = "close" /\ d = ctx.conn /\ ctx.conn # 0)
    BY ClosePosted DEF NetworkAvailabilityChanged
  <1>4. ctx \in Contexts /\ 0 \in 0..MaxConnections /\ rush \in Nat /\ made \in Nat
    BY TransportAssumption DEF IndInv, Types
  <1>5. /\ ctx' \in Contexts /\ ctx'.conn = ctx.conn /\ ctx'.stopped = ctx.stopped
        /\ ctx'.watchdog = ctx.watchdog /\ ctx'.connected = ctx.connected /\ ctx'.ping = ctx.ping
        /\ ctx'.didSend = ctx.didSend /\ ctx'.isValid = ctx.isValid
        /\ ctx'.backoffTimer = ctx.backoffTimer
        /\ \/ ctx'.backoffCount = ctx.backoffCount /\ rush' = rush
           \/ ctx'.backoffCount = 0 /\ rush' = 0
    <2>1. /\ ctx' = [ctx EXCEPT !.backoffCount = IF Head(tq).n = 1 THEN 0 ELSE @]
          /\ rush' = IF Head(tq).n = 1 THEN 0 ELSE rush
      BY DEF NetworkAvailabilityChanged
    <2> QED
      BY <1>4, <2>1 DEF Contexts
  <1>6. Types'
    BY <1>1, <1>4, <1>5 DEF IndInv, Types
  <1>7. Queues'
    BY <1>1, <1>2, <1>3 DEF IndInv, Queues
  <1>8. Sockets' /\ Stopped'
    BY <1>1, <1>3, <1>5 DEF IndInv, Sockets, Stopped, Live
  <1>9. Counts'
    BY <1>1, <1>4, <1>5 DEF IndInv, Counts, Contexts
  <1>10. Reconnection' /\ Watching'
    BY <1>1, <1>2, <1>5 DEF IndInv, Reconnection, Watching
  <1>11. Updating'
    BY <1>1, <1>2, <1>3, <1>5 DEF IndInv, Updating, Ending
  <1> QED
    BY <1>6, <1>7, <1>8, <1>9, <1>10, <1>11 DEF IndInv

(* stop. *)
LEMMA StopStep ==
  ASSUME IndInv, Stop
  PROVE  IndInv'
  <1>1. /\ Take(tq, "stop") /\ tq' = Tail(tq)
        /\ UNCHANGED <<made, sock, mq, pings, asked, canAsk, shown, faults, chatter, rush, excused,
                       lostPing>>
    BY DEF Stop
  <1>2. QueueOK(tq', sock, made) /\ OpensFirst(tq')
    BY <1>1, TransportTaken
  <1>3. /\ QueueOK(cq', sock, made) /\ StartsFirst(cq')
        /\ \A l, d : Has(cq', l, d) <=>
             Has(cq, l, d) \/ (l = "close" /\ d = ctx.conn /\ ctx.conn # 0)
    BY ClosePosted DEF Stop
  <1>4. ctx \in Contexts /\ made \in Nat
    BY TransportAssumption DEF IndInv, Types
  <1>5. /\ ctx' \in Contexts /\ ctx'.conn = 0 /\ ctx'.stopped /\ ~ctx'.watchdog /\ ~ctx'.connected
        /\ ctx'.backoffCount = ctx.backoffCount
    BY <1>4 DEF Stop, Contexts
  <1>6. Types'
    BY <1>1, <1>5 DEF IndInv, Types
  <1>7. Queues'
    BY <1>1, <1>2, <1>3 DEF IndInv, Queues
  <1>8. Sockets'
    BY <1>1, <1>3, <1>4, <1>5 DEF IndInv, Sockets
  <1>9. Stopped'
    BY <1>1, <1>3, <1>5 DEF IndInv, Sockets, Stopped, Live, Conns
  <1>10. Counts'
    BY <1>1, <1>5 DEF IndInv, Counts
  <1>11. Reconnection' /\ Watching' /\ Updating'
    BY <1>5 DEF Reconnection, Watching, Updating, Ending
  <1> QED
    BY <1>6, <1>7, <1>8, <1>9, <1>10, <1>11 DEF IndInv

-----------------------------------------------------------------------------
(* What the invariant says holds after every step. *)
THEOREM Invariance == Spec => []IndInv
  <1>1. Init => IndInv
    <2> SUFFICES ASSUME Init PROVE IndInv
      OBVIOUS
    <2>1. 0 \in 0..MaxConnections /\ 0 \in 0..MaxPings /\ 0 \in 0..MaxFaults /\ 0 \in 0..MaxChatter
      BY TransportAssumption
    <2>2. ctx \in Contexts /\ ctx.conn = 0 /\ ~ctx.stopped /\ ctx.backoffCount = 0
      BY <2>1 DEF Init, FreshContext, Contexts
    <2>3. canAsk \in BOOLEAN /\ shown \in BOOLEAN /\ lostPing \in BOOLEAN
      BY Zenon DEF Init
    <2>4. Types
      BY <2>1, <2>2, <2>3 DEF Init, Types
    <2>5. \A l, d : ~Has(<<>>, l, d)
      BY DEF Has
    <2>6. QueueOK(<<>>, sock, made) /\ OpensFirst(<<>>) /\ StartsFirst(<<>>)
      BY DEF QueueOK, OpensFirst, StartsFirst
    <2>7. Queues
      BY <2>6 DEF Init, Queues
    <2>8. Sockets /\ Stopped /\ Counts /\ Reconnection /\ Watching /\ Updating
      BY <2>2, <2>5 DEF Init, Sockets, Stopped, Counts, Reconnection, Watching, Updating, Ending,
                        Live, Conns
    <2> QED
      BY <2>4, <2>7, <2>8 DEF IndInv
  <1>2. IndInv /\ [Next]_vars => IndInv'
    <2> SUFFICES ASSUME IndInv, [Next]_vars PROVE IndInv'
      OBVIOUS
    <2>1. CASE RunTransport
      BY <2>1, NeedsStep, PassStep, OpenedStep, ClosedStep, DataStep, ValidStep, SessionStep,
         ReadyStep, PingSentStep, NetworkStep, StopStep DEF RunTransport
    <2>2. CASE RunConnection
      BY <2>2, StartStep, StopConnectionStep, SendStep DEF RunConnection
    <2>3. CASE RunManager
      BY <2>3, ReadyForTransactionStep, IncomingStep, InvalidStep, CompletedStep,
         ContextUpdateStep DEF RunManager
    <2>4. CASE Timers
      BY <2>4, BackoffStep, WatchdogStep, ResendStep DEF Timers
    <2>5. CASE Environment
      BY <2>5, EnvironmentStep, SocketOpensStep, SocketFailsStep DEF Environment
    <2>6. CASE UNCHANGED vars
      BY <2>6 DEF vars, IndInv, Types, Queues, Sockets, Live, Stopped, Counts, Reconnection,
                  Watching, Updating, Ending
    <2> QED
      BY <2>1, <2>2, <2>3, <2>4, <2>5, <2>6 DEF Next
  <1> QED
    BY <1>1, <1>2, PTL DEF Spec

(* After stop no connection comes to life again, whatever timer, pass of   *)
(* the queue or news of a connection was still due.                        *)
THEOREM StaysStopped == Spec => []NoConnectionAfterStop
  <1>1. IndInv => NoConnectionAfterStop
    <2> SUFFICES ASSUME IndInv, ctx.stopped PROVE NoConnectionAfterStop
      BY DEF NoConnectionAfterStop
    <2>1. DOMAIN cq = 1..Len(cq)
      BY DEF IndInv, Queues, QueueOK
    <2> QED
      BY <2>1 DEF IndInv, Stopped, Live, Has, NoConnectionAfterStop
  <1> QED
    BY <1>1, Invariance, PTL

(* At most one connection is alive, the one the transport believes in. *)
THEOREM OneAlive == Spec => []OneLiveConnection
  <1>1. IndInv => OneLiveConnection
    <2> SUFFICES ASSUME IndInv PROVE OneLiveConnection
      OBVIOUS
    <2>1. tq \in Seq(Blocks) /\ cq \in Seq(Blocks) /\ mq \in Seq(Blocks)
      BY DEF IndInv, Queues, QueueOK
    <2>2. TypeOK
      BY <2>1 DEF IndInv, Types, Contexts, TypeOK
    <2> QED
      BY <2>2 DEF IndInv, Sockets, Live, OneLiveConnection
  <1> QED
    BY <1>1, Invariance, PTL

(* A transport that was asked for a connection has one, or its back-off    *)
(* timer runs, and the end of a connection never goes unnoticed.           *)
THEOREM Reconnects == Spec => []ReconnectionIsDue
  <1>1. IndInv => ReconnectionIsDue
    <2> SUFFICES ASSUME IndInv PROVE ReconnectionIsDue
      OBVIOUS
    <2>1. DOMAIN tq = 1..Len(tq)
      BY DEF IndInv, Queues, QueueOK
    <2> QED
      BY <2>1 DEF IndInv, Reconnection, Has, ReconnectionIsDue
  <1> QED
    BY <1>1, Invariance, PTL

(* A server that accepts and closes sees two connections in a row, then a  *)
(* wait.                                                                   *)
THEOREM Spaced == Spec => []ReconnectsAreSpaced
  <1>1. IndInv => ReconnectsAreSpaced
    BY DEF IndInv, Counts, ReconnectsAreSpaced
  <1> QED
    BY <1>1, Invariance, PTL

(* A connection that brought no valid data has its watchdog, or is         *)
(* excused.                                                                *)
THEOREM Watched == Spec => []UnprovenIsWatched
  <1>1. IndInv => UnprovenIsWatched
    BY DEF IndInv, Watching, UnprovenIsWatched
  <1> QED
    BY <1>1, Invariance, PTL

(* MTProto is never left believing that its connection context is being    *)
(* updated with nothing on its way that will end it.                       *)
THEOREM UpdateEnds == Spec => []UpdateWillEnd
  <1>1. IndInv => UpdateWillEnd
    <2> SUFFICES ASSUME IndInv, shown PROVE UpdateWillEnd
      BY DEF UpdateWillEnd
    <2>1. DOMAIN tq = 1..Len(tq) /\ DOMAIN cq = 1..Len(cq) /\ DOMAIN mq = 1..Len(mq)
      BY DEF IndInv, Queues, QueueOK
    <2>2. CASE Ending
      BY <2>1, <2>2 DEF Ending, Has, Due, UpdateWillEnd
    <2>3. CASE ~Shows(mq, shown)
      <3>1. Due(mq, "updating")
        BY <2>1, <2>3 DEF Shows, Due
      <3> QED
        BY <3>1 DEF UpdateWillEnd
    <2> QED
      BY <2>2, <2>3 DEF IndInv, Updating
  <1> QED
    BY <1>1, Invariance, PTL
=============================================================================
