--------------------------- MODULE MTTcpTransport ---------------------------
(***************************************************************************)
(* How one MTTcpTransport keeps a connection: the back-off of              *)
(* MTTcpConnectionBehaviour, the connection watchdog, and the ping that    *)
(* tells MTProto that its connection context is up to date.                *)
(*                                                                         *)
(* Three serial queues take part.  tq is tcpTransportQueue, cq is tcpQueue *)
(* with the connections, mq the part of MTProto's manager queue that comes *)
(* from or goes to this transport.  A Run action executes the block at the *)
(* head of its queue; a block posted to the queue that is running is       *)
(* executed at once, as dispatchOnQueue does.                              *)
(***************************************************************************)
EXTENDS Naturals, Sequences, FiniteSets

CONSTANTS MaxConnections,  \* connections the transport makes
          MaxPings,        \* pings MTProto prepares
          FaultKinds,      \* "close", "session", "restart", "network", "block", "stop", "bad"
          MaxFaults,       \* how many of them may happen
          MaxChatter       \* requests for a transaction and data that is no pong

ASSUME TransportAssumption ==
  /\ MaxConnections \in Nat \ {0} /\ MaxPings \in Nat \ {0}
  /\ FaultKinds \subseteq {"close", "session", "restart", "network", "block", "stop", "bad"}
  /\ MaxFaults \in Nat /\ MaxChatter \in Nat \ {0}

Conns == 1..MaxConnections

VARIABLES
  ctx,      \* MTTcpTransportContext and its MTTcpConnectionBehaviour
  made,     \* connections made so far; the current one is ctx.conn
  sock,     \* MTTcpConnection: "none", "starting", "open" or "closed"
  tq, cq, mq,
  pings,    \* pings prepared so far
  asked,    \* <<connection, ping>>: pings the server has to answer
  canAsk,   \* MTProto can ask for transactions
  shown,    \* the connection context MTProto was last told: updating or not
  faults, chatter,
  rush,     \* connections since the last wait, valid data or new network
  excused,  \* connections the watchdog reported, or that lost it
  lostPing  \* MTProto refused the transaction with the last ping

vars == <<ctx, made, sock, tq, cq, mq, pings, asked, canAsk, shown, faults, chatter,
          rush, excused, lostPing>>

FreshContext ==
  [conn |-> 0, connected |-> FALSE, stopped |-> FALSE, willRequest |-> FALSE,
   backoffCount |-> 0, backoffTimer |-> FALSE, watchdog |-> FALSE,
   isValid |-> FALSE, didSend |-> FALSE, ping |-> 0, pingTimer |-> FALSE,
   locked |-> FALSE, another |-> FALSE]

Init ==
  /\ ctx = FreshContext
  /\ made = 0
  /\ sock = [c \in Conns |-> "none"]
  /\ tq = <<>> /\ cq = <<>> /\ mq = <<>>
  /\ pings = 0 /\ asked = {}
  /\ canAsk = TRUE /\ shown = FALSE
  /\ faults = 0 /\ chatter = 0
  /\ rush = 0 /\ excused = {} /\ lostPing = FALSE

Kinds == {"needs", "pass", "opened", "closed", "data", "valid", "pong", "ready",
          "pingSent", "session", "newSession", "network", "stop",  \* on tq
          "start", "close", "write",                           \* on cq
          "transaction", "incoming", "sent", "updating"}       \* on mq
Blocks == [k : Kinds, n : 0..MaxConnections, p : 0..MaxPings]
Block(k, n, p) == [k |-> k, n |-> n, p |-> p]
Due(q, k) == \E i \in DOMAIN q : q[i].k = k

TypeOK ==
  /\ ctx \in [conn : {0} \cup Conns, connected : BOOLEAN, stopped : BOOLEAN,
              willRequest : BOOLEAN, backoffCount : 0..MaxConnections,
              backoffTimer : BOOLEAN, watchdog : BOOLEAN, isValid : BOOLEAN,
              didSend : BOOLEAN, ping : 0..MaxPings, pingTimer : BOOLEAN,
              locked : BOOLEAN, another : BOOLEAN]
  /\ made \in 0..MaxConnections /\ pings \in 0..MaxPings /\ faults \in 0..MaxFaults
  /\ chatter \in 0..MaxChatter
  /\ sock \in [Conns -> {"none", "starting", "open", "closed"}]
  /\ tq \in Seq(Blocks) /\ cq \in Seq(Blocks) /\ mq \in Seq(Blocks)
  /\ asked \subseteq Conns \X (1..MaxPings)
  /\ rush \in Nat /\ excused \subseteq Conns
  /\ canAsk \in BOOLEAN /\ shown \in BOOLEAN /\ lostPing \in BOOLEAN

-----------------------------------------------------------------------------
(* A block changes t, the transport's state, and posts to cq and mq.  The  *)
(* operators below take and return a record of all of it, because they     *)
(* call each other inside one block.                                       *)

Running == [t |-> ctx, c |-> cq, m |-> mq, made |-> made, rush |-> rush]

ToMTProto(s, b) == [s EXCEPT !.m = Append(@, b)]

(* startIfNeeded, reached through tcpConnectionBehaviourRequestsReconnection. *)
(* The mutants connect after stop, or without the watchdog.                *)
StartUnwatched(s, waited) ==
  IF s.t.stopped \/ s.t.conn # 0 \/ s.made = MaxConnections THEN s ELSE
    [s EXCEPT !.t.conn = s.made + 1, !.made = s.made + 1,
              !.c = Append(@, Block("start", s.made + 1, 0)),
              !.rush = IF waited THEN 0 ELSE @ + 1]

StartUnchecked(s, waited) ==
  IF s.t.conn # 0 \/ s.made = MaxConnections THEN s ELSE
    [s EXCEPT !.t.watchdog = TRUE, !.t.conn = s.made + 1, !.made = s.made + 1,
              !.c = Append(@, Block("start", s.made + 1, 0)),
              !.rush = IF waited THEN 0 ELSE @ + 1]

RequestsReconnection(s, waited) ==
  IF s.t.stopped \/ s.t.conn # 0 \/ s.made = MaxConnections THEN s ELSE
    [s EXCEPT !.t.watchdog = TRUE, !.t.conn = s.made + 1, !.made = s.made + 1,
              !.c = Append(@, Block("start", s.made + 1, 0)),
              !.rush = IF waited THEN 0 ELSE @ + 1]

(* MTTcpConnectionBehaviour.  needsReconnection is cleared by stop only.   *)
TimerEvent(s, waited) ==
  RequestsReconnection([s EXCEPT !.t.backoffTimer = FALSE], waited)

RequestConnection(s) == IF s.t.backoffTimer THEN s ELSE TimerEvent(s, FALSE)

(* The mutant leaves the later attempts to the next request. *)
ConnectionClosedOnce(s) ==
  IF s.t.stopped THEN s ELSE
    LET n == s.t.backoffCount + 1
        counted == [s EXCEPT !.t.backoffCount = n]
    IN IF n = 1 THEN TimerEvent(counted, FALSE) ELSE counted

ConnectionClosed(s) ==
  IF s.t.stopped THEN s ELSE
    LET n == s.t.backoffCount + 1
        counted == [s EXCEPT !.t.backoffCount = n]
    IN IF n = 1 THEN TimerEvent(counted, FALSE)
                ELSE [counted EXCEPT !.t.backoffTimer = TRUE]

(* The mutant takes an open connection for a good one. *)
ConnectionOpenedResets(s) == [s EXCEPT !.t.backoffCount = 0, !.t.backoffTimer = FALSE]

(* connectionOpened: its reset of the back-off is commented out. *)
ConnectionOpened(s) == s

(* _requestTransactionFromDelegate.  late: the lock is older than a second *)
RequestTransaction(s, late) ==
  IF s.t.locked /\ s.t.didSend /\ ~late
    THEN [s EXCEPT !.t.another = TRUE]
    ELSE ToMTProto([s EXCEPT !.t.locked = TRUE, !.t.didSend = TRUE],
                   Block("transaction", IF s.t.didSend THEN 0 ELSE 1, 0))

(* The end of a block: s is the new state. *)
Done(s) ==
  /\ ctx' = s.t /\ cq' = s.c /\ mq' = s.m /\ made' = s.made /\ rush' = s.rush

-----------------------------------------------------------------------------
(* Blocks of the transport queue. *)

Take(q, k) == q # <<>> /\ Head(q).k = k

SetDelegateNeedsTransaction ==
  /\ Take(tq, "needs")
  /\ tq' = IF ctx.willRequest THEN Tail(tq) ELSE Append(Tail(tq), Block("pass", 0, 0))
  /\ ctx' = [ctx EXCEPT !.willRequest = TRUE]
  /\ UNCHANGED <<made, sock, cq, mq, pings, asked, canAsk, shown, faults, chatter, rush, excused, lostPing>>

QueuePass ==
  /\ Take(tq, "pass")
  /\ tq' = Tail(tq)
  /\ LET s == [Running EXCEPT !.t.willRequest = FALSE]
     IN \E late \in {FALSE, ctx.locked} :
          Done(CASE ctx.conn = 0 -> RequestConnection(s)
                 [] ctx.conn # 0 /\ ctx.connected -> RequestTransaction(s, late)
                 [] OTHER -> s)
  /\ UNCHANGED <<sock, pings, asked, canAsk, shown, faults, chatter, excused, lostPing>>

TcpConnectionOpened ==
  /\ Take(tq, "opened")
  /\ tq' = Tail(tq)
  /\ \E late \in {FALSE, ctx.locked} :
       Done(IF ctx.conn # Head(tq).n THEN Running ELSE
              RequestTransaction(
                ConnectionOpened([Running EXCEPT !.t.connected = TRUE, !.t.isValid = FALSE,
                                                 !.t.didSend = FALSE, !.t.ping = 0]), late))
  /\ UNCHANGED <<sock, pings, asked, canAsk, shown, faults, chatter, excused, lostPing>>

TcpConnectionClosed ==
  /\ Take(tq, "closed")
  /\ tq' = Tail(tq)
  /\ Done(IF ctx.conn # Head(tq).n THEN Running ELSE
            LET s == ConnectionClosed([Running EXCEPT !.t.connected = FALSE,
                                                      !.t.isValid = FALSE, !.t.conn = 0])
            IN [s EXCEPT !.t.didSend = FALSE, !.t.ping = 0])
  /\ UNCHANGED <<sock, pings, asked, canAsk, shown, faults, chatter, excused, lostPing>>

TcpConnectionReceivedData ==
  /\ Take(tq, "data")
  /\ tq' = Tail(tq)
  /\ Done(IF ctx.conn # Head(tq).n THEN Running ELSE
            ToMTProto([Running EXCEPT !.t.pingTimer = @ \/ ctx.ping # 0],
                      Block("incoming", ctx.conn, Head(tq).p)))
  /\ UNCHANGED <<sock, pings, asked, canAsk, shown, faults, chatter, excused, lostPing>>

(* connectionIsValid: the watchdog is stopped whatever connection it was.  *)
(* The mutant takes any valid data for a sign of the present connection.   *)
AnyConnectionIsValid ==
  /\ Take(tq, "valid")
  /\ tq' = Tail(tq)
  /\ ctx' = [ctx EXCEPT !.watchdog = FALSE, !.isValid = TRUE, !.backoffCount = 0,
                        !.backoffTimer = FALSE]
  /\ rush' = IF ctx.conn = Head(tq).n THEN 0 ELSE rush
  /\ excused' = excused
  /\ UNCHANGED <<made, sock, cq, mq, pings, asked, canAsk, shown, faults, chatter, lostPing>>

ConnectionIsValid ==
  /\ Take(tq, "valid")
  /\ tq' = Tail(tq)
  /\ LET current == ctx.conn # 0 /\ ctx.conn = Head(tq).n
     IN /\ ctx' = [ctx EXCEPT !.watchdog = FALSE,
                              !.isValid = @ \/ current,
                              !.backoffCount = IF current THEN 0 ELSE @,
                              !.backoffTimer = @ /\ ~current]
        /\ rush' = IF current THEN 0 ELSE rush
        /\ excused' = IF current \/ ctx.conn = 0 THEN excused ELSE excused \cup {ctx.conn}
  /\ UNCHANGED <<made, sock, cq, mq, pings, asked, canAsk, shown, faults, chatter, lostPing>>

(* The mutant does not tell MTProto. *)
ReceivedPongQuietly ==
  /\ Take(tq, "pong")
  /\ tq' = Tail(tq)
  /\ Done(IF ctx.ping = 0 \/ ctx.ping # Head(tq).p THEN Running ELSE
            [Running EXCEPT !.t.ping = 0, !.t.pingTimer = FALSE])
  /\ UNCHANGED <<sock, pings, asked, canAsk, shown, faults, chatter, excused, lostPing>>

(* mtProto:receivedMessage: and mtProto:messageDeliveryFailed: for the ping *)
ReceivedPong ==
  /\ Take(tq, "pong")
  /\ tq' = Tail(tq)
  /\ Done(IF ctx.ping = 0 \/ ctx.ping # Head(tq).p THEN Running ELSE
            ToMTProto([Running EXCEPT !.t.ping = 0, !.t.pingTimer = FALSE],
                      Block("updating", 0, 0)))
  /\ UNCHANGED <<sock, pings, asked, canAsk, shown, faults, chatter, excused, lostPing>>

(* transactionReady: n = 1 when the list holds the ping p.  Its payload is *)
(* written or fails at once, then the lock is released.                    *)
TransactionReady ==
  /\ Take(tq, "ready")
  /\ tq' = Tail(tq)
  /\ LET s == IF Head(tq).n = 1 /\ ctx.conn # 0
                THEN [Running EXCEPT !.c = Append(@, Block("write", ctx.conn, Head(tq).p))]
                ELSE Running
         unlocked == [s EXCEPT !.t.locked = FALSE, !.t.another = FALSE]
     IN Done(IF ctx.another THEN RequestTransaction(unlocked, FALSE) ELSE unlocked)
  /\ UNCHANGED <<sock, pings, asked, canAsk, shown, faults, chatter, excused, lostPing>>

(* The completion of the ping's transaction, whatever happened since. *)
PingSent ==
  /\ Take(tq, "pingSent")
  /\ tq' = Tail(tq)
  /\ Done(ToMTProto([Running EXCEPT !.t.ping = Head(tq).p], Block("updating", 1, 0)))
  /\ UNCHANGED <<sock, pings, asked, canAsk, shown, faults, chatter, excused, lostPing>>

MtProtoDidChangeSession ==
  /\ Take(tq, "session")
  /\ tq' = Tail(tq)
  /\ Done(ToMTProto([Running EXCEPT !.t.ping = 0, !.t.pingTimer = FALSE],
                    Block("updating", 0, 0)))
  /\ UNCHANGED <<sock, pings, asked, canAsk, shown, faults, chatter, excused, lostPing>>

(* new_session_created: the ping may be older than the server's session.   *)
MtProtoServerDidChangeSession ==
  /\ Take(tq, "newSession")
  /\ tq' = Tail(tq)
  /\ \/ /\ ctx.ping # 0
        /\ Done(ToMTProto([Running EXCEPT !.t.ping = 0, !.t.pingTimer = FALSE],
                          Block("updating", 0, 0)))
     \/ Done(Running)
  /\ UNCHANGED <<sock, pings, asked, canAsk, shown, faults, chatter, excused, lostPing>>

(* The mutant does not wait for the old connection to end. *)
NetworkChangedAtOnce ==
  /\ Take(tq, "network")
  /\ tq' = Tail(tq)
  /\ Done(RequestConnection([Running EXCEPT !.t.conn = 0, !.t.connected = FALSE]))
  /\ UNCHANGED <<sock, pings, asked, canAsk, shown, faults, chatter, excused, lostPing>>

(* _networkAvailabilityChanged: n = 1 when there is a network.  reset only *)
(* closes the connection, as n = 0 does.                                   *)
NetworkAvailabilityChanged ==
  /\ Take(tq, "network")
  /\ tq' = Tail(tq)
  /\ ctx' = [ctx EXCEPT !.backoffCount = IF Head(tq).n = 1 THEN 0 ELSE @]
  /\ rush' = IF Head(tq).n = 1 THEN 0 ELSE rush
  /\ cq' = IF ctx.conn = 0 THEN cq ELSE Append(cq, Block("close", ctx.conn, 0))
  /\ UNCHANGED <<made, sock, mq, pings, asked, canAsk, shown, faults, chatter, excused, lostPing>>

(* stop: the back-off timer goes on. *)
Stop ==
  /\ Take(tq, "stop")
  /\ tq' = Tail(tq)
  /\ ctx' = [ctx EXCEPT !.stopped = TRUE, !.connected = FALSE, !.isValid = FALSE,
                        !.conn = 0, !.watchdog = FALSE, !.pingTimer = FALSE]
  /\ cq' = IF ctx.conn = 0 THEN cq ELSE Append(cq, Block("close", ctx.conn, 0))
  /\ UNCHANGED <<made, sock, mq, pings, asked, canAsk, shown, faults, chatter, rush, excused, lostPing>>

(* The timers of the transport queue. *)
BackoffTimerFires ==
  /\ ctx.backoffTimer
  /\ Done(TimerEvent(Running, TRUE))
  /\ UNCHANGED <<sock, tq, pings, asked, canAsk, shown, faults, chatter, excused, lostPing>>

ConnectionWatchdogTimeout ==
  /\ ctx.watchdog
  /\ ctx' = [ctx EXCEPT !.watchdog = FALSE]
  /\ excused' = IF ctx.conn = 0 THEN excused ELSE excused \cup {ctx.conn}
  /\ UNCHANGED <<made, sock, tq, cq, mq, pings, asked, canAsk, shown, faults, chatter, rush, lostPing>>

ResendActualizationPing ==
  /\ ctx.pingTimer
  /\ LET s == [Running EXCEPT !.t.pingTimer = FALSE]
     IN \E late \in {FALSE, ctx.locked} :
          Done(IF ctx.ping = 0 THEN s ELSE
                 RequestTransaction([s EXCEPT !.t.didSend = FALSE, !.t.ping = 0], late))
  /\ UNCHANGED <<sock, tq, pings, asked, canAsk, shown, faults, chatter, excused, lostPing>>

-----------------------------------------------------------------------------
(* MTTcpConnection and its socket, on tcpQueue. *)

Fault(k) == k \in FaultKinds /\ faults < MaxFaults /\ faults' = faults + 1

Post(k, n, p) == tq' = Append(tq, Block(k, n, p))

ConnectionStart ==
  /\ Take(cq, "start")
  /\ cq' = Tail(cq)
  /\ sock' = [sock EXCEPT ![Head(cq).n] = "starting"]
  /\ UNCHANGED <<ctx, made, tq, mq, pings, asked, canAsk, shown, faults, chatter, rush, excused, lostPing>>

CloseAndNotify(c) ==
  /\ sock' = [sock EXCEPT ![c] = "closed"]
  /\ tq' = IF sock[c] = "closed" THEN tq ELSE Append(tq, Block("closed", c, 0))

ConnectionStop ==
  /\ Take(cq, "close")
  /\ cq' = Tail(cq)
  /\ CloseAndNotify(Head(cq).n)
  /\ UNCHANGED <<ctx, made, mq, pings, asked, canAsk, shown, faults, chatter, rush, excused, lostPing>>

(* sendDatas: the socket takes what is written from its start, while it    *)
(* still connects, until it is closed.                                     *)
SendDatas ==
  /\ Take(cq, "write")
  /\ cq' = Tail(cq)
  /\ LET b == Head(cq) IN
       IF sock[b.n] \in {"starting", "open"}
         THEN asked' = asked \cup {<<b.n, b.p>>} /\ mq' = Append(mq, Block("sent", 0, b.p))
         ELSE UNCHANGED <<asked, mq>>
  /\ UNCHANGED <<ctx, made, sock, tq, pings, canAsk, shown, faults, chatter, rush, excused, lostPing>>

SocketOpens(c) ==
  /\ sock[c] = "starting"
  /\ sock' = [sock EXCEPT ![c] = "open"]
  /\ Post("opened", c, 0)
  /\ UNCHANGED <<ctx, made, cq, mq, pings, asked, canAsk, shown, faults, chatter, rush, excused, lostPing>>

(* No connection, a timeout, an error of the stream, or the other side. *)
SocketFails(c) ==
  /\ sock[c] \in {"starting", "open"}
  /\ Fault("close")
  /\ CloseAndNotify(c)
  /\ UNCHANGED <<ctx, made, cq, mq, pings, asked, canAsk, shown, chatter, rush, excused, lostPing>>

(* The server: it answers a ping, or sends something else. *)
Pong(c) ==
  /\ sock[c] = "open"
  /\ \E a \in asked :
       /\ a[1] = c
       /\ asked' = asked \ {a}
       /\ Post("data", c, a[2])
  /\ UNCHANGED <<ctx, made, sock, cq, mq, pings, canAsk, shown, faults, chatter, rush, excused, lostPing>>

ServerData(c) ==
  /\ chatter < MaxChatter /\ chatter' = chatter + 1
  /\ sock[c] = "open"
  /\ Post("data", c, 0)
  /\ UNCHANGED <<ctx, made, sock, cq, mq, pings, asked, canAsk, shown, faults, rush, excused, lostPing>>

-----------------------------------------------------------------------------
(* MTProto. *)

(* transportReadyForTransaction: while MTProto waits for a key, a token or *)
(* the time, it answers with an empty list and the ping is not sent.       *)
TransportReadyForTransaction ==
  /\ Take(mq, "transaction")
  /\ mq' = Tail(mq)
  /\ LET ping == Head(mq).n = 1 IN
       /\ ping /\ canAsk => pings < MaxPings
       /\ pings' = IF ping /\ canAsk THEN pings + 1 ELSE pings
       /\ IF ping /\ canAsk THEN Post("ready", 1, pings + 1) ELSE Post("ready", 0, 0)
       /\ lostPing' = IF ping THEN ~canAsk ELSE lostPing
  /\ UNCHANGED <<ctx, made, sock, cq, asked, canAsk, shown, faults, chatter, rush, excused>>

TransportHasIncomingData ==
  /\ Take(mq, "incoming")
  /\ mq' = Tail(mq)
  /\ LET b == Head(mq) IN
       tq' = tq \o <<Block("valid", b.n, 0)>>
                \o (IF b.p = 0 THEN <<>> ELSE <<Block("pong", 0, b.p)>>)
  /\ UNCHANGED <<ctx, made, sock, cq, pings, asked, canAsk, shown, faults, chatter, rush, excused, lostPing>>

(* Data that cannot be decrypted, or a protocol error: the transport only  *)
(* reports a problem (connectionIsInvalid); MTProto resets it.             *)
TransportHasInvalidData ==
  /\ Take(mq, "incoming")
  /\ Fault("bad")
  /\ mq' = Tail(mq)
  /\ Post("network", 0, 0)
  /\ UNCHANGED <<ctx, made, sock, cq, pings, asked, canAsk, shown, chatter, rush, excused, lostPing>>

TransactionCompleted ==
  /\ Take(mq, "sent")
  /\ mq' = Tail(mq)
  /\ Post("pingSent", 0, Head(mq).p)
  /\ UNCHANGED <<ctx, made, sock, cq, pings, asked, canAsk, shown, faults, chatter, rush, excused, lostPing>>

ConnectionContextUpdateStateChanged ==
  /\ Take(mq, "updating")
  /\ mq' = Tail(mq)
  /\ shown' = (Head(mq).n = 1)
  /\ UNCHANGED <<ctx, made, sock, tq, cq, pings, asked, canAsk, faults, chatter, rush, excused, lostPing>>

(* requestTransportTransaction, whenever a service has something to send.  *)
NeedsTransaction ==
  /\ chatter < MaxChatter /\ chatter' = chatter + 1
  /\ canAsk /\ ~ctx.stopped
  /\ ~Due(tq, "needs") /\ ~ctx.willRequest
  /\ Post("needs", 0, 0)
  /\ UNCHANGED <<ctx, made, sock, cq, mq, pings, asked, canAsk, shown, faults, rush, excused, lostPing>>

(* A state flag that blocks transactions is set; when it is cleared MTProto*)
(* requests a transaction.                                                 *)
BlockTransactions ==
  /\ canAsk
  /\ Fault("block")
  /\ canAsk' = FALSE
  /\ UNCHANGED <<ctx, made, sock, tq, cq, mq, pings, asked, shown, chatter, rush, excused, lostPing>>

UnblockTransactions ==
  /\ ~canAsk
  /\ canAsk' = TRUE
  /\ Post("needs", 0, 0)
  /\ UNCHANGED <<ctx, made, sock, cq, mq, pings, asked, shown, faults, chatter, rush, excused, lostPing>>

Disturb ==
  /\ \E k \in {"session", "network"}, n \in {0, 1} :
       /\ Fault(k) /\ (k = "session" => n = 0)
       /\ Post(k, n, 0)
  /\ UNCHANGED <<ctx, made, sock, cq, mq, pings, asked, canAsk, shown, chatter, rush, excused, lostPing>>

(* The server has lost the session and said so on some connection. *)
ServerRestarts ==
  /\ made > 0 /\ Fault("restart")
  /\ Post("newSession", 0, 0)
  /\ UNCHANGED <<ctx, made, sock, cq, mq, pings, asked, canAsk, shown, chatter, rush, excused, lostPing>>

RequestStop ==
  /\ ~ctx.stopped /\ ~Due(tq, "stop")
  /\ Fault("stop")
  /\ Post("stop", 0, 0)
  /\ UNCHANGED <<ctx, made, sock, cq, mq, pings, asked, canAsk, shown, chatter, rush, excused, lostPing>>

-----------------------------------------------------------------------------
RunTransport ==
  \/ SetDelegateNeedsTransaction \/ QueuePass \/ TcpConnectionOpened
  \/ TcpConnectionClosed \/ TcpConnectionReceivedData \/ ConnectionIsValid
  \/ ReceivedPong \/ TransactionReady \/ PingSent \/ MtProtoDidChangeSession
  \/ MtProtoServerDidChangeSession \/ NetworkAvailabilityChanged \/ Stop

RunConnection == ConnectionStart \/ ConnectionStop \/ SendDatas

RunManager ==
  \/ TransportReadyForTransaction \/ TransportHasIncomingData \/ TransportHasInvalidData
  \/ TransactionCompleted \/ ConnectionContextUpdateStateChanged

Timers == BackoffTimerFires \/ ConnectionWatchdogTimeout \/ ResendActualizationPing

Environment ==
  \/ NeedsTransaction \/ BlockTransactions \/ UnblockTransactions \/ Disturb
  \/ ServerRestarts \/ RequestStop
  \/ \E c \in Conns : SocketOpens(c) \/ SocketFails(c) \/ Pong(c) \/ ServerData(c)

Next == RunTransport \/ RunConnection \/ RunManager \/ Timers \/ Environment

Spec == Init /\ [][Next]_vars

(* The queues run what is posted, the back-off timer fires, and a socket   *)
(* that does not fail opens.                                               *)
FairSpec ==
  /\ Spec
  /\ WF_vars(RunTransport) /\ WF_vars(RunConnection) /\ WF_vars(RunManager)
  /\ WF_vars(BackoffTimerFires)
  /\ \A c \in Conns : WF_vars(SocketOpens(c))

-----------------------------------------------------------------------------
(* After stop nothing of the transport comes to life again, neither by the *)
(* back-off timer, which stop leaves running, nor by a queue pass that was *)
(* due, nor by the late news of a connection: there is no current          *)
(* connection and every socket is closed or about to be.                   *)
NoConnectionAfterStop ==
  ctx.stopped =>
    /\ ctx.conn = 0 /\ ~ctx.connected /\ ~ctx.watchdog
    /\ \A c \in Conns : sock[c] \in {"starting", "open"} =>
         \E i \in DOMAIN cq : cq[i].k = "close" /\ cq[i].n = c

(* The transport's state is well formed and has at most one connection     *)
(* alive: another one is started only after the last one reported its end. *)
OneLiveConnection ==
  /\ TypeOK
  /\ \A c \in Conns : sock[c] \in {"starting", "open"} /\ ~ctx.stopped => c = ctx.conn

(* Once asked for, a connection is always there or on its way: without one *)
(* the back-off timer runs, and one that has closed has told or will tell. *)
ReconnectionIsDue ==
  made \in 1..(MaxConnections - 1) /\ ~ctx.stopped =>
    IF ctx.conn = 0 THEN ctx.backoffTimer
    ELSE /\ ~ctx.backoffTimer
         /\ sock[ctx.conn] = "closed" =>
              \E i \in DOMAIN tq : tq[i].k = "closed" /\ tq[i].n = ctx.conn

(* Connections that never bring valid data are made at most twice in a row *)
(* without a wait, the first one and one immediate repeat: a server that   *)
(* accepts and closes is not flooded with connections.                     *)
ReconnectsAreSpaced == rush <= 2

(* A connection that has not brought valid data is watched, unless the     *)
(* watchdog reported it, or was stopped by the late news of valid data on  *)
(* the connection before it.                                               *)
UnprovenIsWatched ==
  ctx.conn # 0 /\ ~ctx.isValid => ctx.watchdog \/ ctx.conn \in excused

(* MTProto is not left with a connection context that is being updated:    *)
(* the ping that will end the update is out, or about to be sent, or the   *)
(* end is on its way, unless MTProto itself refused to send the ping.      *)
UpdateWillEnd ==
  shown =>
    \/ ctx.ping # 0 \/ lostPing \/ ctx.stopped
    \/ ctx.conn = 0 \/ sock[ctx.conn] # "open" \/ ~ctx.didSend
    \/ Due(tq, "opened") \/ Due(tq, "pingSent") \/ Due(cq, "write")
    \/ Due(mq, "sent") \/ Due(mq, "updating")
    \/ \E i \in DOMAIN tq : tq[i].k = "ready" /\ tq[i].n = 1
    \/ \E i \in DOMAIN mq : mq[i].k = "transaction" /\ mq[i].n = 1

(* A transport that was asked for a connection gets one, or is stopped, as *)
(* soon as connections stop failing.                                       *)
GetsConnected == made > 0 ~> (ctx.connected \/ ctx.stopped)
=============================================================================
