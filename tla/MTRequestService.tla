--------------------------- MODULE MTRequestService ---------------------------
(***************************************************************************)
(* How an RPC request travels through MTProtoKit: the request service      *)
(* (MTRequestMessageService.m), the transaction machinery of MTProto       *)
(* (MTProto.m), the TCP transport (MTTcpTransport.m) and its connection    *)
(* (MTTcpConnection.m), against a server that may lose its session, reject *)
(* messages or answer late.                                                *)
(*                                                                         *)
(* The code runs on three serial dispatch queues, each modelled as a FIFO  *)
(* of the blocks the other two post to it:                                 *)
(*   mq  the manager queue      (MTProto and the message services)         *)
(*   tq  tcpTransportQueue      (MTTcpTransport)                           *)
(*   cq  tcpQueue               (MTTcpConnection)                          *)
(* A send hops manager -> tcpTransportQueue -> tcpQueue -> manager, while  *)
(* a transport that is being replaced answers the manager directly from    *)
(* tcpTransportQueue: the two orders race.                                 *)
(*                                                                         *)
(* Left out as data: payload bytes, initConnection and invokeAfterMsg      *)
(* wrappers, quick acks, progress.  Message ids are the numbers 1, 2, ...  *)
(* in order of generation; MTSessionInfo.tla models how they are made.     *)
(***************************************************************************)
EXTENDS Integers, Sequences, FiniteSets, SequencesExt, FiniteSetsExt

CONSTANTS
    Request,       \* the MTRequest objects the application may add
    PasswordBound, \* those with dependsOnPasswordEntry
    MaxFaults,     \* how many disturbances of the environment a run allows
    Faults,        \* which of the kinds of disturbance below happen
    MaxPayloads,   \* into how many payloads a transaction is cut at most
    WaitSeconds    \* the waits a FLOOD_WAIT_n or an internal error imposes

(* The kinds of disturbance.                                               *)
FaultKinds == {"close", "restart", "reset", "scheme", "pause",
               "bad", "slow", "drop", "error", "ack"}

ASSUME RequestAssumption ==
    /\ IsFiniteSet(Request) /\ PasswordBound \subseteq Request
    /\ MaxFaults \in Nat /\ Faults \subseteq FaultKinds
    /\ MaxPayloads \in Nat \ {0}
    /\ WaitSeconds \subseteq Nat \ {0} /\ WaitSeconds # {}

(* Transports and connections are numbered as they are made.  All but the  *)
(* first of each are owed to a disturbance.                                *)
Serial == 1..(MaxFaults + 1)

VARIABLES
    (* MTRequestMessageService *)
    requests,    \* _requests, in the order they were added
    finished,    \* requests that were completed or removed
    ctx,         \* request.requestContext
    err,         \* request.errorContext
    timer,       \* seconds left on _requestsServiceTimer, or NoTimer
    drops,       \* _dropReponseContexts
    (* MTProto *)
    session,     \* _sessionInfo, by number
    born,        \* the next client message id when the session was made
    nextMsg,     \* the next client message id
    containers,  \* the container -> children mapping of _sessionInfo
    transport,   \* _transport, or NoTransport
    willRequest, \* _willRequestTransactionOnNextQueuePass
    paused,      \* MTProtoStatePaused
    timeFix,     \* MTProtoStateAwaitingTimeFixAndSalts
    password,    \* isPasswordInputRequiredForDatacenterWithId
    mq,          \* blocks posted to the manager queue
    (* MTTcpTransport, MTTcpConnection *)
    tr,          \* the MTTcpTransportContext of every transport made so far
    tq,          \* blocks posted to tcpTransportQueue
    cq,          \* blocks posted to tcpQueue
    started,     \* connections whose socket exists
    closed,      \* connections whose _closed is set
    (* The network and the server *)
    net,         \* payloads on their way to the server, per connection made
    srv,         \* the server's session
    (* Bookkeeping of the model *)
    late,        \* <<r, c>>: r's send on c completed after the transport was replaced
    faults       \* disturbances so far

service  == <<requests, finished, ctx, err, timer, drops>>
sessInfo == <<session, born, nextMsg, containers>>
flags    == <<paused, timeFix, password>>
proto    == <<sessInfo, transport, willRequest, flags, mq>>
tcp      == <<tr, tq, cq, started, closed>>
world    == <<net, srv, late, faults>>
vars     == <<service, proto, tcp, world>>

-----------------------------------------------------------------------------
NoCtx       == [msg |-> 0, txn |-> 0, waiting |-> FALSE, delivered |-> FALSE]
NoTransport == 0
NoConn      == 0
NoTimer     == -1
NoError     == [on |-> FALSE, wait |-> 0, token |-> FALSE]

(* A transport starts disconnected and with MTProto as its delegate (live).*)
(*   want  a reconnection is due      will  _willRequest...OnNextQueuePass *)
(*   ping  ~didSendActualizationPing  lock  isWaitingForTransaction...     *)
(*   again requestAnotherTransactionWhenReady                              *)
FreshTransport ==
    [conn |-> NoConn, open |-> FALSE, want |-> FALSE, will |-> FALSE,
     ping |-> TRUE, lock |-> FALSE, again |-> FALSE, live |-> TRUE,
     stopped |-> FALSE]

(* A server that has not heard of the current session.                     *)
FreshServer == [sess |-> 0, conn |-> NoConn, seen |-> {}, refused |-> {}, out |-> {}]

Queued == ToSet(requests)

(* Where the loops over _requests find r.                                  *)
Place(r) == CHOOSE i \in DOMAIN requests : requests[i] = r

Disturb(kind) ==
    /\ kind \in Faults /\ faults < MaxFaults
    /\ faults' = faults + 1

-----------------------------------------------------------------------------
(*                        The request service                              *)

(* The requests a transaction takes up.                                    *)
Sendable(r) ==
    /\ ~ (r \in PasswordBound /\ password)
    /\ err[r].wait = 0 /\ ~err[r].token
    /\ \/ ctx[r] = NoCtx
       \/ ~ctx[r].waiting /\ ~ctx[r].delivered /\ ctx[r].txn = NoConn

(* updateRequestsTimer, given the service state it is called in.  The      *)
(* timer is (re)armed with the shortest wait; a request whose wait is over *)
(* asks for a transaction.                                                 *)
Retrying(q, c, e) == {r \in ToSet(q) : e[r].on /\ c[r] = NoCtx}

(* Mutant: a waiting request arms no timer.                                *)
NoTimerFor(q, c, e) == NoTimer

TimerFor(q, c, e) ==
    LET waits == {e[r].wait : r \in Retrying(q, c, e)} \ {0}
    IN  IF waits = {} THEN NoTimer ELSE Min(waits)

RetryDue(q, c, e) == \E r \in Retrying(q, c, e) : e[r].wait = 0

AddRequest(r) ==
    /\ r \notin Queued /\ r \notin finished
    /\ requests' = Append(requests, r)
    /\ willRequest' = TRUE
    /\ UNCHANGED <<finished, ctx, err, timer, drops, sessInfo, transport, flags,
                   mq, tcp, world>>

(* removeRequestByInternalId:askForReconnectionOnDrop:.  A request that    *)
(* was sent leaves a drop context behind.                                  *)
RemoveRequest(r, reconnect) ==
    LET sent == ctx[r] # NoCtx
        q2   == RemoveAt(requests, Place(r))
        c2   == [ctx EXCEPT ![r] = NoCtx]
    IN  /\ r \in Queued
        /\ Disturb("drop")
        /\ reconnect => sent /\ transport # NoTransport
        /\ requests' = q2
        /\ finished' = finished \cup {r}
        /\ ctx' = c2
        /\ drops' = IF sent THEN drops \cup {[of |-> ctx[r].msg, id |-> 0]}
                            ELSE drops
        /\ tq' = IF reconnect THEN Append(tq, [op |-> "reset", t |-> transport])
                              ELSE tq
        /\ timer' = TimerFor(q2, c2, err)
        /\ willRequest' = (willRequest \/ sent \/ RetryDue(q2, c2, err))
        /\ err' = [err EXCEPT ![r] = NoError]
        /\ UNCHANGED <<sessInfo, transport, flags, mq, tr, cq, started, closed,
                       net, srv, late>>

(* requestTimerEvent.                                                      *)
RequestTimerEvent ==
    /\ timer = 0
    /\ timer' = NoTimer
    /\ willRequest' = TRUE
    /\ UNCHANGED <<requests, finished, ctx, err, drops, sessInfo, transport,
                   flags, mq, tcp, world>>

(* A second passes.                                                        *)
Tick ==
    LET down(n) == IF n > 0 THEN n - 1 ELSE n
    IN  /\ timer > 0 \/ \E r \in Request : err[r].wait > 0
        /\ timer # 0
        /\ timer' = IF timer > 0 THEN timer - 1 ELSE timer
        /\ err' = [r \in Request |-> [err[r] EXCEPT !.wait = down(@)]]
        /\ UNCHANGED <<requests, finished, ctx, drops, proto, tcp, world>>

(* mtProtoAuthTokenUpdated: the token export some requests waited for.     *)
AuthTokenUpdated ==
    /\ \E r \in Queued : err[r].token
    /\ err' = [r \in Request |-> [err[r] EXCEPT !.token = FALSE]]
    /\ willRequest' = TRUE
    /\ UNCHANGED <<requests, finished, ctx, timer, drops, sessInfo, transport,
                   flags, mq, tcp, world>>

(* _contextIsPasswordRequiredUpdated: the user entered the password.       *)
PasswordEntered ==
    /\ password
    /\ password' = FALSE
    /\ willRequest' = TRUE
    /\ UNCHANGED <<service, sessInfo, transport, paused, timeFix, mq, tcp, world>>

-----------------------------------------------------------------------------
(*                 MTProto: transports, sessions, transactions             *)

(* Mutant: nothing is forgotten. *)
ForgottenNothing(c) == c

(* mtProtoAllTransactionsMayHaveFailed.                                    *)
Forgotten(c) == [r \in Request |-> [c[r] EXCEPT !.txn = NoConn]]

NewTransport(old) ==
    /\ tr' = Append(old, FreshTransport)
    /\ transport' = Len(old) + 1

(* resetTransport, called with the request contexts c: the old transport   *)
(* loses its delegate and is stopped before setTransport asks it for its   *)
(* active transactions; every transaction counts as failed; a new          *)
(* transport takes over.  (setTransport stops the old one a second time,   *)
(* which changes nothing.)                                                 *)
ResetTransport(c) ==
    /\ ctx' = Forgotten(c)
    /\ NewTransport(IF transport = NoTransport THEN tr
                    ELSE [tr EXCEPT ![transport].live = FALSE])
    /\ tq' = IF transport = NoTransport THEN tq
             ELSE tq \o <<[op |-> "stop", t |-> transport],
                          [op |-> "active", t |-> transport]>>

(* Mutant: the services do not hear of the new session.                    *)
ResetSessionUnheard ==
    /\ session' = session + 1 /\ born' = nextMsg /\ containers' = {}
    /\ ResetTransport(ctx)
    /\ willRequest' = TRUE /\ UNCHANGED drops

(* resetSessionInfo: a new session, the services start over, a new         *)
(* transport, and a transaction is requested.                              *)
ResetSessionInfo ==
    /\ session' = session + 1
    /\ born' = nextMsg
    /\ containers' = {}
    /\ drops' = {}
    /\ ResetTransport([r \in Request |-> NoCtx])
    /\ willRequest' = TRUE

(* A session reset the environment brings about: client message ids that   *)
(* ran backwards, or data from the server that did not parse.              *)
SessionReset ==
    /\ transport # NoTransport
    /\ Disturb("reset")
    /\ ResetSessionInfo
    /\ UNCHANGED <<requests, finished, err, timer, nextMsg, flags, mq, cq,
                   started, closed, net, srv, late>>

(* contextDatacenterTransportSchemeUpdated: another address or proxy.      *)
TransportSchemeUpdated ==
    /\ Disturb("scheme")
    /\ ResetTransport(ctx)
    /\ willRequest' = TRUE
    /\ UNCHANGED <<requests, finished, err, timer, drops, sessInfo, flags, mq, cq,
                   started, closed, net, srv, late>>

(* pause: setTransport(nil), the old transport keeping its delegate.       *)
Pause ==
    /\ ~paused
    /\ Disturb("pause")
    /\ paused' = TRUE
    /\ ctx' = Forgotten(ctx)
    /\ willRequest' = (willRequest \/ Forgotten(ctx) # ctx)
    /\ tq' = IF transport = NoTransport THEN tq
             ELSE tq \o <<[op |-> "active", t |-> transport],
                          [op |-> "stop", t |-> transport]>>
    /\ transport' = NoTransport
    /\ UNCHANGED <<requests, finished, err, timer, drops, sessInfo, timeFix,
                   password, mq, tr, cq, started, closed, net, srv, late>>

Resume ==
    /\ paused
    /\ paused' = FALSE
    /\ ResetTransport(ctx)
    /\ willRequest' = TRUE
    /\ UNCHANGED <<requests, finished, err, timer, drops, sessInfo, timeFix,
                   password, mq, cq, started, closed, world>>

(* The block requestTransportTransaction posts to its own queue.           *)
RunRequestedTransaction ==
    /\ willRequest
    /\ willRequest' = FALSE
    /\ IF paused
       THEN UNCHANGED <<transport, tr, tq>>
       ELSE /\ IF transport = NoTransport THEN NewTransport(tr)
               ELSE UNCHANGED <<transport, tr>>
            /\ tq' = Append(tq, [op |-> "needs", t |-> transport'])
    /\ UNCHANGED <<service, sessInfo, flags, mq, cq, started, closed, world>>

(* completeTimeSync: the answer to the time fix ping or to the time sync   *)
(* service (external), which needs an open connection.                     *)
CompleteTimeSync ==
    /\ timeFix
    /\ transport # NoTransport /\ tr[transport].open
    /\ timeFix' = FALSE
    /\ willRequest' = TRUE
    /\ UNCHANGED <<service, sessInfo, transport, paused, password, mq, tcp, world>>

-----------------------------------------------------------------------------
(* transportReadyForTransaction.                                           *)

(* Mutant: every repeat takes a new id.                                    *)
FreshMessageIdOf(r) == 0

(* A request that is sent again keeps its message id.                      *)
MessageIdOf(r) == ctx[r].msg

(* What the transport (its ping after connecting) and the request service  *)
(* (mtProtoMessageTransaction) want sent, in that order.                   *)
Outgoing(ping) ==
    (IF ping THEN {[kind |-> "ping", ref |-> 0, id |-> 0]} ELSE {})
    \cup {[kind |-> "req", ref |-> r, id |-> MessageIdOf(r)] :
          r \in {q \in Queued : Sendable(q)}}
    \cup {[kind |-> "drop", ref |-> d.of, id |-> d.id] : d \in drops}

Before(a, b) ==
    \/ a.kind = "ping" /\ b.kind # "ping"
    \/ a.kind = "req" /\ b.kind = "drop"
    \/ a.kind = "req" /\ b.kind = "req" /\ Place(a.ref) < Place(b.ref)
    \/ a.kind = "drop" /\ b.kind = "drop" /\ a.ref < b.ref

(* A message that has no id yet gets the next one.                         *)
Fresh(out) == {x \in out : x.id = 0}

Prepared(out) ==
    {[m EXCEPT !.id = IF @ # 0 THEN @
                      ELSE nextMsg + Cardinality({x \in Fresh(out) : Before(x, m)})] :
     m \in out}

(* The messages, sorted by their ids, are cut into payloads after the ids  *)
(* in cuts, where a container would grow too large; a payload of several   *)
(* messages is a container and has an id of its own.                       *)
Payloads(list, cuts, firstContainer) ==
    LET part(i)  == {m \in list : Cardinality({c \in cuts : c < m.id}) = i - 1}
        boxed(i) == Cardinality({j \in 1..i : Cardinality(part(j)) > 1})
    IN  [i \in 1..(Cardinality(cuts) + 1) |->
           [sess |-> session, msgs |-> part(i),
            box |-> IF Cardinality(part(i)) > 1 THEN firstContainer + boxed(i) - 1
                    ELSE 0]]

(* Only messages that require confirmation enter the container mapping.    *)
Children(p) == {m.id : m \in {x \in p.msgs : x.kind = "req"}}

(* A transaction with nothing to send only releases the transport's lock.  *)
HandleReady(e) ==
    LET out   == Outgoing(e.ping)
        list  == Prepared(out)
        idOf  == {m.id : m \in list}
        batch == {m.ref : m \in {x \in list : x.kind = "req"}}
        post(ps, b) == tq' = Append(tq, [op |-> "send", t |-> e.t, payloads |-> ps,
                                         batch |-> b])
    IN  IF e.t # transport \/ timeFix \/ out = {}
        THEN post(<<>>, {}) /\ UNCHANGED <<ctx, nextMsg, containers>>
        ELSE \E cuts \in SUBSET {i \in idOf : \E j \in idOf : i < j} :
             /\ Cardinality(cuts) < MaxPayloads
             /\ LET n0 == nextMsg + Cardinality(Fresh(out))
                   ps == Payloads(list, cuts, n0)
                   boxes == {p \in ToSet(ps) : p.box # 0}
               IN  /\ post(ps, batch)
                   /\ nextMsg' = n0 + Cardinality(boxes)
                   /\ containers' = containers \cup
                        {[id |-> p.box, children |-> Children(p)] :
                           p \in {b \in boxes : Children(b) # {}}}
                   /\ ctx' = [r \in Request |->
                        IF r \in batch
                        THEN [msg |-> (CHOOSE m \in list : m.kind = "req" /\ m.ref = r).id,
                              txn |-> NoConn, waiting |-> TRUE, delivered |-> FALSE]
                        ELSE ctx[r]]

(* The completion a payload's transport transaction calls.  It clears      *)
(* waitingForMessageId for the whole batch, and on success records the     *)
(* connection for the messages of this payload.                            *)
SentFor(e, r) == {m \in e.msgs : m.kind = "req" /\ m.ref = r}

(* Mutant: a completion without transaction ids is overlooked.             *)
AfterSendIfTaken(e, r) ==
    IF e.ok /\ SentFor(e, r) # {}
    THEN [msg |-> (CHOOSE m \in SentFor(e, r) : TRUE).id,
          txn |-> e.c, waiting |-> FALSE, delivered |-> FALSE]
    ELSE ctx[r]

AfterSend(e, r) ==
    IF e.ok /\ SentFor(e, r) # {}
    THEN [msg |-> (CHOOSE m \in SentFor(e, r) : TRUE).id,
          txn |-> e.c, waiting |-> FALSE, delivered |-> FALSE]
    ELSE [ctx[r] EXCEPT !.waiting = FALSE]

HandleSent(e) ==
    LET dropped(d) == {m \in e.msgs : e.ok /\ m.kind = "drop" /\ m.ref = d.of}
    IN  /\ ctx' = [r \in Request |->
                     IF r \in e.batch \cap Queued THEN AfterSend(e, r)
                     ELSE ctx[r]]
        /\ drops' = {IF dropped(d) = {} THEN d
                     ELSE [d EXCEPT !.id = (CHOOSE m \in dropped(d) : TRUE).id] :
                     d \in drops}
        /\ late' = IF e.ok /\ e.t # transport
                   THEN late \cup {<<r, e.c>> : r \in {q \in e.batch \cap Queued :
                                                       SentFor(e, q) # {}}}
                   ELSE late

(* Mutant: the services are not told.                                      *)
HandleFailedUntold(c) == UNCHANGED <<ctx, willRequest>>

(* transportTransactionsMayHaveFailed for the connection c.                *)
HandleFailed(c) ==
    LET hit == {r \in Queued : ctx[r].txn = c}
    IN  /\ ctx' = [r \in Request |->
                     IF r \in hit THEN [ctx[r] EXCEPT !.txn = NoConn] ELSE ctx[r]]
        /\ willRequest' = (willRequest \/ hit # {})

-----------------------------------------------------------------------------
(*             What the request service does with server messages          *)

(* The loops stop at the first request that has the message id m.          *)
FirstWith(m) ==
    LET same == {r \in Queued : ctx[r] # NoCtx /\ ctx[r].msg = m}
    IN  {r \in same : \A q \in same : Place(r) <= Place(q)}

(* messageDeliveryConfirmed.                                               *)
HandleAck(m) ==
    /\ ctx' = [r \in Request |->
                 IF r \in FirstWith(m)
                 THEN [ctx[r] EXCEPT !.delivered = TRUE] ELSE ctx[r]]
    /\ UNCHANGED <<requests, finished, err, timer, drops, session, born,
                   containers, transport, willRequest, timeFix, password, tr,
                   tq>>

(* receivedMessage with the result of the message m.  The request with     *)
(* that message id is completed, or kept for another attempt.              *)
HandleResult(m, how) ==
    \E w \in WaitSeconds :
      LET hit   == FirstWith(m)
          again == how \in {"wait", "token"}
          done  == IF again THEN {} ELSE hit
          q2    == IF done = {} THEN requests
                   ELSE RemoveAt(requests, Place(CHOOSE r \in done : TRUE))
          c2    == [r \in Request |-> IF r \in hit THEN NoCtx ELSE ctx[r]]
          e2    == [r \in Request |->
                     IF r \in done THEN NoError
                     ELSE IF r \notin hit THEN err[r]
                     ELSE IF how = "token"
                     THEN [err[r] EXCEPT !.on = TRUE, !.token = TRUE]
                     ELSE [err[r] EXCEPT !.on = TRUE, !.wait = Max({@, w})]]
      IN  /\ how # "wait" => w = Min(WaitSeconds)
          /\ requests' = q2
          /\ finished' = finished \cup done
          /\ ctx' = c2
          /\ err' = e2
          /\ timer' = TimerFor(q2, c2, e2)
          /\ willRequest' = (willRequest \/ RetryDue(q2, c2, e2))
          /\ password' = (password \/ (how = "password" /\ hit # {}))
          /\ UNCHANGED <<drops, session, born, containers, transport, timeFix,
                         tr, tq>>

(* receivedMessage with the answer to the drop request m.                  *)
HandleDropped(m) ==
    /\ drops' = {d \in drops : d.id # m}
    /\ UNCHANGED <<requests, finished, ctx, err, timer, session, born,
                   containers, transport, willRequest, timeFix, password, tr,
                   tq>>

(* mtProtoServerDidChangeSession, with the messages of containers that the *)
(* server's new session still has.                                         *)
ValidAfter(first) ==
    UNION {{m \in c.children : c.id >= first \/ m >= first} : c \in containers}

HandleNewSession(first) ==
    LET lost == {r \in Queued : /\ ctx[r] # NoCtx
                                /\ ctx[r].msg < first
                                /\ ctx[r].msg \notin ValidAfter(first)}
    IN  /\ ctx' = [r \in Request |-> IF r \in lost THEN NoCtx ELSE ctx[r]]
        /\ willRequest' = (willRequest \/ lost # {})
        /\ UNCHANGED <<requests, finished, err, timer, drops, session, born,
                       containers, transport, timeFix, password, tr, tq>>

(* A bad_msg_notification for the message or container m.  Its time codes  *)
(* start a time sync, its sequence codes also a new session; then          *)
(* messageDeliveryFailed for m and for the children of the container.      *)
HandleBad(m, code) ==
    LET ids == {m} \cup UNION {c.children : c \in {b \in containers : b.id = m}}
    IN  /\ timeFix' = (timeFix \/ code # "other")
        /\ IF code = "seqno"
           THEN ResetSessionInfo
           ELSE /\ ctx' = [r \in Request |->
                              IF \E i \in ids : r \in FirstWith(i)
                              THEN NoCtx ELSE ctx[r]]
                /\ drops' = {IF d.id \in ids THEN [d EXCEPT !.id = 0] ELSE d :
                             d \in drops}
                /\ willRequest' = TRUE
                /\ UNCHANGED <<session, born, containers, transport, tr, tq>>
        /\ UNCHANGED <<requests, finished, err, timer, password>>

HandleMessage(x) ==
    CASE x.k = "ack"     -> HandleAck(x.m)
      [] x.k = "res"     -> HandleResult(x.m, x.how)
      [] x.k = "dropped" -> HandleDropped(x.m)
      [] x.k = "new"     -> HandleNewSession(x.m)
      [] x.k = "bad"     -> HandleBad(x.m, x.how)

-----------------------------------------------------------------------------
(*                    The manager queue, one block at a time               *)

(* The transport asks for a transaction.                                   *)
RunReady ==
    /\ mq # <<>> /\ Head(mq).op = "ready"
    /\ mq' = Tail(mq)
    /\ HandleReady(Head(mq))
    /\ UNCHANGED <<requests, finished, err, timer, drops, session, born,
                   transport, willRequest, flags, tr, cq, started, closed,
                   world>>

(* The connection took a payload, or could not.                            *)
RunSent ==
    /\ mq # <<>> /\ Head(mq).op = "sent"
    /\ mq' = Tail(mq)
    /\ HandleSent(Head(mq))
    /\ UNCHANGED <<requests, finished, err, timer, sessInfo, transport,
                   willRequest, flags, tcp, net, srv, faults>>

(* A connection is reported lost.                                          *)
RunFailed ==
    /\ mq # <<>> /\ Head(mq).op = "failed"
    /\ mq' = Tail(mq)
    /\ HandleFailed(Head(mq).c)
    /\ UNCHANGED <<requests, finished, err, timer, drops, sessInfo, transport,
                   flags, tcp, world>>

(* transportHasIncomingData: data of a replaced transport is ignored;      *)
(* a message that was processed will be acknowledged, and the server stops *)
(* repeating it.                                                           *)
RunData ==
    /\ mq # <<>> /\ Head(mq).op = "data"
    /\ mq' = Tail(mq)
    /\ LET e == Head(mq)
       IN  IF e.t # transport
           THEN UNCHANGED <<service, session, born, containers, transport,
                            willRequest, timeFix, password, tr, tq, srv>>
           ELSE /\ HandleMessage(e.x)
                /\ srv' = [srv EXCEPT !.out = @ \ {e.x}]
    /\ UNCHANGED <<nextMsg, paused, cq, started, closed, net, late, faults>>

-----------------------------------------------------------------------------
(*                  MTTcpTransport on tcpTransportQueue                    *)

(* _requestTransactionFromDelegate: one transaction at a time, unless a    *)
(* ping is due or the last one took more than a second (slow); a request   *)
(* that finds the lock taken is remembered and repeated when it is         *)
(* released, whatever has become of the connection by then.                *)
Refused(x, slow) == x.lock /\ ~x.ping /\ ~slow

Asking(x, slow) ==
    IF Refused(x, slow) THEN [x EXCEPT !.again = TRUE]
    ELSE IF x.live THEN [x EXCEPT !.lock = TRUE, !.ping = FALSE]
    ELSE [x EXCEPT !.lock = FALSE]

Asked(t, x, slow) ==
    IF Refused(x, slow) \/ ~x.live THEN <<>>
    ELSE <<[op |-> "ready", t |-> t, ping |-> x.ping]>>

(* The delegate of t, whose context is x by now, is asked after the blocks *)
(* posted are on the manager queue.                                        *)
RequestTransaction(t, x, posted) ==
    \E slow \in BOOLEAN :
        /\ IF slow THEN x.lock /\ ~x.ping /\ Disturb("slow")
                   ELSE UNCHANGED faults
        /\ tr' = [tr EXCEPT ![t] = Asking(x, slow)]
        /\ mq' = mq \o posted \o Asked(t, x, slow)

(* setDelegateNeedsTransaction: looked at in the next pass of the queue.   *)
RunNeeds ==
    /\ tq # <<>> /\ Head(tq).op = "needs"
    /\ LET t == Head(tq).t
       IN  /\ tr' = [tr EXCEPT ![t].will = TRUE]
           /\ tq' = IF tr[t].will THEN Tail(tq)
                    ELSE Append(Tail(tq), [op |-> "pass", t |-> t])
    /\ UNCHANGED <<service, proto, cq, started, closed, world>>

(* That pass: connect, or ask when connected.                              *)
RunPass ==
    /\ tq # <<>> /\ Head(tq).op = "pass"
    /\ tq' = Tail(tq)
    /\ LET t == Head(tq).t
           x == [tr[t] EXCEPT !.will = FALSE]
       IN  IF x.open THEN RequestTransaction(t, x, <<>>)
           ELSE /\ tr' = [tr EXCEPT ![t] =
                            [x EXCEPT !.want = x.conn = NoConn /\ ~x.stopped]]
                /\ UNCHANGED <<mq, faults>>
    /\ UNCHANGED <<service, sessInfo, transport, willRequest, flags, cq, started,
                   closed, net, srv, late>>

(* tcpConnectionBehaviourRequestsReconnection: a new connection.           *)
Connect(t) ==
    /\ tr[t].want /\ tr[t].conn = NoConn
    /\ tr' = [tr EXCEPT ![t].conn = Len(net) + 1, ![t].open = FALSE, ![t].want = FALSE]
    /\ net' = Append(net, <<>>)
    /\ cq' = Append(cq, [op |-> "start", c |-> Len(net) + 1, t |-> t])
    /\ UNCHANGED <<service, proto, tq, started, closed, srv, late, faults>>

(* Mutant: a new connection asks for nothing by itself.                    *)
OpenedQuietly(t) ==
    /\ tr[t].conn \in started \ closed /\ ~tr[t].open
    /\ tr' = [tr EXCEPT ![t].open = TRUE]
    /\ UNCHANGED <<service, proto, tq, cq, started, closed, world>>

(* tcpConnectionOpened: asks for a transaction, which will carry a ping.   *)
Opened(t) ==
    /\ tr[t].conn \in started \ closed /\ ~tr[t].open
    /\ RequestTransaction(t, [tr[t] EXCEPT !.open = TRUE, !.ping = TRUE], <<>>)
    /\ UNCHANGED <<service, sessInfo, transport, willRequest, flags, tq, cq,
                   started, closed, net, srv, late>>

(* The transactionReady block: every payload goes to the connection, or    *)
(* fails at once when there is none; then the lock is released, and a      *)
(* request that was refused meanwhile is repeated.                         *)
RunSend ==
    /\ tq # <<>> /\ Head(tq).op = "send"
    /\ LET e == Head(tq)
           t == e.t
           c == tr[t].conn
           n == Len(e.payloads)
           x == [tr[t] EXCEPT !.lock = FALSE, !.again = FALSE]
           failed == [i \in 1..n |->
                        [op |-> "sent", ok |-> FALSE, t |-> t, c |-> NoConn,
                         msgs |-> e.payloads[i].msgs, batch |-> e.batch]]
           written == [i \in 1..n |->
                         [op |-> "write", c |-> c, t |-> t,
                          p |-> e.payloads[i], batch |-> e.batch]]
           answer == IF c = NoConn THEN failed ELSE <<>>
       IN  /\ cq' = IF c = NoConn THEN cq ELSE cq \o written
           /\ IF tr[t].again THEN RequestTransaction(t, x, answer)
              ELSE /\ tr' = [tr EXCEPT ![t] = x]
                   /\ mq' = mq \o answer
                   /\ UNCHANGED faults
    /\ tq' = Tail(tq)
    /\ UNCHANGED <<service, sessInfo, transport, willRequest, flags, started,
                   closed, net, srv, late>>

(* activeTransactionIds, whose answer setTransport takes for failed.       *)
RunActive ==
    /\ tq # <<>> /\ Head(tq).op = "active"
    /\ LET c == tr[Head(tq).t].conn
       IN  mq' = IF c = NoConn THEN mq ELSE Append(mq, [op |-> "failed", c |-> c])
    /\ tq' = Tail(tq)
    /\ UNCHANGED <<service, sessInfo, transport, willRequest, flags, tr, cq,
                   started, closed, world>>

(* stop: the delegate, if there still is one, hears of the transactions;   *)
(* the connection is closed without a delegate of its own, and what was    *)
(* still wanted finds the transport stopped.                               *)
RunStop ==
    /\ tq # <<>> /\ Head(tq).op = "stop"
    /\ LET t == Head(tq).t
           c == tr[t].conn
       IN  /\ mq' = IF c # NoConn /\ tr[t].live
                    THEN Append(mq, [op |-> "failed", c |-> c]) ELSE mq
           /\ cq' = IF c = NoConn THEN cq ELSE Append(cq, [op |-> "close", c |-> c, t |-> t])
           /\ tr' = [tr EXCEPT ![t].conn = NoConn, ![t].open = FALSE,
                               ![t].want = FALSE, ![t].stopped = TRUE]
    /\ tq' = Tail(tq)
    /\ UNCHANGED <<service, sessInfo, transport, willRequest, flags, started,
                   closed, world>>

(* reset: the connection is closed and will be reported.                   *)
RunReset ==
    /\ tq # <<>> /\ Head(tq).op = "reset"
    /\ LET t == Head(tq).t
           c == tr[t].conn
       IN  cq' = IF c = NoConn THEN cq ELSE Append(cq, [op |-> "close", c |-> c, t |-> t])
    /\ tq' = Tail(tq)
    /\ UNCHANGED <<service, proto, tr, started, closed, world>>

(* tcpConnectionClosed: ignored when it is not the transport's connection. *)
RunClosed ==
    /\ tq # <<>> /\ Head(tq).op = "closed"
    /\ LET t == Head(tq).t
           c == Head(tq).c
       IN  IF tr[t].conn # c
           THEN UNCHANGED <<mq, tr>>
           ELSE /\ tr' = [tr EXCEPT ![t].conn = NoConn, ![t].open = FALSE,
                                    ![t].want = TRUE, ![t].ping = TRUE]
                /\ mq' = IF tr[t].live THEN Append(mq, [op |-> "failed", c |-> c])
                         ELSE mq
    /\ tq' = Tail(tq)
    /\ UNCHANGED <<service, sessInfo, transport, willRequest, flags, cq, started,
                   closed, world>>

-----------------------------------------------------------------------------
(*                     MTTcpConnection on tcpQueue                         *)

(* start: the socket is made and begins to connect.                        *)
RunStart ==
    /\ cq # <<>> /\ Head(cq).op = "start"
    /\ started' = started \cup {Head(cq).c}
    /\ cq' = Tail(cq)
    /\ UNCHANGED <<service, proto, tr, tq, closed, world>>

(* sendDatas: accepted as soon as it is written to the socket.             *)
RunWrite ==
    /\ cq # <<>> /\ Head(cq).op = "write"
    /\ LET e  == Head(cq)
           ok == e.c \notin closed
       IN  /\ net' = IF ok THEN [net EXCEPT ![e.c] = Append(@, e.p)] ELSE net
           /\ mq' = Append(mq, [op |-> "sent", ok |-> ok, t |-> e.t,
                                c |-> IF ok THEN e.c ELSE NoConn,
                                msgs |-> e.p.msgs, batch |-> e.batch])
    /\ cq' = Tail(cq)
    /\ UNCHANGED <<service, sessInfo, transport, willRequest, flags, tr, tq,
                   started, closed, srv, late, faults>>

(* closeAndNotify for the connection c of the transport t.                 *)
CloseAndNotify(t, c) ==
    /\ closed' = closed \cup {c}
    /\ tq' = IF c \in closed THEN tq
             ELSE Append(tq, [op |-> "closed", t |-> t, c |-> c])

RunClose ==
    /\ cq # <<>> /\ Head(cq).op = "close"
    /\ CloseAndNotify(Head(cq).t, Head(cq).c)
    /\ cq' = Tail(cq)
    /\ UNCHANGED <<service, proto, tr, started, world>>

(* The socket fails, or the response timeout fires.                        *)
ConnectionFails(t) ==
    /\ tr[t].conn \in started \ closed
    /\ Disturb("close")
    /\ CloseAndNotify(t, tr[t].conn)
    /\ UNCHANGED <<service, proto, tr, cq, started, net, srv, late>>

(* What was written to a closed connection may still arrive, or not.       *)
Lose(c) ==
    /\ c \in closed /\ net[c] # <<>>
    /\ net' = [net EXCEPT ![c] = <<>>]
    /\ UNCHANGED <<service, proto, tcp, srv, late, faults>>

-----------------------------------------------------------------------------
(*                       The server (external)                             *)

(* The server's view after a payload of its session, of a newer one, or of *)
(* one it has forgotten: the last two announce a new session, whose first  *)
(* message may be named by the container's id or by its smallest message.  *)
FirstIds(p) ==
    {Min({m.id : m \in p.msgs})} \cup (IF p.box = 0 THEN {} ELSE {p.box})

Heard(c, p, first) ==
    IF p.sess = srv.sess
    THEN [srv EXCEPT !.conn = Max({@, c})]
    ELSE [sess |-> p.sess, conn |-> c, seen |-> {}, refused |-> {},
          out |-> {[k |-> "new", m |-> first, how |-> ""]}]

(* Connections are heard one after the other.                              *)
Arrives(c) == net[c] # <<>> /\ \A d \in 1..(c - 1) : net[d] = <<>>

(* The requests of a payload it has not seen, and what executing them, with *)
(* this outcome, adds to what it has to say.                               *)
NewTo(s, p) == {m \in p.msgs : m.kind = "req" /\ \A x \in s.seen : x.id # m.id}

Told(k, ids, how) == {[k |-> k, m |-> i, how |-> how] : i \in ids}

Executed(s, p, how) ==
    LET ids == {m.id : m \in NewTo(s, p)}
    IN  [s EXCEPT
          !.seen = @ \cup {[id |-> m.id, ref |-> m.ref, ran |-> how \notin {"wait", "token"}] :
                           m \in NewTo(s, p)},
          !.out  = @ \cup (Told("res", ids, how)
                           \cup Told("ack", {i \in ids : how = "ack"}, "")
                           \cup Told("dropped", {x.id : x \in {y \in p.msgs : y.kind = "drop"}}, ""))]

(* A payload arrives and is executed: each request it has not seen is      *)
(* answered; a request that takes long is acknowledged first.              *)
ServerExecutes(c) ==
    /\ Arrives(c)
    /\ net' = [net EXCEPT ![c] = Tail(@)]
    /\ LET p == Head(net[c])
       IN  \E first \in FirstIds(p),
             how \in {"ok", "ack", "fail", "wait", "token", "password"} :
             LET s == Heard(c, p, first)
             IN  /\ p.sess = srv.sess => first = Min(FirstIds(p))
                 /\ IF p.sess < srv.sess
                    THEN UNCHANGED <<srv, faults>> /\ how = "ok"
                    ELSE /\ CASE how = "ok"  -> UNCHANGED faults
                           [] how = "ack" -> NewTo(s, p) # {} /\ Disturb("ack")
                           [] OTHER       -> NewTo(s, p) # {} /\ Disturb("error")
                         /\ srv' = Executed(s, p, how)
    /\ UNCHANGED <<service, proto, tcp, late>>

(* A payload arrives and is rejected as a whole.                           *)
ServerRejects(c) ==
    /\ Arrives(c)
    /\ Head(net[c]).sess >= srv.sess
    /\ Disturb("bad")
    /\ net' = [net EXCEPT ![c] = Tail(@)]
    /\ LET p == Head(net[c])
           id == IF p.box # 0 THEN p.box ELSE Min({m.id : m \in p.msgs})
       IN  \E code \in {"time", "seqno", "other"} :
             srv' = [Heard(c, p, Min(FirstIds(p))) EXCEPT
                       !.refused = @ \cup {m.id : m \in p.msgs},
                       !.out = @ \cup {[k |-> "bad", m |-> id, how |-> code]}]
    /\ UNCHANGED <<service, proto, tcp, late>>

(* Something the server has to say reaches the manager queue: the new      *)
(* session first, acknowledgements before results.  (One message at a      *)
(* time: results come in any order anyway.)                                *)
Rank(x) == CASE x.k = "new" -> 1 [] x.k = "ack" -> 2 [] OTHER -> 3

ServerPush ==
    /\ \A i \in DOMAIN mq : mq[i].op # "data"
    /\ \E t \in DOMAIN tr, x \in srv.out :
         /\ tr[t].open /\ tr[t].live /\ tr[t].conn = srv.conn
         /\ srv.conn \notin closed
         /\ \A y \in srv.out : Rank(x) <= Rank(y)
         /\ mq' = Append(mq, [op |-> "data", t |-> t, x |-> x])
    /\ UNCHANGED <<service, sessInfo, transport, willRequest, flags, tcp, world>>

(* The server loses its sessions, and the connection breaks.               *)
ServerRestarts(t) ==
    /\ tr[t].conn \in started \ closed
    /\ srv.sess # 0
    /\ Disturb("restart")
    /\ srv' = FreshServer
    /\ CloseAndNotify(t, tr[t].conn)
    /\ net' = [net EXCEPT ![tr[t].conn] = <<>>]
    /\ UNCHANGED <<service, proto, tr, cq, started, late>>

-----------------------------------------------------------------------------
Init ==
    /\ requests = <<>> /\ finished = {} /\ timer = NoTimer /\ drops = {}
    /\ ctx = [r \in Request |-> NoCtx] /\ err = [r \in Request |-> NoError]
    /\ session = 1 /\ born = 1 /\ nextMsg = 1 /\ containers = {}
    /\ transport = NoTransport
    /\ willRequest = FALSE /\ paused = FALSE /\ timeFix = FALSE
    /\ password = FALSE /\ mq = <<>>
    /\ tr = <<>>
    /\ tq = <<>> /\ cq = <<>> /\ started = {} /\ closed = {}
    /\ net = <<>> /\ srv = FreshServer
    /\ late = {} /\ faults = 0

Manager   == RunReady \/ RunSent \/ RunFailed \/ RunData
TcpQueue  == RunNeeds \/ RunPass \/ RunSend \/ RunActive \/ RunStop \/ RunReset \/ RunClosed
ConnQueue == RunStart \/ RunWrite \/ RunClose

Application ==
    \/ \E r \in Request : AddRequest(r)
    \/ \E r \in Request, reconnect \in BOOLEAN : RemoveRequest(r, reconnect)
    \/ Pause \/ Resume \/ TransportSchemeUpdated \/ AuthTokenUpdated
    \/ PasswordEntered

Clock == RequestTimerEvent \/ Tick

Next ==
    \/ Application \/ Clock
    \/ Manager \/ RunRequestedTransaction \/ SessionReset \/ CompleteTimeSync
    \/ TcpQueue \/ ConnQueue
    \/ \E t \in DOMAIN tr : Connect(t) \/ Opened(t) \/ ConnectionFails(t)
                            \/ ServerRestarts(t)
    \/ \E c \in DOMAIN net : Lose(c) \/ ServerExecutes(c) \/ ServerRejects(c)
    \/ ServerPush

Spec == Init /\ [][Next]_vars

(* The dispatch queues run what is posted to them, timers fire, a pause is *)
(* followed by a resume, and a server that has something to say on an open *)
(* connection says it.                                                     *)
Fairness ==
    /\ WF_vars(Manager) /\ WF_vars(TcpQueue) /\ WF_vars(ConnQueue)
    /\ WF_vars(RunRequestedTransaction) /\ WF_vars(Clock)
    /\ WF_vars(Resume) /\ WF_vars(CompleteTimeSync)
    /\ WF_vars(AuthTokenUpdated) /\ WF_vars(PasswordEntered)
    /\ \A t \in Serial : /\ WF_vars(t \in DOMAIN tr /\ Connect(t))
                       /\ WF_vars(t \in DOMAIN tr /\ Opened(t))
    /\ \A c \in Serial : WF_vars(c \in DOMAIN net /\ ServerExecutes(c))
    /\ WF_vars(ServerPush)

FairSpec == Spec /\ Fairness

-----------------------------------------------------------------------------
(*                               Properties                                *)

Context == [msg : Nat, txn : Nat, waiting : BOOLEAN, delivered : BOOLEAN]

(* No wait is longer than one that was imposed.                            *)
Wait == {0} \cup UNION {1..w : w \in WaitSeconds}

(* Every variable keeps the shape its source type gives it; a context      *)
(* exists exactly when it has a message id; a socket was made before it is *)
(* closed.                                                                 *)
TypeOK ==
    /\ requests \in Seq(Request) /\ IsInjective(requests)
    /\ finished \subseteq Request \ Queued
    /\ ctx \in [Request -> Context]
    /\ \A r \in Request : ctx[r].msg = 0 => ctx[r] = NoCtx
    /\ \A r \in Request : ctx[r].msg < nextMsg /\ ctx[r].txn <= Len(net)
    /\ err \in [Request -> [on : BOOLEAN, wait : Wait, token : BOOLEAN]]
    /\ timer \in Wait \cup {NoTimer}
    /\ \A d \in drops : d.of \in 1..(nextMsg - 1) /\ d.id \in 0..(nextMsg - 1)
    /\ transport \in 0..Len(tr)
    /\ \A t \in DOMAIN tr : tr[t].conn \in 0..Len(net)
    /\ closed \subseteq started /\ started \subseteq DOMAIN net

(* Somebody will report the connection c as failed if it breaks, or        *)
(* already has: c belongs to a transport with a delegate, or the report is *)
(* waiting on the manager queue.                                           *)
Watched(c) ==
    \/ \E t \in DOMAIN tr : tr[t].conn = c /\ tr[t].live
    \/ Contains(mq, [op |-> "failed", c |-> c])

(* A request that counts on a connection for its answer is never forgotten *)
(* with it: the connection is watched.  The one exception is a send whose  *)
(* completion reached the manager queue after the transport had been       *)
(* replaced (see README): the code then records a dead connection.         *)
NoStrandedRequest ==
    \A r \in Queued : ctx[r].txn # NoConn =>
        Watched(ctx[r].txn) \/ <<r, ctx[r].txn>> \in late

(* waitingForMessageId keeps a request out of every transaction, so it     *)
(* must not outlive the send it stands for: a completion that will clear   *)
(* it is still on its way through the queues.                              *)
InFlight(r) ==
    \/ \E i \in DOMAIN tq : tq[i].op = "send" /\ r \in tq[i].batch
    \/ \E i \in DOMAIN cq : cq[i].op = "write" /\ r \in cq[i].batch
    \/ \E i \in DOMAIN mq : mq[i].op = "sent" /\ r \in mq[i].batch

WaitingIsAnswered == \A r \in Queued : ctx[r].waiting => InFlight(r)

(* Something is on its way that will make the client look: a requested     *)
(* transaction, a transport that is about to connect, to notice that its   *)
(* connection is gone or to ask, a lock whose release repeats a refused    *)
(* request, or a state whose end requests a transaction.                   *)
WakeUpPending ==
    \/ willRequest \/ paused \/ timeFix
    \/ /\ transport # NoTransport
       /\ \/ tr[transport].want
          \/ tr[transport].conn # NoConn /\ ~tr[transport].open
          \/ tr[transport].conn \in closed
          \/ \E i \in DOMAIN tq : tq[i].op \in {"needs", "pass"} /\ tq[i].t = transport
          \/ tr[transport].again /\ \E i \in DOMAIN tq : tq[i].op = "send"
                                                       /\ tq[i].t = transport
          \/ \E i \in DOMAIN mq : mq[i].op = "ready" /\ mq[i].t = transport

(* Whenever a request that met no error could be sent and no completion    *)
(* for it is due, the client will look.  A failed send requests nothing    *)
(* itself and relies on the connection it failed on being replaced.        *)
NoLostWakeUp ==
    \A r \in Queued : Sendable(r) /\ ~err[r].on /\ ~InFlight(r) => WakeUpPending

(* The same for a request that is tried again after an error: a timer      *)
(* wakes the client.  There is one timer, for the shortest wait; a request *)
(* that waits longer relies on what becomes of another one, its answer,    *)
(* the password or the token it waits for.                                 *)
RetriesAreTimed ==
    \A r \in Queued : Sendable(r) /\ err[r].on /\ ~InFlight(r) =>
        \/ WakeUpPending \/ timer = 0
        \/ \E q \in Queued \ {r} : /\ err[q].on
                                   /\ \/ ctx[q] # NoCtx \/ err[q].token
                                      \/ q \in PasswordBound /\ password

(* After the session changes no request keeps the message id of an old     *)
(* session, and no answer of an old session is dropped, again except       *)
(* through a late completion.                                              *)
IdsOfThisSession ==
    /\ late = {} => \A d \in drops : d.of >= born
    /\ \A r \in Queued : ctx[r] # NoCtx =>
         ctx[r].msg >= born \/ \E x \in late : x[1] = r

(* Within one session of the server a request is executed at most once,    *)
(* however often it is sent again: a repeat carries the message id of the  *)
(* first copy, unless the server refused that one.                         *)
ExecutedOnce ==
    \A x, y \in srv.seen : x.ran /\ y.ran /\ x.ref = y.ref /\ x.id < y.id => x.id \in srv.refused

(* What holds of a request at every step, however the payloads of a        *)
(* transaction come apart: the state is well formed, waitingForMessageId   *)
(* is answered, the connection is watched and the id is of this session.   *)
RequestInv ==
    TypeOK /\ NoStrandedRequest /\ WaitingIsAnswered /\ IdsOfThisSession

(* Every request is completed or removed, unless a late completion has     *)
(* left it waiting on a dead connection.                                   *)
RequestsFinish ==
    \A r \in Request :
        r \in Queued ~> (r \notin Queued \/ <<r, ctx[r].txn>> \in late)
=============================================================================
