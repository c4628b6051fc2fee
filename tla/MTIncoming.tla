------------------------------ MODULE MTIncoming ------------------------------
(***************************************************************************)
(* What MTProto does with the messages of the server: it drops the ones it *)
(* has processed before, confirms them (the confirmations of               *)
(* MTSessionInfo.m), and asks again for the ones the server only announces *)
(* (MTResendMessageService.m).                                             *)
(*                                                                         *)
(* Confirmations are sent with the next transaction.  They stay scheduled, *)
(* marked with the connection that took them, until any data comes in on   *)
(* that connection.  The server sends what is not confirmed again on every *)
(* new connection, or announces it.  A resend service remembers the id of  *)
(* its question and the connection that took it.  Lost connections, a new  *)
(* transport, a new session, rejected payloads, data that cannot be read   *)
(* and a server that starts anew come between any two of these steps.      *)
(***************************************************************************)
EXTENDS Integers, Sequences, FiniteSets, SequencesExt

CONSTANTS
    Update,     \* messages the server sends on its own
    Answer,     \* answers to requests
    MaxUnacknowledged, \* MTMaxUnacknowledgedMessageCount
    FaultKinds, \* which faults happen
    MaxBreaks,  \* bound on their number
    MaxQueue,   \* bound on what is on its way in either direction
    MaxAsks     \* bound on payloads with questions

Msg == Update \cup Answer

ASSUME IncomingAssumption ==
    /\ IsFiniteSet(Msg) /\ Update \cap Answer = {}
    /\ FaultKinds \subseteq {"close", "replace", "session", "reject", "noise",
                             "restart", "forget"}
    /\ MaxUnacknowledged \in Nat /\ MaxBreaks \in Nat /\ MaxQueue \in Nat \ {0}
    /\ MaxAsks \in Nat

Conn   == 1..(MaxBreaks + 1)
NoConn == 0
Off    == -1

VARIABLES
    session,    \* _sessionInfo, by number
    transport,  \* _transport, by number
    processed,  \* _processedMessageIdsSet
    scheduled,  \* the messages of _scheduledMessageConfirmations
    txns,       \* their transactionIds
    resend,     \* for every message, its MTResendMessageService: Off, or
                \* _currentRequestTransactionId (NoConn for nil)
    ask,        \* its _currentRequestMessageId, 0 for none
    born,       \* the first question that may be its own
    wanted,     \* answers some request still waits for
    asking,     \* requestTransportTransaction was called
    asked,      \* the last question
    conn,       \* the connection, or NoConn
    nextConn,   \* the next connection
    fresh,      \* the connection has not had its ping yet
    doomed,     \* [transport reset] will close it
    mq,         \* blocks posted to the manager queue
    up,         \* payloads on their way to the server
    down,       \* payloads on their way to the client
    produced,   \* messages the server has made
    unacked,    \* those it keeps until they are confirmed
    sentOn,     \* those it has sent or announced on this connection
    heard,      \* whether it has heard from the client on this connection
    lost,       \* it has started anew and not said so yet
    handled,    \* how often a message was given to the services, this session
    silent,     \* messages whose confirmation the client will not repeat on
                \* this connection: announced after they had been processed,
                \* or confirmed in a payload that was rejected
    late,       \* services that recorded a connection of a replaced transport
    breaks      \* faults so far

store    == <<session, processed, scheduled, txns, wanted>>
services == <<resend, ask, born, late>>
wires    == <<conn, nextConn, up, down>>
server   == <<produced, unacked, sentOn, heard, lost>>
vars     == <<store, services, transport, asking, asked, wires, fresh, doomed, mq,
              server, handled, silent, breaks>>

-----------------------------------------------------------------------------
(*                          MTSessionInfo                                  *)

(* scheduleMessageConfirmation: a scheduled one keeps its transactions.    *)
Schedule(sched, tx, m) ==
    /\ scheduled' = sched \cup {m}
    /\ txns' = IF m \in sched THEN tx ELSE [tx EXCEPT ![m] = {}]

(* removeScheduledMessageConfirmationsWithTransactionIds.                  *)
Unscheduled(c) == {m \in scheduled : c \notin txns[m]}

(* assignTransactionId:toScheduledMessageConfirmationsWithIds:             *)
Assigned(c, ids) ==
    [m \in Msg |-> IF m \in scheduled \cap ids THEN txns[m] \cup {c} ELSE txns[m]]

(* scheduledMessageConfirmationsExceedSize:orCount:, by count.             *)
ConfirmationsExceed == Cardinality(scheduled) > MaxUnacknowledged

-----------------------------------------------------------------------------
(*                     MTResendMessageService                              *)

(* resendMessageServiceCompleted, for the services of S.                   *)
Complete(S) ==
    /\ resend' = [m \in Msg |-> IF m \in S THEN Off ELSE resend[m]]
    /\ ask'    = [m \in Msg |-> IF m \in S THEN 0 ELSE ask[m]]
    /\ born'   = [m \in Msg |-> IF m \in S THEN 0 ELSE born[m]]
    /\ late'   = late \ S

(* The services of S no longer count on the connection.                    *)
AskAgain(S) ==
    /\ resend' = [m \in Msg |-> IF m \in S THEN NoConn ELSE resend[m]]
    /\ late'   = late \ S

On(c) == {m \in Msg : resend[m] = c}

(* Mutant: a message that was processed is asked for again.                *)
RequestAnyMessage(m) ==
    /\ IF resend[m] = Off
       THEN /\ resend' = [resend EXCEPT ![m] = NoConn]
            /\ born' = [born EXCEPT ![m] = asked + 1]
            /\ asking' = TRUE
       ELSE UNCHANGED <<resend, born, asking>>
    /\ UNCHANGED <<ask, late>>

(* requestMessageWithId, and mtProtoDidAddService of the new service.      *)
RequestMessage(m) ==
    /\ IF resend[m] = Off /\ m \notin processed
       THEN /\ resend' = [resend EXCEPT ![m] = NoConn]
            /\ born' = [born EXCEPT ![m] = asked + 1]
            /\ asking' = TRUE
       ELSE UNCHANGED <<resend, born, asking>>
    /\ UNCHANGED <<ask, late>>

-----------------------------------------------------------------------------
(*                 Data from the server, on the manager queue              *)

(* Mutants: a duplicate is dropped without a word; a message is processed  *)
(* without being remembered.                                               *)
ReceiveNewMessage(c, m) ==
    /\ IF m \in processed
       THEN /\ scheduled' = Unscheduled(c)
            /\ UNCHANGED <<txns, processed, handled, services, wanted>>
       ELSE /\ Schedule(Unscheduled(c), txns, m)
            /\ processed' = processed \cup {m}
            /\ handled' = [handled EXCEPT ![m] = @ + 1]
            /\ Complete({m})
            /\ wanted' = wanted \ {m}
    /\ asking' = (asking \/ ConfirmationsExceed')
    /\ UNCHANGED silent

ReceiveForgetfully(c, m) ==
    /\ Schedule(Unscheduled(c), txns, m)
    /\ handled' = [handled EXCEPT ![m] = @ + 1]
    /\ Complete({m})
    /\ wanted' = wanted \ {m}
    /\ asking' = (asking \/ ConfirmationsExceed')
    /\ UNCHANGED <<processed, silent>>

(* _processIncomingMessage with the message m.  Its request is answered    *)
(* and its resend service is done.  A transaction is requested only above  *)
(* the limit.                                                              *)
ReceiveMessage(c, m) ==
    /\ Schedule(Unscheduled(c), txns, m)
    /\ asking' = (asking \/ ConfirmationsExceed')
    /\ IF m \in processed
       THEN UNCHANGED <<processed, handled, services, wanted>>
       ELSE /\ processed' = processed \cup {m}
            /\ handled' = [handled EXCEPT ![m] = @ + 1]
            /\ Complete({m})
            /\ wanted' = wanted \ {m}
    /\ UNCHANGED silent

(* Mutant: what is announced is confirmed as well as asked for.            *)
ReceiveInfoConfirmed(c, m) ==
    /\ RequestMessage(m)
    /\ Schedule(Unscheduled(c), txns, m)
    /\ silent' = IF m \in Update \cap processed THEN silent \cup {m} ELSE silent
    /\ UNCHANGED <<processed, handled, wanted>>

(* A detailed info: an update is always asked for, an answer only when its *)
(* request still waits; otherwise it is confirmed unseen.                  *)
ReceiveInfo(c, m) ==
    /\ IF m \in Update \/ m \in wanted
       THEN /\ RequestMessage(m)
            /\ scheduled' = Unscheduled(c)
            /\ UNCHANGED txns
       ELSE /\ Schedule(Unscheduled(c), txns, m)
            /\ asking' = TRUE
            /\ UNCHANGED services
    /\ silent' = IF m \in Update \cap processed THEN silent \cup {m} ELSE silent
    /\ UNCHANGED <<processed, handled, wanted>>

(* A msgs_state_info in place of the message, for question n: the resend   *)
(* failed, and the request behind it will be sent again for another        *)
(* answer.  A service with a later question does not listen.               *)
ReceiveState(c, m, n) ==
    /\ scheduled' = Unscheduled(c)
    /\ IF resend[m] # Off /\ ask[m] = n
       THEN Complete({m}) /\ wanted' = wanted \ {m}
       ELSE UNCHANGED <<services, wanted>>
    /\ UNCHANGED <<processed, txns, asking, handled, silent>>

(* A bad_msg_notification: messageDeliveryFailed for question n of S.      *)
ReceiveBad(c, n, S) ==
    LET failed == {m \in S : resend[m] # Off /\ ask[m] = n}
    IN  /\ scheduled' = Unscheduled(c)
        /\ AskAgain(failed)
        /\ ask' = [m \in Msg |-> IF m \in failed THEN 0 ELSE ask[m]]
        /\ asking' = TRUE
        /\ UNCHANGED <<processed, txns, born, wanted, handled, silent>>

(* A new_session_created: mtProtoServerDidChangeSession.  Questions before *)
(* the first valid one are lost, and so are requests.                      *)
ReceiveNew(c, first) ==
    /\ scheduled' = Unscheduled(c)
    /\ Complete({m \in Msg : ask[m] # 0 /\ ask[m] < first})
    /\ wanted' \in SUBSET wanted
    /\ UNCHANGED <<processed, txns, asking, handled, silent>>

ReceivePong(c) ==
    /\ scheduled' = Unscheduled(c)
    /\ UNCHANGED <<processed, txns, services, wanted, asking, handled, silent>>

(* transportHasIncomingData: ignored when the transport was replaced.      *)
RunData ==
    /\ mq # <<>> /\ Head(mq).op = "data"
    /\ mq' = Tail(mq)
    /\ LET e == Head(mq)
       IN  \/ /\ e.tr # transport
              /\ UNCHANGED <<processed, scheduled, txns, services, wanted, asking,
                             handled, silent>>
           \/ /\ e.tr = transport
              /\ \/ e.x.k = "msg"   /\ ReceiveMessage(e.c, e.x.m)
                 \/ e.x.k = "info"  /\ ReceiveInfo(e.c, e.x.m)
                 \/ e.x.k = "state" /\ ReceiveState(e.c, e.x.m, e.x.n)
                 \/ e.x.k = "bad"   /\ ReceiveBad(e.c, e.x.n, e.x.asks)
                 \/ e.x.k = "new"   /\ ReceiveNew(e.c, e.x.n)
                 \/ e.x.k = "pong"  /\ ReceivePong(e.c)
    /\ UNCHANGED <<session, transport, asked, wires, fresh, doomed, server, breaks>>

Break(kind) == kind \in FaultKinds /\ breaks < MaxBreaks /\ breaks' = breaks + 1

(* The same for data that cannot be read: the connection's transactions    *)
(* may have failed, and the transport is told to close its connection.     *)
RunNoise ==
    /\ mq # <<>> /\ Head(mq).op = "data" /\ Head(mq).tr = transport
    /\ Break("noise")
    /\ mq' = Tail(mq)
    /\ AskAgain(On(Head(mq).c))
    /\ asking' = (asking \/ On(Head(mq).c) # {})
    /\ doomed' = (conn # NoConn)
    /\ UNCHANGED <<store, ask, born, transport, asked, wires, fresh, server, handled,
                   silent>>

-----------------------------------------------------------------------------
(*                              Transactions                               *)

(* transportReadyForTransaction.  Confirmations go along unless a message  *)
(* of high priority does; the first transaction of a connection holds its  *)
(* ping and all confirmations.  A resend service asks unless its question  *)
(* is on a connection.  The socket takes the payload and the completion is *)
(* posted; a payload it does not take changes nothing here.                *)
Transaction(high) ==
    LET acks == IF fresh \/ ~high \/ ConfirmationsExceed THEN scheduled ELSE {}
        asks == {m \in Msg : resend[m] # Off /\ (ask[m] = 0 \/ resend[m] = NoConn)}
        n    == asked + 1
        any  == high \/ fresh \/ acks \cup asks # {}
    IN  /\ conn # NoConn
        /\ any \/ asking
        /\ Len(up) < MaxQueue /\ Len(mq) < MaxQueue
        /\ asks # {} => asked < MaxAsks
        /\ asked' = IF asks = {} THEN asked ELSE n
        /\ up' = IF any THEN Append(up, [sess |-> session, n |-> n, acks |-> acks,
                                         asks |-> asks]) ELSE up
        /\ mq' = IF any THEN Append(mq, [op |-> "sent", sess |-> session,
                                         tr |-> transport, c |-> conn, n |-> n,
                                         acks |-> acks, asks |-> asks]) ELSE mq
        /\ asking' = FALSE /\ fresh' = FALSE
        /\ UNCHANGED <<store, services, transport, conn, nextConn, down, doomed,
                       server, handled, silent, breaks>>

(* The completions.  They hold on to the session and the services they     *)
(* were made for.                                                          *)
RunSent ==
    /\ mq # <<>> /\ Head(mq).op = "sent"
    /\ mq' = Tail(mq)
    /\ LET e    == Head(mq)
           mine == {m \in e.asks : resend[m] # Off /\ born[m] <= e.n}
       IN  /\ txns' = IF e.sess = session THEN Assigned(e.c, e.acks) ELSE txns
           /\ resend' = [m \in Msg |-> IF m \in mine THEN e.c ELSE resend[m]]
           /\ ask' = [m \in Msg |-> IF m \in mine THEN e.n ELSE ask[m]]
           /\ late' = IF e.tr = transport THEN late \ mine ELSE late \cup mine
    /\ UNCHANGED <<session, processed, scheduled, wanted, born, transport, asking,
                   asked, wires, fresh, doomed, server, handled, silent, breaks>>

(* Mutant: the resend services do not hear of a lost connection.           *)
RunFailedUnheard ==
    /\ mq # <<>> /\ Head(mq).op = "failed"
    /\ mq' = Tail(mq)
    /\ UNCHANGED <<store, services, transport, asking, asked, wires, fresh, doomed,
                   server, handled, silent, breaks>>

(* transactionsMayHaveFailed, whichever transport says so: confirmations   *)
(* stay as they are, for the next transaction repeats them all.            *)
RunFailed ==
    /\ mq # <<>> /\ Head(mq).op = "failed"
    /\ mq' = Tail(mq)
    /\ AskAgain(On(Head(mq).c))
    /\ asking' = (asking \/ On(Head(mq).c) # {})
    /\ UNCHANGED <<store, ask, born, transport, asked, wires, fresh, doomed, server,
                   handled, silent, breaks>>

(* removeRequestByInternalId: nobody waits for the answer any more.        *)
CancelRequest(m) ==
    /\ m \in wanted
    /\ wanted' = wanted \ {m}
    /\ UNCHANGED <<session, processed, scheduled, txns, services, transport, asking,
                   asked, wires, fresh, doomed, mq, server, handled, silent, breaks>>

-----------------------------------------------------------------------------
(*                  Connections, transports and sessions                   *)

(* tcpConnectionClosed: what was on its way is lost.                       *)
CutConnection ==
    /\ conn' = NoConn /\ up' = <<>> /\ down' = <<>>
    /\ fresh' = FALSE /\ doomed' = FALSE
    /\ sentOn' = {} /\ heard' = FALSE /\ silent' = {}
    /\ UNCHANGED <<nextConn, produced, unacked, lost>>

Report == mq' = IF conn = NoConn THEN mq ELSE Append(mq, [op |-> "failed", c |-> conn])

ConnectionCloses ==
    /\ conn # NoConn
    /\ \/ doomed /\ UNCHANGED breaks
       \/ Break("close")
    /\ Report
    /\ CutConnection
    /\ UNCHANGED <<store, services, transport, asking, asked, handled>>

Connect ==
    /\ conn = NoConn
    /\ conn' = nextConn
    /\ nextConn' = nextConn + 1
    /\ fresh' = TRUE /\ asking' = TRUE
    /\ UNCHANGED <<store, services, transport, asked, up, down, doomed, mq, server,
                   handled, silent, breaks>>

(* setTransport inside a session: allTransactionsMayHaveFailed.  A pause   *)
(* also has the old connection reported; resetTransport stops it before it *)
(* can be.                                                                 *)
ReplaceTransport(reported) ==
    /\ Break("replace")
    /\ transport' = transport + 1
    /\ AskAgain({m \in Msg : resend[m] # Off})
    /\ asking' = TRUE
    /\ IF reported THEN Report ELSE UNCHANGED mq
    /\ CutConnection
    /\ UNCHANGED <<store, ask, born, asked, handled>>

(* resetSessionInfo: a new MTSessionInfo, resend services complete, the    *)
(* requests will be sent again, the transport is replaced.                 *)
ResetSessionInfo ==
    /\ Break("session")
    /\ session' = session + 1
    /\ transport' = transport + 1
    /\ processed' = {} /\ scheduled' = {}
    /\ txns' = [m \in Msg |-> {}]
    /\ Complete(Msg)
    /\ wanted' = {}
    /\ handled' = [m \in Msg |-> 0]
    /\ asking' = TRUE
    /\ CutConnection
    /\ UNCHANGED <<asked, mq>>

-----------------------------------------------------------------------------
(*                         The server (external)                           *)

client == <<store, services, transport, asking, asked, conn, nextConn, fresh, doomed,
            handled>>

Produce(m) ==
    /\ m \notin produced
    /\ produced' = produced \cup {m}
    /\ unacked' = unacked \cup {m}
    /\ UNCHANGED <<client, up, down, mq, sentOn, heard, lost, silent, breaks>>

Say(x) == down' = Append(down, x)

(* A message that is not confirmed is sent once on every connection, or    *)
(* only announced.                                                         *)
ServerSends(m, kind) ==
    /\ heard /\ m \in unacked \ sentOn
    /\ Len(down) < MaxQueue
    /\ Say([k |-> kind, m |-> m])
    /\ sentOn' = sentOn \cup {m}
    /\ UNCHANGED <<client, up, mq, produced, unacked, heard, lost, silent, breaks>>

(* A payload arrives: what it confirms is forgotten, what it asks for is   *)
(* sent again or reported as gone.  The first one holds a ping, and the    *)
(* first one a new server sees makes it say so.                            *)
ServerReads ==
    /\ up # <<>>
    /\ up' = Tail(up)
    /\ LET p    == Head(up)
           left == unacked \ p.acks
           reply(m) == IF m \in left THEN [k |-> "msg", m |-> m]
                                     ELSE [k |-> "state", m |-> m, n |-> p.n]
           news == IF lost THEN <<[k |-> "new", n |-> p.n]>> ELSE <<>>
           pong == IF heard THEN <<>> ELSE <<[k |-> "pong"]>>
           asks == SetToSeq(p.asks)
       IN  /\ unacked' = left
           /\ down' = down \o news \o pong \o [i \in DOMAIN asks |-> reply(asks[i])]
           /\ sentOn' = sentOn \cup (p.asks \cap left)
    /\ heard' = TRUE /\ lost' = FALSE
    /\ UNCHANGED <<client, mq, produced, silent, breaks>>

(* A payload is rejected, with its questions and confirmations.            *)
ServerRejects ==
    /\ up # <<>>
    /\ Break("reject")
    /\ up' = Tail(up)
    /\ Say([k |-> "bad", n |-> Head(up).n, asks |-> Head(up).asks])
    /\ silent' = silent \cup Head(up).acks
    /\ heard' = TRUE
    /\ UNCHANGED <<client, mq, produced, unacked, sentOn, lost>>

(* The server gives up a message that was never confirmed.                 *)
ServerForgets(m) ==
    /\ m \in unacked
    /\ Break("forget")
    /\ unacked' = unacked \ {m}
    /\ UNCHANGED <<client, up, down, mq, produced, sentOn, heard, lost, silent>>

(* The server loses the session: what it has to say and what it keeps.     *)
ServerRestarts ==
    /\ Break("restart")
    /\ unacked' = {} /\ down' = <<>> /\ lost' = TRUE
    /\ UNCHANGED <<client, up, mq, produced, sentOn, heard, silent>>

Arrive ==
    /\ down # <<>> /\ Len(mq) < MaxQueue
    /\ down' = Tail(down)
    /\ mq' = Append(mq, [op |-> "data", tr |-> transport, c |-> conn,
                         x |-> Head(down)])
    /\ UNCHANGED <<client, up, server, silent, breaks>>

-----------------------------------------------------------------------------
Init ==
    /\ session = 1 /\ transport = 1 /\ processed = {} /\ scheduled = {}
    /\ txns = [m \in Msg |-> {}] /\ wanted = Answer
    /\ resend = [m \in Msg |-> Off] /\ late = {}
    /\ ask = [m \in Msg |-> 0] /\ born = [m \in Msg |-> 0]
    /\ asking = FALSE /\ asked = 0
    /\ conn = NoConn /\ nextConn = 1 /\ fresh = FALSE /\ doomed = FALSE
    /\ mq = <<>> /\ up = <<>> /\ down = <<>>
    /\ produced = {} /\ unacked = {} /\ sentOn = {} /\ heard = FALSE /\ lost = FALSE
    /\ handled = [m \in Msg |-> 0] /\ silent = {} /\ breaks = 0

Manager == RunData \/ RunSent \/ RunFailed

Next ==
    \/ Manager \/ RunNoise
    \/ \E high \in BOOLEAN : Transaction(high)
    \/ ConnectionCloses \/ Connect \/ ResetSessionInfo
    \/ \E reported \in BOOLEAN : ReplaceTransport(reported)
    \/ \E m \in Msg : \/ CancelRequest(m) \/ Produce(m) \/ ServerForgets(m)
                      \/ \E kind \in {"msg", "info"} : ServerSends(m, kind)
    \/ ServerReads \/ ServerRejects \/ ServerRestarts \/ Arrive

Spec == Init /\ [][Next]_vars

(* The queues run; the transport reconnects, closes a connection it was    *)
(* told to close, and makes a transaction when one was requested, with or  *)
(* without a message of high priority; the server reads, and sends or      *)
(* announces what is not confirmed.  Strong fairness where only the bound  *)
(* on the queues comes in between.                                         *)
Fairness ==
    /\ WF_vars(Manager) /\ WF_vars(Connect) /\ WF_vars(doomed /\ ConnectionCloses)
    /\ SF_vars(asking /\ \E high \in BOOLEAN : Transaction(high))
    /\ WF_vars(ServerReads) /\ SF_vars(Arrive)
    /\ \A m \in Msg : WF_vars(\E kind \in {"msg", "info"} : ServerSends(m, kind))

FairSpec == Spec /\ Fairness

-----------------------------------------------------------------------------
FlagsOK ==
    /\ asking \in BOOLEAN /\ fresh \in BOOLEAN /\ doomed \in BOOLEAN
    /\ heard \in BOOLEAN /\ lost \in BOOLEAN

(* The shape of the state; a message that was processed is not asked for.  *)
TypeOK ==
    /\ session \in 1..(MaxBreaks + 1) /\ transport \in 1..(MaxBreaks + 1)
    /\ processed \subseteq Msg /\ scheduled \subseteq Msg /\ wanted \subseteq Answer
    /\ txns \in [Msg -> SUBSET Conn] /\ resend \in [Msg -> {Off, NoConn} \cup Conn]
    /\ asked \in 0..MaxAsks /\ ask \in [Msg -> 0..MaxAsks]
    /\ born \in [Msg -> 0..(MaxAsks + 1)] /\ late \subseteq Msg
    /\ conn \in {NoConn} \cup Conn /\ nextConn \in 1..(MaxBreaks + 2)
    /\ unacked \subseteq produced /\ produced \subseteq Msg
    /\ sentOn \subseteq produced /\ silent \subseteq Msg
    /\ FlagsOK /\ breaks \in 0..MaxBreaks
    /\ \A m \in processed : resend[m] = Off

Incoming(i) == mq[i].op = "data" /\ mq[i].tr = transport

Names(x, m) == x.k \in {"msg", "info", "state"} /\ x.m = m

OnItsWay(m) ==
    \/ \E i \in DOMAIN down : Names(down[i], m)
    \/ \E i \in DOMAIN mq : Incoming(i) /\ Names(mq[i].x, m)

(* A processed message that the server still holds is never left without a *)
(* confirmation to come: it is scheduled, or on its way, or the server     *)
(* will send the message again.  Removing confirmations as soon as any     *)
(* data comes in on the connection that took them is safe only because a   *)
(* lost confirmation brings the message back and duplicates are confirmed  *)
(* again.  The exceptions last until the connection ends: an update that   *)
(* is announced again is neither asked for nor confirmed, and the word     *)
(* that a payload was rejected removes the confirmations it held.          *)
NoLostConfirmation ==
    \A m \in processed \cap unacked :
        \/ m \in scheduled
        \/ \E i \in DOMAIN up : m \in up[i].acks
        \/ m \notin sentOn \/ doomed
        \/ OnItsWay(m)
        \/ m \in silent

(* Within a session no message is given to the services twice, however     *)
(* often it is sent.                                                       *)
HandledOnce == \A m \in Msg : handled[m] <= 1

(* The server is only told to forget what the client has seen in this      *)
(* session or does not want: a confirmation in a payload or a queue is for *)
(* a processed message or for an answer nobody waits for.                  *)
ConfirmedIsSettled ==
    \A i \in DOMAIN up : up[i].sess = session =>
        up[i].acks \subseteq processed \cup (Answer \ wanted)

(* x ends the service of m whose question is n, or makes it ask again.     *)
Settles(x, m, n) ==
    \/ x.k = "msg" /\ x.m = m
    \/ x.k = "state" /\ x.m = m /\ x.n = n
    \/ x.k = "bad" /\ m \in x.asks /\ x.n = n
    \/ x.k = "new" /\ x.n > n

(* A resend service that counts on its question being answered has this    *)
(* very question on its way, or an answer that it will listen to, or the   *)
(* server that lost it will say so, or the service hears that the          *)
(* connection is gone.  The exception is a service whose completion ran    *)
(* after the transport was replaced.                                       *)
ResendIsWatched ==
    \A m \in Msg : resend[m] \in Conn =>
        \/ m \in late
        \/ resend[m] = conn /\ \/ \E i \in DOMAIN up : m \in up[i].asks /\ up[i].n = ask[m]
                               \/ \E i \in DOMAIN down : Settles(down[i], m, ask[m])
                               \/ lost
        \/ \E i \in DOMAIN mq : Incoming(i) /\ Settles(mq[i].x, m, ask[m])
        \/ Contains(mq, [op |-> "failed", c |-> resend[m]])

(* Once there are more confirmations than the limit they all arrive, or    *)
(* the session is given up, or a lost connection leaves fewer than that    *)
(* scheduled: those may wait for the next transaction, whoever asks for    *)
(* it.                                                                     *)
ConfirmationsArrive ==
    \A m \in Msg, s \in 1..(MaxBreaks + 1) :
        (session = s /\ m \in scheduled /\ ConfirmationsExceed) ~>
            \/ session # s \/ m \notin unacked \/ m \in silent
            \/ m \in scheduled /\ ~ConfirmationsExceed

(* Every resend service comes to its end, unless its completion ran after  *)
(* the transport was replaced, or the server started anew and no payload   *)
(* has reached it since.                                                   *)
ResendsEnd ==
    \A m \in Msg : resend[m] # Off ~> (resend[m] = Off \/ m \in late \/ lost)
=============================================================================
