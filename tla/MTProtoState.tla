---------------------------- MODULE MTProtoState ----------------------------
(***************************************************************************)
(* When an MTProto may send: the MTProtoStateAwaiting flags of _mtState,   *)
(* what sets and what clears them, and MTContext, whose scheme, key and    *)
(* token of the datacenter they wait for.  Pause, resume, stop, the time   *)
(* fix ping and MTTimeSyncMessageService are here too.                     *)
(*                                                                         *)
(* mq is MTProto's manager queue, cq the context queue.  A Run action      *)
(* executes the block at the head of mq.  MTProto reads the context with   *)
(* dispatch_sync: blocks that are due on cq come first, so an action that  *)
(* reads the context waits until cq is empty.  The three reads of a        *)
(* resetTransport are one step.                                            *)
(*                                                                         *)
(* The application uses no temporary keys (useTempAuthKeys is false), so   *)
(* that MTProtoStateAwaitingDatacenterTempAuthKey and BindingTempAuthKey   *)
(* are never set.  The transport is reduced to its connections (links);    *)
(* MTTcpTransport has the rest.                                            *)
(***************************************************************************)
EXTENDS Naturals, Sequences

CONSTANTS Roles,       \* what the datacenter may be for: see Role
          Events,      \* the disturbances that may happen
          MaxEvents,   \* how many of them
          MaxPings     \* time fix pings and salt requests that MTProto sends

(* An MTProto of the main datacenter, one that imports its authorization   *)
(* (requiredAuthToken is set) and one for a CDN (mtProto.cdn).             *)
Role == {"main", "token", "cdn"}

ASSUME StateAssumption ==
  /\ Roles \subseteq Role /\ Roles # {}
  /\ MaxEvents \in Nat /\ MaxPings \in Nat
  /\ Events \subseteq {"close", "work", "pause", "stop", "session", "scheme", "proxy",
                       "token", "bad", "seq", "newSession", "salts", "resync", "missing"}

VARIABLES
  proto,   \* MTProto: role, flags, scheme, authInfo, transport, will, fix, sync
  net,     \* its transport: links, what is handed over, what the server got
  ctx,     \* MTContext: scheme, auth, token and the actions that fetch them
  mq, cq,
  work,    \* a request service has something to send
  pings,   \* messages sent so far
  events,
  hist     \* paths on which a flag or a time fix is known to be forgotten

vars == <<proto, net, ctx, mq, cq, work, pings, events, hist>>

Cdn == proto.role = "cdn"
NeedsToken == proto.role = "token"

Awaiting == {"scheme", "auth", "token"}
Flags == Awaiting \cup {"time", "paused", "stopped"}

Block(k, n, l, p) == [k |-> k, n |-> n, l |-> l, p |-> p]
None == [link |-> 0, p |-> 0]    \* no time fix context, no transaction of the sync service

(* An MTProto just made, for a datacenter known or not yet known, and its  *)
(* first request.  Another one may be at the key exchange already.         *)
Init ==
  /\ \E r \in Roles, s \in {0, 1}, a \in BOOLEAN, t \in BOOLEAN, other \in BOOLEAN :
       /\ ctx = [scheme |-> s, auth |-> a, token |-> t /\ a, discovering |-> FALSE,
                 authAction |-> other /\ ~a, tokenAction |-> FALSE]
       /\ proto = [role |-> r, flags |-> {}, scheme |-> 0, authInfo |-> a, transport |-> 0, made |-> 0,
                   will |-> TRUE, fix |-> None, sync |-> FALSE, syncOn |-> None]
  /\ net = [link |-> 0, links |-> 0, wanted |-> FALSE, needs |-> FALSE,
            out |-> {}, asked |-> {}, reporting |-> {}]
  /\ mq = <<Block("pass", 0, 0, 0)>> /\ cq = <<>>
  /\ work = TRUE /\ pings = 0 /\ events = 0
  /\ hist = [missed |-> FALSE, silent |-> FALSE, late |-> FALSE, unasked |-> FALSE]

Kinds == {"pass", "scheme", "auth", "token", "ready", "sent", "saltsSent", "notSent",
          "failed", "pong", "futureSalts", "bad", "seq", "newSession", "missing"}

TypeOK ==
  /\ proto \in [role : Roles, flags : SUBSET Flags, scheme : 0..2, authInfo : BOOLEAN, transport : Nat,
                made : Nat, will : BOOLEAN, fix : [link : Nat, p : 0..MaxPings],
                sync : BOOLEAN, syncOn : [link : Nat, p : 0..MaxPings]]
  /\ net.link \in 0..net.links /\ net.wanted \in BOOLEAN /\ net.needs \in BOOLEAN
  /\ net.links \in Nat /\ net.reporting \subseteq 1..net.links
  /\ net.asked \subseteq [k : {"pong", "futureSalts"}, l : 1..net.links, p : 1..MaxPings]
  /\ net.out \subseteq [k : {"sent", "saltsSent"}, n : Nat, l : 0..net.links, p : 1..MaxPings]
  /\ ctx \in [scheme : 0..2, auth : BOOLEAN, token : BOOLEAN, discovering : BOOLEAN,
              authAction : BOOLEAN, tokenAction : BOOLEAN]
  /\ mq \in Seq([k : Kinds, n : Nat, l : Nat, p : 0..(MaxPings + 2)])
  /\ cq \in Seq({"scheme", "auth", "token", "salts"})
  /\ work \in BOOLEAN /\ pings \in 0..MaxPings /\ events \in 0..MaxEvents
  /\ hist \in [missed : BOOLEAN, silent : BOOLEAN, late : BOOLEAN, unasked : BOOLEAN]

-----------------------------------------------------------------------------
(* Methods of MTProto that call each other inside one block of its queue.  *)

Running == [p |-> proto, t |-> net, m |-> mq, c |-> cq, h |-> hist]

Has(s, f) == f \in s.p.flags
CanAskForServiceTransactions(s) == s.p.flags \cap (Awaiting \cup {"stopped"}) = {}
CanAskForTransactions(s) == CanAskForServiceTransactions(s) /\ ~Has(s, "time")

RequestTransportTransaction(s) ==
  IF s.p.will THEN s ELSE
    [s EXCEPT !.p.will = TRUE, !.m = Append(@, Block("pass", 0, 0, 0))]

RequestIf(cond, s) == IF cond THEN RequestTransportTransaction(s) ELSE s

(* allTransactionsMayHaveFailed, with the handler of the sync service. *)
AllTransactionsMayHaveFailed(s) ==
  IF Has(s, "stopped") THEN s ELSE
    LET fix == s.p.fix.link # 0
        sync == s.p.syncOn.link # 0
    IN RequestIf(sync \/ (fix /\ ~Has(s, "paused")),
                 [s EXCEPT !.p.fix = IF fix THEN None ELSE @, !.p.syncOn.link = 0])

(* transportTransactionsMayHaveFailed, for the transactions of one link.   *)
(* The mutant asks again but keeps the time fix. *)
FailedOnKeepsFix(s, l) ==
  LET sync == s.p.syncOn.link = l
  IN RequestTransportTransaction([s EXCEPT !.p.syncOn.link = IF sync THEN 0 ELSE @])

FailedOn(s, l) ==
  LET fix == s.p.fix.link = l
      sync == s.p.syncOn.link = l
  IN IF Has(s, "stopped") THEN s
     ELSE RequestIf(sync \/ (fix /\ ~Has(s, "paused")),
            [s EXCEPT !.p.fix = IF fix THEN None ELSE @,
                      !.p.syncOn.link = IF sync THEN 0 ELSE @])

(* setTransport: running says that the previous transport was not stopped  *)
(* before and will report its connection.                                  *)
Disconnected(t, running) ==
  [t EXCEPT !.reporting = IF running /\ t.link # 0 THEN @ \cup {t.link} ELSE @,
            !.link = 0, !.wanted = FALSE, !.needs = FALSE, !.asked = {}]

SetTransport(s, n, running) ==
  [AllTransactionsMayHaveFailed(s) EXCEPT
     !.p.fix = None, !.p.transport = n, !.t = Disconnected(@, running)]

(* Sets a flag and asks the context, unless the flag is set already. *)
Await(s, f) ==
  IF Has(s, f) THEN s ELSE [s EXCEPT !.p.flags = @ \cup {f}, !.c = Append(@, f)]

(* The mutants make a transport after stop, or wait for a temporary key.   *)
ResetTransportAnyway(s) ==
  LET r == [(IF s.p.transport = 0 THEN s ELSE SetTransport(s, 0, FALSE)) EXCEPT
              !.p.scheme = ctx.scheme]
  IN CASE ctx.scheme = 0 -> Await(r, "scheme")
       [] ctx.scheme # 0 /\ ~ctx.auth -> Await(r, "auth")
       [] OTHER -> SetTransport([r EXCEPT !.p.made = @ + 1], r.p.made + 1, FALSE)

(* resetTransport.  A scheme that is read while its flag is still set has  *)
(* overtaken the notification that would clear the flag (hist.missed).     *)
ResetTransport(s) ==
  IF Has(s, "stopped") THEN s ELSE
    LET stopped == IF s.p.transport = 0 THEN s ELSE SetTransport(s, 0, FALSE)
        r == [stopped EXCEPT !.p.scheme = ctx.scheme,
                             !.h.missed = @ \/ (ctx.scheme # 0 /\ Has(s, "scheme"))]
    IN CASE ctx.scheme = 0 -> Await(r, "scheme")
         [] ctx.scheme # 0 /\ ~ctx.auth -> Await(r, "auth")
         [] ctx.scheme # 0 /\ ctx.auth /\ NeedsToken /\ ~ctx.token -> Await(r, "token")
         [] OTHER -> SetTransport([r EXCEPT !.p.made = @ + 1], r.p.made + 1, FALSE)

ResetAndRequest(s) == RequestTransportTransaction(ResetTransport(s))

(* resetSessionInfo *)
ResetSessionInfo(s) ==
  LET r == [s EXCEPT !.p.fix = None, !.p.syncOn = None]
  IN ResetAndRequest(RequestIf(r.p.sync, r))

(* requestTimeResync, initiateTimeSync, completeTimeSync *)
RequestTimeResync(s) ==
  IF s.p.sync THEN s
  ELSE RequestTransportTransaction([s EXCEPT !.p.sync = TRUE, !.p.syncOn = None])

InitiateTimeSync(s) ==
  IF Has(s, "time") THEN s ELSE RequestTimeResync([s EXCEPT !.p.flags = @ \cup {"time"}])

CompleteTimeSync(s) ==
  IF ~Has(s, "time") THEN s
  ELSE [s EXCEPT !.p.flags = @ \ {"time"}, !.p.sync = FALSE, !.p.syncOn = None]

(* timeSyncInfoChanged with new salts: the key is stored again. *)
TimeSyncInfoChanged(s) ==
  RequestIf(CanAskForServiceTransactions(s),
            IF ctx.auth THEN [s EXCEPT !.c = Append(@, "salts")] ELSE s)

(* The end of a block. *)
Done(s) == proto' = s.p /\ net' = s.t /\ mq' = s.m /\ cq' = s.c /\ hist' = s.h

-----------------------------------------------------------------------------
(* What the application calls. *)

Event(k) == k \in Events /\ events < MaxEvents /\ events' = events + 1

(* addRequest, and any other service with something to send *)
AddWork ==
  /\ Event("work")
  /\ work' = TRUE
  /\ Done(RequestTransportTransaction(Running))
  /\ UNCHANGED <<ctx, pings>>

Pause ==
  /\ ~Has(Running, "paused")
  /\ Event("pause")
  /\ Done(SetTransport([Running EXCEPT !.p.flags = @ \cup {"paused"}], 0, TRUE))
  /\ UNCHANGED <<ctx, work, pings>>

Resume ==
  /\ Has(Running, "paused")
  /\ cq = <<>>
  /\ Done(ResetAndRequest([Running EXCEPT !.p.flags = @ \ {"paused"}]))
  /\ UNCHANGED <<ctx, work, pings, events>>

Stop ==
  /\ ~Has(Running, "stopped")
  /\ Event("stop")
  /\ Done(LET s == [Running EXCEPT !.p.flags = @ \cup {"stopped"}]
          IN IF proto.transport = 0 THEN s ELSE SetTransport(s, 0, FALSE))
  /\ UNCHANGED <<ctx, work, pings>>

(* A reset of the session by an API error or by data that does not parse,  *)
(* a changed proxy or language (contextApiEnvironmentUpdated), and         *)
(* requestTimeResync.                                                      *)
Session ==
  /\ Event("session")
  /\ cq = <<>>
  /\ Done(ResetSessionInfo(Running))
  /\ UNCHANGED <<ctx, work, pings>>

ApiEnvironmentUpdated ==
  /\ Event("proxy")
  /\ cq = <<>>
  /\ Done(ResetAndRequest(Running))
  /\ UNCHANGED <<ctx, work, pings>>

Resync ==
  /\ Event("resync")
  /\ Done(RequestTimeResync(Running))
  /\ UNCHANGED <<ctx, work, pings>>

-----------------------------------------------------------------------------
(* MTContext.  Each update and its notification are one block of cq; the   *)
(* MTProto listens through its own queue.                                  *)

Notify(k, p) == mq' = Append(mq, Block(k, 0, 0, p))

ContextUnchanged == UNCHANGED <<proto, net, work, pings, hist>>

(* updateTransportScheme, for a scheme found or an address set received *)
SchemeFound ==
  /\ ctx.discovering
  /\ ctx' = [ctx EXCEPT !.scheme = 1, !.discovering = FALSE]
  /\ IF ctx.scheme = 0 THEN Notify("scheme", 1) ELSE mq' = mq
  /\ UNCHANGED <<cq, events>> /\ ContextUnchanged

SchemeReplaced ==
  /\ ctx.scheme # 0
  /\ Event("scheme")
  /\ ctx' = [ctx EXCEPT !.scheme = 3 - @]
  /\ Notify("scheme", 3 - ctx.scheme)
  /\ UNCHANGED cq /\ ContextUnchanged

(* transportSchemeForDatacenterWithIdRequired, authTokenFor... *)
SchemeRequired ==
  /\ cq # <<>> /\ Head(cq) = "scheme"
  /\ cq' = Tail(cq)
  /\ ctx' = [ctx EXCEPT !.discovering = TRUE]
  /\ UNCHANGED <<mq, events>> /\ ContextUnchanged

TokenRequired ==
  /\ cq # <<>> /\ Head(cq) = "token"
  /\ cq' = Tail(cq)
  /\ ctx' = [ctx EXCEPT !.tokenAction = TRUE]
  /\ UNCHANGED <<mq, events>> /\ ContextUnchanged

(* authInfoForDatacenterWithIdRequired: the action ends at once, and says  *)
(* nothing, when there is a key.                                           *)
AuthRequired ==
  /\ cq # <<>> /\ Head(cq) = "auth"
  /\ cq' = Tail(cq)
  /\ ctx' = [ctx EXCEPT !.authAction = ~ctx.auth]
  /\ UNCHANGED <<mq, events>> /\ ContextUnchanged

(* The mutant stores the key without telling anybody. *)
AuthCompletedQuietly ==
  /\ ctx.authAction
  /\ ctx' = [ctx EXCEPT !.auth = TRUE, !.authAction = FALSE]
  /\ UNCHANGED <<cq, mq, events>> /\ ContextUnchanged

(* updateAuthInfo at the end of a key exchange, or with new salts *)
AuthCompleted ==
  /\ ctx.authAction
  /\ ctx' = [ctx EXCEPT !.auth = TRUE, !.authAction = FALSE]
  /\ Notify("auth", 0)
  /\ UNCHANGED <<cq, events>> /\ ContextUnchanged

SaltsStored ==
  /\ cq # <<>> /\ Head(cq) = "salts"
  /\ cq' = Tail(cq)
  /\ Notify("auth", 0)
  /\ UNCHANGED <<ctx, events>> /\ ContextUnchanged

(* updateAuthToken at the end of a transfer *)
TokenCompleted ==
  /\ ctx.tokenAction
  /\ ctx' = [ctx EXCEPT !.token = TRUE, !.tokenAction = FALSE]
  /\ Notify("token", 1)
  /\ UNCHANGED <<cq, events>> /\ ContextUnchanged

(* requestMessageServiceAuthorizationRequired of TGNetworkWorker *)
TokenLost ==
  /\ NeedsToken /\ ctx.token
  /\ Event("token")
  /\ ctx' = [ctx EXCEPT !.token = FALSE]
  /\ Notify("token", 0)
  /\ cq' = Append(cq, "token")
  /\ ContextUnchanged

-----------------------------------------------------------------------------
(* Blocks of the manager queue. *)

Take(k) == mq # <<>> /\ Head(mq).k = k

Taken == [Running EXCEPT !.m = Tail(mq)]
Here == Head(mq).n = proto.transport /\ ~Has(Running, "stopped")

(* The pass of requestTransportTransaction *)
Pass ==
  /\ Take("pass")
  /\ cq = <<>>
  /\ LET s == [Taken EXCEPT !.p.will = FALSE]
         r == IF proto.transport = 0 THEN ResetTransport(s) ELSE s
     IN Done(IF proto.flags \cap {"stopped", "paused"} # {} THEN s
             ELSE IF r.p.transport = 0 THEN r
             ELSE [r EXCEPT !.t.wanted = TRUE, !.t.needs = TRUE])
  /\ UNCHANGED <<ctx, work, pings, events>>

(* The mutant does not request a transaction. *)
SchemeUpdatedQuietly ==
  /\ Take("scheme")
  /\ cq = <<>>
  /\ Done(IF Has(Running, "stopped") \/ proto.scheme = Head(mq).p THEN Taken
          ELSE ResetTransport([Taken EXCEPT !.p.flags = @ \ {"scheme"}]))
  /\ UNCHANGED <<ctx, work, pings, events>>

SchemeUpdated ==
  /\ Take("scheme")
  /\ cq = <<>>
  /\ Done(IF Has(Running, "stopped") \/ proto.scheme = Head(mq).p THEN Taken
          ELSE ResetAndRequest([Taken EXCEPT !.p.flags = @ \ {"scheme"}]))
  /\ UNCHANGED <<ctx, work, pings, events>>

(* The mutant takes the key only when it waits for one. *)
AuthInfoIfAwaited ==
  /\ Take("auth")
  /\ cq = <<>>
  /\ LET s == [Taken EXCEPT !.p.authInfo = @ \/ Has(Running, "auth"), !.p.flags = @ \ {"auth"}]
     IN Done(IF Has(Running, "auth") THEN ResetAndRequest(s) ELSE s)
  /\ UNCHANGED <<ctx, work, pings, events>>

AuthInfoUpdated ==
  /\ Take("auth")
  /\ cq = <<>>
  /\ LET s == [Taken EXCEPT !.p.authInfo = TRUE, !.p.flags = @ \ {"auth"}]
     IN Done(IF Has(Running, "auth") THEN ResetAndRequest(s) ELSE s)
  /\ UNCHANGED <<ctx, work, pings, events>>

AuthTokenUpdated ==
  /\ Take("token")
  /\ cq = <<>>
  /\ Done(IF Head(mq).p = 1 /\ Has(Running, "token")
            THEN ResetAndRequest([Taken EXCEPT !.p.flags = @ \ {"token"}])
            ELSE Taken)
  /\ UNCHANGED <<ctx, work, pings, events>>

Send(s, k) ==
  [s EXCEPT !.t.out = @ \cup {[k |-> k, n |-> proto.transport, l |-> net.link, p |-> pings + 1]}]

(* transportReadyForTransaction: what the services have, or only a time    *)
(* fix ping, or nothing.                                                   *)
ReadyForServices ==
  /\ Take("ready") /\ Here
  /\ CanAskForTransactions(Running)
  /\ LET asks == proto.sync /\ proto.syncOn.link = 0
         s == [Taken EXCEPT !.h.unasked = FALSE]
     IN /\ asks => pings < MaxPings
        /\ pings' = IF asks THEN pings + 1 ELSE pings
        /\ Done(IF asks THEN Send(s, "saltsSent") ELSE s)
  /\ work' = FALSE
  /\ UNCHANGED <<ctx, events>>

(* No salt is valid any more: nothing is sent.  A sync service that is     *)
(* there already does not ask for a transaction again (hist.unasked).      *)
ReadyWithoutSalt ==
  /\ Take("ready") /\ Here
  /\ CanAskForTransactions(Running)
  /\ work \/ proto.sync
  /\ Event("salts")
  /\ Done(InitiateTimeSync([Taken EXCEPT !.h.unasked = proto.sync]))
  /\ UNCHANGED <<ctx, work, pings>>

ReadyForTimeFix ==
  /\ Take("ready") /\ Here
  /\ CanAskForServiceTransactions(Running) /\ Has(Running, "time")
  /\ proto.fix.link = 0
  /\ pings < MaxPings /\ pings' = pings + 1
  /\ Done(Send([Taken EXCEPT !.h.unasked = FALSE], "sent"))
  /\ UNCHANGED <<ctx, work, events>>

ReadyForNothing ==
  /\ Take("ready")
  /\ ~Here \/ ~CanAskForServiceTransactions(Running)
           \/ (Has(Running, "time") /\ proto.fix.link # 0)
  /\ Done(Taken)
  /\ UNCHANGED <<ctx, work, pings, events>>

(* The completions of the time fix ping and of the sync service's question,*)
(* whatever became of the transport meanwhile (hist.late).                 *)
TimeFixSent ==
  /\ Take("sent")
  /\ LET b == Head(mq)
     IN Done([Taken EXCEPT !.p.fix = [link |-> b.l, p |-> b.p],
                           !.h.late = @ \/ b.n # proto.transport])
  /\ UNCHANGED <<ctx, work, pings, events>>

SaltsRequestSent ==
  /\ Take("saltsSent")
  /\ LET b == Head(mq)
     IN Done(IF ~proto.sync THEN Taken ELSE
               [Taken EXCEPT !.p.syncOn = [link |-> b.l, p |-> b.p],
                             !.h.late = @ \/ b.n # proto.transport])
  /\ UNCHANGED <<ctx, work, pings, events>>

TimeFixNotSent ==
  /\ Take("notSent")
  /\ Done(RequestTransportTransaction(Taken))
  /\ UNCHANGED <<ctx, work, pings, events>>

(* transportTransactionsMayHaveFailed *)
TransactionsMayHaveFailed ==
  /\ Take("failed")
  /\ Done(FailedOn(Taken, Head(mq).l))
  /\ UNCHANGED <<ctx, work, pings, events>>

(* A pong, and bad_msg_notification 16, 17, 48 or bad_server_salt.         *)
(* The mutant leaves the flag to the sync service.                         *)
PongIgnored ==
  /\ Take("pong")
  /\ Done(IF Here /\ proto.fix.p = Head(mq).p
            THEN [Taken EXCEPT !.p.fix = None] ELSE Taken)
  /\ UNCHANGED <<ctx, work, pings, events>>

Pong ==
  /\ Take("pong")
  /\ LET s == CompleteTimeSync([Taken EXCEPT !.p.fix = None])
     IN Done(IF Here /\ proto.fix.p = Head(mq).p
               THEN RequestIf(CanAskForServiceTransactions(s), s)
               ELSE Taken)
  /\ UNCHANGED <<ctx, work, pings, events>>

BadMessage ==
  /\ Take("bad")
  /\ cq = <<>>
  /\ LET p == Head(mq).p
         mine == p # 0 /\ proto.fix.p = p
         asked == p # 0 /\ proto.syncOn.p = p    \* messageDeliveryFailed of the service
         i == InitiateTimeSync([Taken EXCEPT !.p.syncOn = IF asked THEN None ELSE @])
         s == IF mine THEN TimeSyncInfoChanged(CompleteTimeSync([Taken EXCEPT !.p.fix = None]))
                      ELSE RequestIf(asked, i)
     IN Done(IF Here THEN RequestIf(CanAskForServiceTransactions(s), s) ELSE Taken)
  /\ UNCHANGED <<ctx, work, pings, events>>

(* bad_msg_notification 32 or 33 *)
BadSequence ==
  /\ Take("seq")
  /\ cq = <<>>
  /\ LET s == InitiateTimeSync(ResetSessionInfo(Taken))
     IN Done(IF Here THEN RequestIf(CanAskForServiceTransactions(s), s) ELSE Taken)
  /\ UNCHANGED <<ctx, work, pings, events>>

(* future_salts: one answer may be enough, or was too slow and more follow *)
FutureSalts ==
  /\ Take("futureSalts")
  /\ cq = <<>>
  /\ LET s == [Taken EXCEPT !.p.syncOn = None]
         done == [CompleteTimeSync(s) EXCEPT !.p.sync = FALSE]
     IN IF Here /\ proto.sync /\ proto.syncOn.p = Head(mq).p
          THEN \/ Done(TimeSyncInfoChanged(done))
               \/ pings < MaxPings /\ Done(RequestTransportTransaction(s))
          ELSE Done(Taken)
  /\ UNCHANGED <<ctx, work, pings, events>>

(* new_session_created: MTProto tells its services by the selector with    *)
(* otherValidMessageIds, but the sync service implements another one, so   *)
(* that neither its question nor the time fix is repeated.                 *)
ServerChangedSession ==
  /\ Take("newSession")
  /\ Done(Taken)
  /\ UNCHANGED <<ctx, work, pings, events>>

(* requestSecureTransportReset closes the connection. *)
Closing(s) ==
  IF s.t.link = 0 THEN s ELSE
    [s EXCEPT !.t.reporting = @ \cup {s.t.link}, !.t.link = 0, !.t.asked = {}]

(* The error -404 on a CDN connection, and handleMissingKey: the context   *)
(* ignores a key that is nil, so it still has the old one, will not make   *)
(* another and will not tell (hist.silent).  The mutant does not set the   *)
(* flag.                                                                   *)
MissingKeyUnflagged ==
  /\ Take("missing")
  /\ Done(IF ~Here THEN Taken
          ELSE Closing([FailedOn(Taken, net.link) EXCEPT !.p.authInfo = FALSE,
                          !.c = Append(@, "auth")]))
  /\ UNCHANGED <<ctx, work, pings, events>>

MissingKey ==
  /\ Take("missing")
  /\ Done(IF ~Here THEN Taken
          ELSE Closing([FailedOn(Taken, net.link) EXCEPT !.p.authInfo = FALSE,
                          !.p.flags = @ \cup {"auth"}, !.c = Append(@, "auth"),
                          !.h.silent = @ \/ ctx.auth]))
  /\ UNCHANGED <<ctx, work, pings, events>>

RunManager ==
  \/ Pass \/ SchemeUpdated \/ AuthInfoUpdated \/ AuthTokenUpdated
  \/ ReadyForServices \/ ReadyForTimeFix \/ ReadyForNothing
  \/ TimeFixSent \/ SaltsRequestSent \/ TimeFixNotSent \/ TransactionsMayHaveFailed
  \/ Pong \/ BadMessage \/ BadSequence \/ FutureSalts \/ ServerChangedSession
  \/ MissingKey

-----------------------------------------------------------------------------
(* The transport and the server. *)

Post(k, l, p) == mq' = Append(mq, Block(k, proto.transport, l, p))

NetUnchanged == UNCHANGED <<proto, ctx, cq, work, pings, hist>>

LinkUp ==
  /\ proto.transport # 0 /\ net.wanted /\ net.link = 0
  /\ net' = [net EXCEPT !.link = net.links + 1, !.links = @ + 1, !.needs = FALSE]
  /\ Post("ready", 0, 0)
  /\ UNCHANGED events /\ NetUnchanged

TransportAsks ==
  /\ net.link # 0 /\ net.needs
  /\ net' = [net EXCEPT !.needs = FALSE]
  /\ Post("ready", 0, 0)
  /\ UNCHANGED events /\ NetUnchanged

LinkDown ==
  /\ net.link # 0
  /\ Event("close")
  /\ net' = [net EXCEPT !.link = 0, !.asked = {}]
  /\ Post("failed", net.link, 0)
  /\ NetUnchanged

(* activeTransactionIds of a transport that setTransport replaced *)
ReportsClosed ==
  /\ \E l \in net.reporting :
       /\ net' = [net EXCEPT !.reporting = @ \ {l}]
       /\ mq' = Append(mq, Block("failed", 0, l, 0))
  /\ UNCHANGED events /\ NetUnchanged

(* A payload is written on the connection there is, fails without one, or  *)
(* gets lost with it.  The transport it was made for may be an old one,    *)
(* which still writes what it was given before its stop.                   *)
HandOver(o) ==
  LET l == IF o.n = proto.transport THEN net.link ELSE o.l
      rest == [net EXCEPT !.out = @ \ {o}]
  IN \/ /\ l # 0
        /\ mq' = Append(mq, Block(o.k, o.n, l, o.p))
        /\ net' = IF l # net.link THEN rest ELSE
                    [rest EXCEPT !.asked = @ \cup
                       {[k |-> IF o.k = "sent" THEN "pong" ELSE "futureSalts",
                         l |-> l, p |-> o.p]}]
     \/ /\ l = 0 \/ l # net.link
        /\ net' = rest
        /\ mq' = IF o.k = "sent" THEN Append(mq, Block("notSent", o.n, 0, 0)) ELSE mq
     \/ /\ l = 0 \/ l # net.link
        /\ net' = rest /\ mq' = mq

TransportWrites ==
  /\ \E o \in net.out : HandOver(o)
  /\ UNCHANGED events /\ NetUnchanged

ServerAnswers ==
  /\ \E a \in net.asked : /\ net' = [net EXCEPT !.asked = @ \ {a}]
                          /\ Post(a.k, 0, a.p)
  /\ UNCHANGED events /\ NetUnchanged

ServerRejects ==
  /\ Event("bad")
  /\ \E a \in net.asked : /\ net' = [net EXCEPT !.asked = @ \ {a}]
                          /\ Post("bad", 0, a.p)
  /\ NetUnchanged

ServerComplains ==
  /\ net.link # 0
  /\ \E k \in {"bad", "seq"} \cup (IF Cdn THEN {"missing"} ELSE {}) : Event(k) /\ Post(k, 0, 0)
  /\ UNCHANGED net /\ NetUnchanged

(* The server has lost the session, and with it questions it did not answer. *)
ServerRestarts ==
  /\ net.link # 0
  /\ Event("newSession")
  /\ \E lost \in SUBSET net.asked : net' = [net EXCEPT !.asked = @ \ lost]
  /\ Post("newSession", 0, 0)
  /\ NetUnchanged

-----------------------------------------------------------------------------
Context == \/ SchemeFound \/ SchemeRequired \/ TokenRequired \/ AuthRequired \/ AuthCompleted
           \/ SaltsStored \/ TokenCompleted

Transport == LinkUp \/ TransportAsks \/ ReportsClosed \/ TransportWrites \/ ServerAnswers

Disturbance == \/ AddWork \/ Pause \/ Stop \/ Session \/ ApiEnvironmentUpdated \/ Resync
               \/ SchemeReplaced \/ TokenLost \/ LinkDown \/ ServerComplains \/ ServerRejects
               \/ ServerRestarts \/ ReadyWithoutSalt

Next == RunManager \/ Context \/ Transport \/ Resume \/ Disturbance

Spec == Init /\ [][Next]_vars

(* The queues run, what the context fetches is found in the end, the       *)
(* transport connects again and the server answers.                        *)
FairSpec ==
  /\ Spec
  /\ WF_vars(RunManager)
  /\ WF_vars(SchemeFound) /\ WF_vars(AuthCompleted) /\ WF_vars(TokenCompleted)
  /\ WF_vars(SchemeRequired \/ AuthRequired \/ TokenRequired \/ SaltsStored)
  /\ WF_vars(LinkUp) /\ WF_vars(TransportAsks) /\ WF_vars(ReportsClosed)
  /\ WF_vars(TransportWrites) /\ WF_vars(ServerAnswers)

-----------------------------------------------------------------------------
Due(k) == \E i \in DOMAIN mq : mq[i].k = k
DueFor(k, l) == \E i \in DOMAIN mq : mq[i].k = k /\ mq[i].l = l
DueHere(k) == \E i \in DOMAIN mq : mq[i].k = k /\ mq[i].n = proto.transport
Asked(f) == \E i \in DOMAIN cq : cq[i] = f
Set(f) == f \in proto.flags

(* A flag that keeps MTProto from sending is always going to be cleared:   *)
(* the context was asked, or fetches what is missing, or its notification  *)
(* is on the way.  Two paths forget a flag: a resetTransport between the   *)
(* arrival of a scheme and its notification, and a missing CDN key.        *)
FlagsAreAnswered ==
  Set("stopped") \/
    /\ Set("scheme") => Asked("scheme") \/ ctx.discovering \/ Due("scheme") \/ hist.missed
    /\ Set("auth") => \/ Asked("auth") \/ ctx.authAction \/ Due("auth") \/ hist.silent
    /\ Set("token") => \/ Asked("token") \/ ctx.tokenAction
                       \/ \E i \in DOMAIN mq : mq[i].k = "token" /\ mq[i].p = 1

(* The state is well formed; after stop there is no transport, and while   *)
(* paused none that connects, though schemes, keys and tokens still arrive *)
(* and reset the transport.                                                *)
QuietWhenTold ==
  /\ TypeOK
  /\ Set("stopped") => proto.transport = 0
  /\ Set("paused") => ~net.wanted /\ net.link = 0

LookIsDue ==
  \/ proto.will
  \/ proto.transport # 0 /\ net.wanted /\ (net.needs \/ net.link = 0)
  \/ DueHere("ready")

Watched(l) == l = net.link \/ DueFor("failed", l) \/ l \in net.reporting \/ hist.late
UnderWay(k) == DueHere(k) \/ \E o \in net.out : o.k = k /\ o.n = proto.transport

(* While MTProto may send, something makes it look at what there is to     *)
(* send: a request, a time fix, a question of the sync service.  A time    *)
(* fix or a question that is out is on a connection whose end would be     *)
(* reported.  A lack of salts found while the sync service is there is the *)
(* one case in which nothing is asked for (hist.unasked).                  *)
NoForgottenWork ==
  ~Set("paused") /\ CanAskForServiceTransactions(Running) =>
    /\ Set("time") =>
         \/ LookIsDue \/ UnderWay("sent") \/ Due("notSent") \/ hist.unasked
         \/ proto.fix.link # 0 /\ Watched(proto.fix.link)
    /\ ~Set("time") /\ work => LookIsDue
    /\ ~Set("time") /\ proto.sync =>
         \/ LookIsDue \/ UnderWay("saltsSent")
         \/ proto.syncOn.link # 0 /\ Watched(proto.syncOn.link)

(* A transaction is never prepared without the key: the transport may be   *)
(* made before the news of the key arrives, but is heard only after it.    *)
KeyInHand ==
  Take("ready") /\ Here /\ CanAskForServiceTransactions(Running) => proto.authInfo

(* What there is to send is sent, unless MTProto is stopped or paused or   *)
(* is on one of the paths named above.                                     *)
WorkIsSent ==
  work ~> \/ ~work \/ Set("stopped") \/ Set("paused")
          \/ hist.missed \/ hist.silent \/ hist.late \/ hist.unasked
=============================================================================
