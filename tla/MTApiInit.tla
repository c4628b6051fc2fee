------------------------------ MODULE MTApiInit ------------------------------
(***************************************************************************)
(* What MTRequestMessageService wraps around a request: initConnection     *)
(* with the api environment, while the hash stored with the key is not     *)
(* that of the environment, and invokeAfterMsg, which makes the server     *)
(* execute a request after the one it depends on.                          *)
(*                                                                         *)
(* Both rest on state that may be stale when it is used: the environment   *)
(* can change between a message and its answer, and the request depended   *)
(* on can lose its message id or be held back.                             *)
(*                                                                         *)
(* How a transaction reaches the wire, and how its completion races with   *)
(* other blocks, is MTRequestService; here a transaction is one step.      *)
(***************************************************************************)
EXTENDS Integers, Sequences, FiniteSets, SequencesExt

CONSTANTS
    Request,     \* requests of the application
    Chain,       \* those whose shouldDependOnRequest accepts each other
    Hash,        \* the values of apiInitializationHash, numbers above 0
    MaxUpdates,  \* how often the environment changes
    MaxFaults,   \* how many disturbances of the environment a run allows
    Faults       \* which ones: reconnect, flood, reject, forget, remove

ASSUME ApiAssumption ==
    /\ IsFiniteSet(Request) /\ Chain \subseteq Request
    /\ Hash \subseteq Nat \ {0} /\ IsFiniteSet(Hash) /\ Hash # {}
    /\ MaxUpdates \in Nat /\ MaxFaults \in Nat
    /\ Faults \subseteq {"reconnect", "flood", "reject", "forget", "remove"}
    /\ Request \cap (1..MaxUpdates) = {}

VARIABLES
    env,      \* _apiEnvironment.apiInitializationHash
    stored,   \* the hash in authKeyAttributes, or 0
    requests, \* _requests
    rc,       \* requestContext of every request, or NoContext
    held,     \* requests whose errorContext says to wait
    nextMsg,  \* the next client message id
    conn,     \* the connection
    up,       \* what is on its way to the server on each connection
    srv,      \* the server: env, messages seen, not executed yet, answers
    ran,      \* the requests it has executed
    updates, faults,
    stale,    \* the two ways in which the stored hash is known to go wrong:
              \* an answer to an initConnection is taken for the current
              \* environment, or the environment comes back to the stored
              \* hash, after the server was sent another one
    loose,    \* requests sent while the one they depend on was held back
    added     \* requests the application has added

vars == <<env, stored, requests, rc, held, nextMsg, conn, up, srv, ran,
          updates, faults, stale, loose, added>>

Noop == 1..MaxUpdates      \* requests made when the environment changes
All  == Request \cup Noop
Conn == 1..(MaxUpdates + MaxFaults + 1)

(* A request in flight: its message, whether it carried initConnection and *)
(* the connection that took it, 0 when that may have failed.               *)
NoContext == [id |-> 0, init |-> FALSE, on |-> 0]

(* The key may have been used with another environment before.             *)
Init ==
    /\ env \in Hash /\ stored \in Hash \cup {0}
    /\ requests = <<>> /\ rc = [r \in All |-> NoContext] /\ held = {}
    /\ nextMsg = 1 /\ conn = 1 /\ up = [c \in Conn |-> <<>>]
    /\ srv = [env |-> stored, seen |-> {}, todo |-> {}, out |-> {}, ended |-> {}]
    /\ ran = {} /\ updates = 0 /\ faults = 0 /\ stale = FALSE /\ loose = {}
    /\ added = {}

(* A message: the request, the hash in its initConnection (0: none) and    *)
(* the message its invokeAfterMsg names (0: none).                         *)
Message == [id : Nat, req : All, init : Hash \cup {0}, after : Nat]
How     == {"ok", "error", "flood", "rejected", "notInited"}
Answer  == [id : Nat, how : How, init : Hash \cup {0}]

TypeOK ==
    /\ env \in Hash /\ stored \in Hash \cup {0}
    /\ requests \in Seq(All) /\ IsInjective(requests)
    /\ rc \in [All -> [id : 0..(nextMsg - 1), init : BOOLEAN, on : Conn \cup {0}]]
    /\ held \subseteq ToSet(requests) /\ conn \in Conn /\ nextMsg \in Nat
    /\ up \in [Conn -> Seq(Message)]
    /\ srv \in [env : Hash \cup {0}, seen : SUBSET Nat, todo : SUBSET Message,
               out : SUBSET Answer, ended : SUBSET [id : Nat, how : How]]
    /\ ran \subseteq All /\ updates \in 0..MaxUpdates /\ faults \in 0..MaxFaults
    /\ stale \in BOOLEAN /\ loose \subseteq Request
    /\ added \subseteq Request /\ ToSet(requests) \subseteq added \cup 1..updates

Fault(k) == k \in Faults /\ faults < MaxFaults /\ faults' = faults + 1

-----------------------------------------------------------------------------
(*                              The client                                 *)

(* The requests a transaction takes up.                                    *)
Sendable == {r \in ToSet(requests) : r \notin held /\ rc[r].on = 0}

Place(s, r) == SelectInSeq(s, LAMBDA q : q = r)

(* The request that r depends on: the nearest before it in _requests.      *)
Earlier(r) ==
    LET i  == Place(requests, r)
        js == {j \in 1..(i - 1) : r \in Chain /\ requests[j] \in Chain}
    IN {requests[j] : j \in {k \in js : \A m \in js : m <= k}}

(* The message ids of a transaction: a request that had one keeps it, the  *)
(* others get the next ones in the order of _requests.                     *)
Fresh == {r \in Sendable : rc[r] = NoContext}

FreshBefore(r) == {p \in Fresh : Place(requests, p) < Place(requests, r)}

NewIds == [r \in Sendable |-> IF r \in Fresh THEN nextMsg + Cardinality(FreshBefore(r))
                              ELSE rc[r].id]

(* The list of the requests in S in the order of _requests.                *)
InOrder(S) ==
    {q \in [1..Cardinality(S) -> S] :
        \A i, j \in DOMAIN q : i < j => Place(requests, q[i]) < Place(requests, q[j])}

(* decorateRequestData and the dynamicDecorator: the message of the        *)
(* earlier request, of this transaction if it had none before.  A request  *)
(* that is held back has none.                                             *)
(* Mutant: no dynamicDecorator.                                            *)
InvokeAfterKnown(r, ids) ==
    LET e == {p \in Earlier(r) : rc[p] # NoContext}
    IN IF e = {} THEN 0 ELSE rc[CHOOSE p \in e : TRUE].id

InvokeAfter(r, ids) ==
    LET e == {p \in Earlier(r) : rc[p] # NoContext \/ p \in Sendable}
    IN IF e = {} THEN 0
       ELSE LET p == CHOOSE p \in e : TRUE
            IN IF rc[p] # NoContext THEN rc[p].id ELSE ids[p]

(* mtProtoMessageTransaction and its completion.                           *)
MessageTransaction ==
    LET ids  == NewIds
        will == env # stored
    IN /\ Sendable # {}
       /\ \E q \in InOrder(Sendable) :
            up' = [up EXCEPT ![conn] = @ \o [i \in DOMAIN q |->
               [id |-> ids[q[i]], req |-> q[i], init |-> IF will THEN env ELSE 0,
                after |-> InvokeAfter(q[i], ids)]]]
       /\ rc' = [r \in All |-> IF r \notin Sendable THEN rc[r]
                               ELSE [id |-> ids[r], init |-> will, on |-> conn]]
       /\ nextMsg' = nextMsg + Cardinality(Fresh)
       /\ loose' = loose \cup {r \in Sendable : Earlier(r) \cap held # {}
                                                /\ InvokeAfter(r, ids) = 0}
       /\ UNCHANGED <<env, stored, requests, held, conn, srv, ran, updates, faults, stale, added>>

AddRequest(r) ==
    /\ r \notin added
    /\ added' = added \cup {r} /\ requests' = Append(requests, r)
    /\ UNCHANGED <<env, stored, rc, held, nextMsg, conn, up, srv, ran, updates,
                   faults, stale, loose>>

Without(r) ==
    /\ requests' = RemoveAt(requests, Place(requests, r))
    /\ rc' = [rc EXCEPT ![r] = NoContext]
    /\ held' = held \ {r}

RemoveRequest(r) ==
    /\ r \in ToSet(requests) /\ Fault("remove") /\ Without(r)
    /\ UNCHANGED <<env, stored, nextMsg, conn, up, srv, ran, updates, stale, loose, added>>

(* transactionsMayHaveFailed, when the connection is replaced.             *)
Reconnected ==
    /\ conn' = conn + 1
    /\ rc' = [r \in All |-> [rc[r] EXCEPT !.on = 0]]

Reconnect ==
    /\ Fault("reconnect") /\ Reconnected
    /\ UNCHANGED <<env, stored, requests, held, nextMsg, up, srv, ran, updates, stale, loose, added>>

(* The server has, or is on the way to, an environment other than h.       *)
OtherIsSent(h) ==
    \/ srv.env \notin {0, h}
    \/ \E c \in Conn : \E m \in ToSet(up[c]) : m.init \notin {0, h}

(* contextApiEnvironmentUpdated and mtProtoApiEnvironmentUpdated: another  *)
(* hash makes a request of its own; a changed proxy or language replaces   *)
(* the transport, other changes do not.                                    *)
(* Mutant: the environment changes without a request.                      *)
EnvironmentQuietly(h, reset) ==
    /\ h # env /\ updates < MaxUpdates
    /\ env' = h /\ updates' = updates + 1
    /\ IF reset THEN Reconnected ELSE UNCHANGED <<conn, rc>>
    /\ UNCHANGED <<stored, requests, held, nextMsg, up, srv, ran, faults, stale, loose, added>>

ApiEnvironmentUpdated(h, reset) ==
    /\ h # env /\ updates < MaxUpdates
    /\ env' = h /\ updates' = updates + 1
    /\ requests' = Append(requests, updates + 1)
    /\ IF reset THEN Reconnected ELSE UNCHANGED <<conn, rc>>
    /\ stale' = (stale \/ (h = stored /\ OtherIsSent(h)))
    /\ UNCHANGED <<stored, held, nextMsg, up, srv, ran, faults, loose, added>>

(* minimalExecuteTime has passed.                                          *)
WaitIsOver(r) ==
    /\ r \in held /\ held' = held \ {r}
    /\ UNCHANGED <<env, stored, requests, rc, nextMsg, conn, up, srv, ran, updates,
                   faults, stale, loose, added>>

(* The hash an answer leaves with the key.  It is that of the environment  *)
(* now, whatever the message carried.                                      *)
(* Mutant: any good answer counts.                                         *)
HashOfAnyAnswer(r, how) ==
    IF how = "ok" THEN env ELSE IF how = "notInited" THEN 0 ELSE stored

StoredHash(r, how) ==
    IF how = "ok" /\ rc[r].init THEN env
    ELSE IF how = "notInited" THEN 0 ELSE stored

(* receivedMessage, messageDeliveryFailed for a rejected one.              *)
ReceivedAnswer(x) ==
    LET rs == {r \in ToSet(requests) : rc[r].id = x.id}
    IN /\ x \in srv.out
       /\ srv' = [srv EXCEPT !.out = @ \ {x}]
       /\ IF rs = {} THEN UNCHANGED <<stored, requests, rc, held, stale>>
          ELSE \E r \in rs :
            /\ stored' = StoredHash(r, x.how)
            /\ stale' = (stale \/ (x.how = "ok" /\ rc[r].init /\ OtherIsSent(env)))
            /\ \/ /\ x.how \in {"ok", "error", "notInited"} /\ Without(r)
               \/ /\ x.how \in {"flood", "rejected"}
                  /\ rc' = [rc EXCEPT ![r] = NoContext]
                  /\ held' = IF x.how = "flood" THEN held \cup {r} ELSE held
                  /\ UNCHANGED requests
       /\ UNCHANGED <<env, nextMsg, conn, up, ran, updates, faults, loose, added>>

-----------------------------------------------------------------------------
(* The server.  A message it has seen before is not executed again, and    *)
(* of a connection that was replaced nothing arrives once the next one is  *)
(* in use.                                                                 *)

Ended(m, how) == [id |-> m.id, how |-> how]

Receive(c) ==
    /\ up[c] # <<>> /\ \A d \in 1..(c - 1) : up[d] = <<>>
    /\ up' = [up EXCEPT ![c] = Tail(@)]
    /\ LET m == Head(up[c])
       IN \/ m.id \in srv.seen /\ UNCHANGED <<srv, faults>>
          \/ /\ m.id \notin srv.seen /\ Fault("reject")
             /\ srv' = [srv EXCEPT
                   !.seen = @ \cup {m.id}, !.ended = @ \cup {Ended(m, "rejected")},
                   !.out = @ \cup {[id |-> m.id, how |-> "rejected", init |-> 0]}]
          \/ /\ m.id \notin srv.seen /\ m.init = 0 /\ srv.env = 0
             /\ srv' = [srv EXCEPT
                   !.seen = @ \cup {m.id}, !.ended = @ \cup {Ended(m, "notInited")},
                   !.out = @ \cup {[id |-> m.id, how |-> "notInited", init |-> 0]}]
             /\ UNCHANGED faults
          \/ /\ m.id \notin srv.seen /\ ~(m.init = 0 /\ srv.env = 0)
             /\ srv' = [srv EXCEPT !.seen = @ \cup {m.id}, !.todo = @ \cup {m},
                                   !.env = IF m.init # 0 THEN m.init ELSE @]
             /\ UNCHANGED faults
    /\ UNCHANGED <<env, stored, requests, rc, held, nextMsg, conn, ran, updates, stale, loose, added>>

(* What a connection that was replaced still holds may be lost.            *)
LoseRest(c) ==
    /\ c # conn /\ up[c] # <<>>
    /\ up' = [up EXCEPT ![c] = <<>>]
    /\ UNCHANGED <<env, stored, requests, rc, held, nextMsg, conn, srv, ran, updates,
                   faults, stale, loose, added>>

(* A message behind invokeAfterMsg waits for the one named, and fails with *)
(* it, or when the server does not have it.                                *)
After(m, hows) ==
    \E x \in srv.ended : x.id = m.after /\ x.how \in hows

Execute(m) ==
    /\ m \in srv.todo
    /\ \/ /\ m.after = 0 \/ After(m, {"ok"})
          /\ \E how \in {"ok", "flood"} :
               /\ IF how = "ok" THEN ran' = ran \cup {m.req} /\ UNCHANGED faults
                  ELSE m.req \in Request /\ Fault("flood") /\ UNCHANGED ran
               /\ srv' = [srv EXCEPT !.todo = @ \ {m}, !.ended = @ \cup {Ended(m, how)},
                     !.out = @ \cup {[id |-> m.id, how |-> how, init |-> m.init]}]
       \/ /\ m.after # 0
          /\ After(m, {"error", "flood", "rejected", "notInited"}) \/ m.after \notin srv.seen
          /\ srv' = [srv EXCEPT !.todo = @ \ {m}, !.ended = @ \cup {Ended(m, "error")},
                !.out = @ \cup {[id |-> m.id, how |-> "error", init |-> m.init]}]
          /\ UNCHANGED <<ran, faults>>
    /\ UNCHANGED <<env, stored, requests, rc, held, nextMsg, conn, up, updates, stale, loose, added>>

(* The server forgets what the connection was initialized with.            *)
Forget ==
    /\ srv.env # 0 /\ Fault("forget")
    /\ srv' = [srv EXCEPT !.env = 0]
    /\ UNCHANGED <<env, stored, requests, rc, held, nextMsg, conn, up, ran, updates,
                   stale, loose, added>>

-----------------------------------------------------------------------------
Server == (\E c \in Conn : Receive(c)) \/ \E m \in srv.todo : Execute(m)
Answers == \E x \in srv.out : ReceivedAnswer(x)
Timer   == \E r \in Request : WaitIsOver(r)

Next ==
    \/ \E r \in Request : AddRequest(r) \/ RemoveRequest(r)
    \/ \E h \in Hash, reset \in BOOLEAN : ApiEnvironmentUpdated(h, reset)
    \/ MessageTransaction \/ Reconnect \/ Timer \/ Answers
    \/ Server \/ Forget \/ \E c \in Conn : LoseRest(c)

Spec == Init /\ [][Next]_vars

(* The manager queue and its timer run, and the server works through what  *)
(* it receives.                                                            *)
FairSpec ==
    /\ Spec
    /\ WF_vars(MessageTransaction) /\ WF_vars(Timer) /\ WF_vars(Answers)
    /\ WF_vars(Server)

-----------------------------------------------------------------------------
(* The state is well formed, and while the hash stored with the key equals *)
(* the environment's, so that decorateRequestData leaves initConnection    *)
(* out, the server neither has another environment nor is about to get     *)
(* one, except in the two cases that stale records.                        *)
StoredIsTold ==
    /\ TypeOK
    /\ stored = env => ~OtherIsSent(env) \/ stale

(* The server learns of a new environment without waiting for the          *)
(* application's next request, unless it forgets that it was told.         *)
EnvironmentArrives ==
    \A h \in Hash : updates > 0 /\ env = h ~>
        srv.env = h \/ env # h \/ stale \/ (srv.env = 0 /\ faults > 0)

(* Requests that depend on each other are executed in the order they were  *)
(* added, unless one was sent while the other was held back               *)
(* (decorateRequestData names no message then) or was given up.            *)
OrderKept ==
    [][\A r \in Chain \cap ToSet(requests) : r \in ran' \ ran =>
         \A p \in Chain \cap ToSet(requests) :
            Place(requests, p) < Place(requests, r) => p \in ran \/ loose # {}]_vars
=============================================================================
