-------------------------- MODULE MTProtoStateProofs --------------------------
(***************************************************************************)
(* The safety properties of MTProtoState for every bound on disturbances   *)
(* and pings, and every set of roles.                                      *)
(*                                                                         *)
(* A block of the manager queue is a composition of methods, so that the   *)
(* invariant is stated of the record s that the methods take and return    *)
(* (Running at the start of a block, its value at the end), and each       *)
(* method is shown to keep it: Shape is what every method keeps, Looks     *)
(* what only a whole block does.                                           *)
(***************************************************************************)
EXTENDS MTProtoState, QueueTheorems

(* The values of the variables and of the record. *)
Pings == [link : Nat, p : 0..MaxPings]
Protos ==
  [role : Roles, flags : SUBSET Flags, scheme : 0..2, authInfo : BOOLEAN, transport : Nat,
   made : Nat, will : BOOLEAN, fix : Pings, sync : BOOLEAN, syncOn : Pings]
Payloads == [k : {"sent", "saltsSent"}, n : Nat, l : Nat, p : 1..MaxPings]
Questions == [k : {"pong", "futureSalts"}, l : Nat, p : 1..MaxPings]
Nets ==
  [link : Nat, links : Nat, wanted : BOOLEAN, needs : BOOLEAN, out : SUBSET Payloads,
   asked : SUBSET Questions, reporting : SUBSET Nat]
Contexts ==
  [scheme : 0..2, auth : BOOLEAN, token : BOOLEAN, discovering : BOOLEAN,
   authAction : BOOLEAN, tokenAction : BOOLEAN]
Blocks == [k : Kinds, n : Nat, l : Nat, p : 0..(MaxPings + 2)]
Demands == {"scheme", "auth", "token", "salts"}
Histories == [missed : BOOLEAN, silent : BOOLEAN, late : BOOLEAN, unasked : BOOLEAN]
States == [p : Protos, t : Nets, m : Seq(Blocks), c : Seq(Demands), h : Histories]

(* What waits on a queue. *)
Waiting(q) == {q[i] : i \in 1..Len(q)}

(* Every question to a transport n of q comes after the news of a key; and *)
(* every report of a message sent there is about a link in ls, or the      *)
(* report that the link is gone comes after it.                            *)
KeyFirst(q, n) ==
  \A i \in 1..Len(q) : q[i].k = "ready" /\ q[i].n = n =>
    \E j \in 1..Len(q) : j < i /\ q[j].k = "auth"
Sends == {"sent", "saltsSent"}
Followed(q, n, ls) ==
  \A i \in 1..Len(q) : q[i].k \in Sends /\ q[i].n = n =>
    q[i].l \in ls \/ \E j \in 1..Len(q) : j > i /\ q[j].k = "failed" /\ q[j].l = q[i].l

(* The links whose end will be reported to s. *)
Links(s) == {s.t.link} \cup s.t.reporting

(* What is waiting makes sense. *)
News == {"ready", "sent", "saltsSent"}
Fits(b, s) ==
  /\ b.k = "scheme" => b.p # 0
  /\ b.k \in News => /\ b.n # 0 /\ b.n <= s.p.made
                     /\ b.n = s.p.transport => s.t.wanted
  /\ b.k \in Sends => b.l # 0 /\ b.p <= MaxPings

(* The links and transports of s: the link is that of the transport, what  *)
(* is sent was made for a transport that was connected.                    *)
Net(s) ==
  /\ s.t.link <= s.t.links /\ s.p.transport <= s.p.made
  /\ s.t.link # 0 => s.p.transport # 0 /\ s.t.wanted
  /\ \A l \in s.t.reporting : l # 0 /\ l <= s.t.links
  /\ \A a \in s.t.asked : a.l # 0 /\ a.l <= s.t.links
  /\ \A o \in s.t.out : /\ o.l <= s.t.links /\ o.n # 0 /\ o.n <= s.p.made
                        /\ o.n = s.p.transport => s.t.wanted
  /\ \A b \in Waiting(s.m) : Fits(b, s)

(* stop and pause are kept. *)
Quiet(s) ==
  /\ Has(s, "stopped") => s.p.transport = 0
  /\ Has(s, "paused") => ~s.t.wanted /\ s.t.link = 0

(* A flag will be cleared: what it waits for is not there and was asked    *)
(* for, or its notification waits.                                         *)
Answered(s, x) ==
  ~Has(s, "stopped") =>
    /\ Has(s, "scheme") =>
         \/ s.h.missed
         \/ /\ s.p.scheme = 0
            /\ \/ \E b \in Waiting(s.m) : b.k = "scheme"
               \/ x.scheme = 0 /\ (x.discovering \/ "scheme" \in Waiting(s.c))
    /\ Has(s, "auth") =>
         \/ s.h.silent \/ \E b \in Waiting(s.m) : b.k = "auth"
         \/ ~x.auth /\ (x.authAction \/ "auth" \in Waiting(s.c))
    /\ Has(s, "token") =>
         \/ "token" \in Waiting(s.c) \/ x.tokenAction
         \/ \E b \in Waiting(s.m) : b.k = "token" /\ b.p = 1

(* A transport needs a key.  MTProto has it, or waits for it, or will hear *)
(* of it before the transport asks for something to send.                  *)
Keys(s, x) ==
  /\ s.p.transport # 0 => x.auth
  /\ ~s.p.authInfo /\ ~Has(s, "auth") =>
       /\ x.auth => \E b \in Waiting(s.m) : b.k = "auth"
       /\ KeyFirst(s.m, s.p.transport)

(* The end of the link that a message was sent on will be reported. *)
Noticed(s, l) ==
  l \in Links(s) \/ s.h.late \/ \E b \in Waiting(s.m) : b.k = "failed" /\ b.l = l
Guarded(s) ==
  ~Has(s, "stopped") =>
    /\ s.p.fix.link # 0 => Noticed(s, s.p.fix.link)
    /\ s.p.syncOn.link # 0 => Noticed(s, s.p.syncOn.link)
    /\ Followed(s.m, s.p.transport, Links(s))

(* What every method keeps; pause and stop set their flag first. *)
Core(s, x) ==
  s \in States /\ x \in Contexts /\ Net(s) /\ Answered(s, x) /\ Keys(s, x) /\ Guarded(s)
Shape(s, x) == Core(s, x) /\ Quiet(s)

(* Something makes MTProto look at what there is to send, a time fix and a *)
(* question of the sync service included, or has been sent for it.         *)
Looking(s) ==
  \/ s.p.will
  \/ s.p.transport # 0 /\ s.t.wanted /\ (s.t.needs \/ s.t.link = 0)
  \/ \E b \in Waiting(s.m) : b.k = "ready" /\ b.n = s.p.transport
Sending(s, k) ==
  \/ \E b \in Waiting(s.m) : b.k = k /\ b.n = s.p.transport
  \/ \E o \in s.t.out : o.k = k /\ o.n = s.p.transport
TimeDue(s) ==
  \/ Looking(s) \/ Sending(s, "sent") \/ \E b \in Waiting(s.m) : b.k = "notSent"
  \/ s.h.unasked \/ s.p.fix.link # 0
SyncDue(s) == Looking(s) \/ Sending(s, "saltsSent") \/ s.p.syncOn.link # 0
Looks(s, w) ==
  ~Has(s, "paused") /\ CanAskForServiceTransactions(s) =>
    /\ Has(s, "time") => TimeDue(s)
    /\ ~Has(s, "time") /\ w => Looking(s)
    /\ ~Has(s, "time") /\ s.p.sync => SyncDue(s)

IndInv ==
  /\ Shape(Running, ctx) /\ Looks(Running, work)
  /\ work \in BOOLEAN /\ pings \in 0..MaxPings /\ events \in 0..MaxEvents

-----------------------------------------------------------------------------
(* A block is posted, or taken. *)
LEMMA Posted ==
  ASSUME NEW S, NEW q \in Seq(S), NEW b \in S
  PROVE  Append(q, b) \in Seq(S) /\ Waiting(Append(q, b)) = Waiting(q) \cup {b}
  <1> DEFINE r == Append(q, b)
  <1>1. r \in Seq(S) /\ Added(r, q, b)
    BY AppendAdds
  <1> HIDE DEF r
  <1>2. ASSUME NEW y PROVE y \in Waiting(r) <=> y \in Waiting(q) \/ y = b
    BY <1>1 DEF Waiting, Added
  <1> QED
    BY <1>1, <1>2 DEF r

(* The first one is taken. *)
LEMMA TakenFirst ==
  ASSUME NEW S, NEW q \in Seq(S), q # <<>>
  PROVE  /\ Tail(q) \in Seq(S) /\ Head(q) \in S
         /\ Waiting(q) = Waiting(Tail(q)) \cup {Head(q)}
  <1> DEFINE r == Tail(q)
  <1>1. r \in Seq(S) /\ Dropped(r, q) /\ Head(q) = q[1] /\ 1 \in 1..Len(q)
    BY TailDrops
  <1>2. q[1] \in S
    BY <1>1
  <1> HIDE DEF r
  <1>3. ASSUME NEW y \in Waiting(r) PROVE y \in Waiting(q)
    BY <1>1 DEF Waiting, Dropped
  <1>4. ASSUME NEW y \in Waiting(q), y # q[1] PROVE y \in Waiting(r)
    <2>1. PICK i \in 1..Len(q) : y = q[i]
      BY DEF Waiting
    <2>2. i - 1 \in 1..Len(r) /\ r[i - 1] = y
      BY <1>1, <1>4, <2>1 DEF Dropped
    <2> QED
      BY <2>2 DEF Waiting
  <1>5. q[1] \in Waiting(q)
    BY <1>1 DEF Waiting
  <1>6. Waiting(q) = Waiting(r) \cup {q[1]}
    BY <1>3, <1>4, <1>5
  <1> QED
    BY <1>1, <1>2, <1>6 DEF r

(* What waits is of the kind that the queue holds. *)
LEMMA WaitingIn ==
  ASSUME NEW S, NEW q \in Seq(S)
  PROVE  \A b \in Waiting(q) : b \in S
  <1>1. ASSUME NEW i \in 1..Len(q) PROVE q[i] \in S
    OBVIOUS
  <1> QED
    BY <1>1 DEF Waiting

(* The key still comes first. *)
LEMMA KeyPosted ==
  ASSUME NEW q \in Seq(Blocks), NEW b \in Blocks, NEW n, KeyFirst(q, n),
         b.k = "ready" /\ b.n = n => \E a \in Waiting(q) : a.k = "auth"
  PROVE  KeyFirst(Append(q, b), n)
  <1> DEFINE r == Append(q, b)
  <1>1. Added(r, q, b)
    BY AppendAdds
  <1> HIDE DEF r
  <1>2. ASSUME NEW i \in 1..Len(r), r[i].k = "ready", r[i].n = n
        PROVE  \E j \in 1..Len(r) : j < i /\ r[j].k = "auth"
    <2>1. CASE i \in 1..Len(q)
      <3>1. PICK j \in 1..Len(q) : j < i /\ q[j].k = "auth"
        BY <1>1, <1>2, <2>1 DEF Added, KeyFirst
      <3> QED
        BY <1>1, <3>1 DEF Added
    <2>2. CASE i \notin 1..Len(q)
      <3>1. i = Len(r) /\ r[i] = b
        BY <1>1, <2>2 DEF Added
      <3>2. PICK j \in 1..Len(q) : q[j].k = "auth"
        BY <1>2, <3>1 DEF Waiting
      <3>3. j \in 1..Len(r) /\ r[j].k = "auth" /\ j < i
        BY <1>1, <3>1, <3>2 DEF Added
      <3> QED
        BY <3>3
    <2> QED
      BY <2>1, <2>2
  <1>3. KeyFirst(r, n)
    BY <1>2 DEF KeyFirst
  <1> QED
    BY <1>3 DEF r

(* Taking a block keeps the order. *)
LEMMA KeyTaken ==
  ASSUME NEW q \in Seq(Blocks), q # <<>>, NEW n, KeyFirst(q, n)
  PROVE  /\ ~(Head(q).k = "ready" /\ Head(q).n = n)
         /\ Head(q).k # "auth" => KeyFirst(Tail(q), n)
  <1> DEFINE r == Tail(q)
  <1>1. Dropped(r, q) /\ Head(q) = q[1] /\ 1 \in 1..Len(q)
    BY TailDrops
  <1> HIDE DEF r
  <1>2. ~(q[1].k = "ready" /\ q[1].n = n)
    BY <1>1 DEF KeyFirst
  <1>3. ASSUME q[1].k # "auth", NEW i \in 1..Len(r), r[i].k = "ready", r[i].n = n
        PROVE  \E j \in 1..Len(r) : j < i /\ r[j].k = "auth"
    <2>1. i + 1 \in 1..Len(q) /\ r[i] = q[i + 1]
      BY <1>1 DEF Dropped
    <2>2. PICK j \in 1..Len(q) : j < i + 1 /\ q[j].k = "auth"
      BY <1>3, <2>1 DEF KeyFirst
    <2>3. j # 1
      BY <1>3, <2>2
    <2>4. j - 1 \in 1..Len(r) /\ r[j - 1] = q[j] /\ j - 1 < i
      BY <1>1, <2>2, <2>3 DEF Dropped
    <2> QED
      BY <2>2, <2>4
  <1>4. q[1].k # "auth" => KeyFirst(r, n)
    BY <1>3 DEF KeyFirst
  <1> QED
    BY <1>1, <1>2, <1>4 DEF r

(* Nobody asks. *)
LEMMA KeyNone ==
  ASSUME NEW q, NEW n, \A b \in Waiting(q) : b.k = "ready" => b.n # n
  PROVE  KeyFirst(q, n)
  BY DEF KeyFirst, Waiting

(* Messages are still followed by the end of their link. *)
LEMMA FollowedPosted ==
  ASSUME NEW q \in Seq(Blocks), NEW b \in Blocks, NEW n, NEW ls, NEW ms, Followed(q, n, ls),
         b.k \in Sends /\ b.n = n => b.l \in ms,
         \A l \in ls : l \in ms \/ (b.k = "failed" /\ b.l = l)
  PROVE  Followed(Append(q, b), n, ms)
  <1> DEFINE r == Append(q, b)
  <1>1. Added(r, q, b)
    BY AppendAdds
  <1> HIDE DEF r
  <1>2. ASSUME NEW i \in 1..Len(r), r[i].k \in Sends, r[i].n = n
        PROVE  r[i].l \in ms \/ \E j \in 1..Len(r) : j > i /\ r[j].k = "failed" /\ r[j].l = r[i].l
    <2>1. CASE i \in 1..Len(q)
      <3>1. r[i] = q[i] /\ Len(r) \in 1..Len(r) /\ Len(r) > i /\ r[Len(r)] = b
        BY <1>1, <2>1 DEF Added
      <3>2. q[i].l \in ls \/ \E j \in 1..Len(q) : j > i /\ q[j].k = "failed" /\ q[j].l = q[i].l
        BY <1>2, <2>1, <3>1 DEF Followed
      <3>3. CASE q[i].l \in ls
        BY <3>1, <3>3
      <3>4. CASE \E j \in 1..Len(q) : j > i /\ q[j].k = "failed" /\ q[j].l = q[i].l
        BY <1>1, <3>1, <3>4 DEF Added
      <3> QED
        BY <3>2, <3>3, <3>4
    <2>2. CASE i \notin 1..Len(q)
      BY <1>1, <1>2, <2>2 DEF Added
    <2> QED
      BY <2>1, <2>2
  <1>3. Followed(r, n, ms)
    BY <1>2 DEF Followed
  <1> QED
    BY <1>3 DEF r

(* What is taken off the queue was followed too. *)
LEMMA FollowedTaken ==
  ASSUME NEW q \in Seq(Blocks), q # <<>>, NEW n, NEW ls, Followed(q, n, ls)
  PROVE  /\ Followed(Tail(q), n, ls)
         /\ Head(q).k \in Sends /\ Head(q).n = n =>
              \/ Head(q).l \in ls
              \/ \E b \in Waiting(Tail(q)) : b.k = "failed" /\ b.l = Head(q).l
  <1> DEFINE r == Tail(q)
  <1>1. Dropped(r, q) /\ Head(q) = q[1] /\ 1 \in 1..Len(q)
    BY TailDrops
  <1> HIDE DEF r
  <1>2. ASSUME NEW i \in 1..Len(q), q[i].k \in Sends, q[i].n = n, q[i].l \notin ls
        PROVE  \E j \in 1..Len(r) : j > i - 1 /\ r[j].k = "failed" /\ r[j].l = q[i].l
    <2>1. PICK j \in 1..Len(q) : j > i /\ q[j].k = "failed" /\ q[j].l = q[i].l
      BY <1>2 DEF Followed
    <2>2. j - 1 \in 1..Len(r) /\ r[j - 1] = q[j] /\ j - 1 > i - 1
      BY <1>1, <2>1 DEF Dropped
    <2> QED
      BY <2>1, <2>2
  <1>3. ASSUME NEW i \in 1..Len(r), r[i].k \in Sends, r[i].n = n
        PROVE  r[i].l \in ls \/ \E j \in 1..Len(r) : j > i /\ r[j].k = "failed" /\ r[j].l = r[i].l
    <2>1. i + 1 \in 1..Len(q) /\ r[i] = q[i + 1] /\ (i + 1) - 1 = i
      BY <1>1 DEF Dropped
    <2> QED
      BY <1>2, <1>3, <2>1
  <1>4. Followed(r, n, ls)
    BY <1>3 DEF Followed
  <1>5. q[1].k \in Sends /\ q[1].n = n =>
          q[1].l \in ls \/ \E b \in Waiting(r) : b.k = "failed" /\ b.l = q[1].l
    BY <1>1, <1>2 DEF Waiting
  <1> QED
    BY <1>1, <1>4, <1>5 DEF r

(* Nothing was sent. *)
LEMMA FollowedNone ==
  ASSUME NEW q, NEW n, NEW ls, \A b \in Waiting(q) : b.k \in Sends => b.n # n
  PROVE  Followed(q, n, ls)
  BY DEF Followed, Waiting

(* More links are reported. *)
LEMMA FollowedMore ==
  ASSUME NEW q, NEW n, NEW ls, NEW ms, Followed(q, n, ls), ls \subseteq ms
  PROVE  Followed(q, n, ms)
  BY DEF Followed

(* m is q, or q with a block that no transport sent. *)
Grown(m, q) ==
  m = q \/ \E b \in Blocks : b.k \notin News /\ (b.k = "scheme" => b.p # 0) /\ m = Append(q, b)

(* Nothing that the transport said is changed by it. *)
LEMMA GrownFacts ==
  ASSUME NEW q \in Seq(Blocks), NEW m, Grown(m, q)
  PROVE  /\ m \in Seq(Blocks) /\ Waiting(q) \subseteq Waiting(m)
         /\ \A b \in Waiting(m) :
              b \in Waiting(q) \/ (b.k \notin News /\ (b.k = "scheme" => b.p # 0))
         /\ \A n : KeyFirst(q, n) => KeyFirst(m, n)
         /\ \A n, ls : Followed(q, n, ls) => Followed(m, n, ls)
  <1>1. CASE m = q
    BY <1>1
  <1>2. CASE m # q
    <2>1. PICK b \in Blocks : b.k \notin News /\ (b.k = "scheme" => b.p # 0) /\ m = Append(q, b)
      BY <1>2 DEF Grown
    <2>2. m \in Seq(Blocks) /\ Waiting(m) = Waiting(q) \cup {b}
      BY <2>1, Posted
    <2>3. b.k # "ready" /\ b.k \notin Sends
      BY <2>1 DEF News, Sends
    <2>4. ASSUME NEW n, KeyFirst(q, n) PROVE KeyFirst(m, n)
      BY <2>1, <2>3, <2>4, KeyPosted
    <2>5. ASSUME NEW n, NEW ls, Followed(q, n, ls) PROVE Followed(m, n, ls)
      BY <2>1, <2>3, <2>5, FollowedPosted
    <2> QED
      BY <2>1, <2>2, <2>4, <2>5
  <1> QED
    BY <1>1, <1>2

(* The flags but for "time". *)
SameFlags(r, s) ==
  \A f \in {"scheme", "auth", "token", "paused", "stopped"} : f \in r.p.flags <=> f \in s.p.flags

(* What a method may always do: set or clear the time flag, forget a time  *)
(* fix or a question of the sync service, post a pass, ask the context.    *)
LEMMA Alike ==
  ASSUME NEW s, NEW x, Core(s, x), NEW r \in States, r.t = s.t, SameFlags(r, s),
         s.h.missed => r.h.missed, s.h.silent => r.h.silent, s.h.late => r.h.late,
         r.p.scheme = s.p.scheme, r.p.authInfo = s.p.authInfo, r.p.transport = s.p.transport,
         r.p.made = s.p.made,
         r.p.fix.link \in {0, s.p.fix.link}, r.p.syncOn.link \in {0, s.p.syncOn.link},
         Waiting(s.c) \subseteq Waiting(r.c), Grown(r.m, s.m)
  PROVE  Core(r, x)
  <1>1. /\ Waiting(s.m) \subseteq Waiting(r.m)
        /\ \A b \in Waiting(r.m) :
             b \in Waiting(s.m) \/ (b.k \notin News /\ (b.k = "scheme" => b.p # 0))
        /\ \A n : KeyFirst(s.m, n) => KeyFirst(r.m, n)
        /\ \A n, ls : Followed(s.m, n, ls) => Followed(r.m, n, ls)
    <2>1. s.m \in Seq(Blocks)
      BY DEF Core, States
    <2> QED
      BY <2>1, GrownFacts
  <1>2. \A f \in {"scheme", "auth", "token", "paused", "stopped"} : Has(r, f) <=> Has(s, f)
    BY DEF SameFlags, Has
  <1>3. Links(r) = Links(s)
    BY DEF Links
  <1>4. Net(r)
    <2>1. ASSUME NEW b \in Waiting(r.m) PROVE Fits(b, r)
      <3>1. CASE b \in Waiting(s.m)
        BY <3>1 DEF Core, Net, Fits
      <3>2. CASE b.k \notin News /\ (b.k = "scheme" => b.p # 0)
        BY <3>2 DEF Fits, News, Sends
      <3> QED
        BY <1>1, <3>1, <3>2
    <2> QED
      BY <2>1 DEF Core, Net
  <1>6. Answered(r, x)
    BY <1>1, <1>2 DEF Core, Answered
  <1>7. Keys(r, x)
    BY <1>1, <1>2 DEF Core, Keys
  <1>8. Guarded(r)
    BY <1>1, <1>2, <1>3 DEF Core, Guarded, Noticed
  <1> QED
    BY <1>4, <1>6, <1>7, <1>8 DEF Core

(* r is s but for a transaction that may have been requested. *)
Same(r, s) ==
  /\ r.t = s.t /\ r.h = s.h /\ r.c = s.c /\ r.p.role = s.p.role /\ r.p.flags = s.p.flags
  /\ r.p.scheme = s.p.scheme /\ r.p.authInfo = s.p.authInfo /\ r.p.transport = s.p.transport
  /\ r.p.made = s.p.made /\ r.p.fix = s.p.fix /\ r.p.sync = s.p.sync /\ r.p.syncOn = s.p.syncOn
  /\ s.p.will => r.p.will
  /\ Waiting(s.m) \subseteq Waiting(r.m)
  /\ \A b \in Waiting(r.m) : b.k \in News => b \in Waiting(s.m)

(* requestTransportTransaction *)
LEMMA Requested ==
  ASSUME NEW s, NEW x, Core(s, x)
  PROVE  LET r == RequestTransportTransaction(s) IN Core(r, x) /\ r.p.will /\ Same(r, s)
  <1> DEFINE r == RequestTransportTransaction(s)
             b == Block("pass", 0, 0, 0)
             p == [s.p EXCEPT !.will = TRUE]
  <1>1. s \in States
    BY DEF Core
  <1>2. CASE s.p.will
    <2>1. r = s
      BY <1>2 DEF RequestTransportTransaction
    <2> HIDE DEF r
    <2>2. Same(s, s)
      BY DEF Same
    <2> QED
      BY <1>2, <2>1, <2>2 DEF r
  <1>3. CASE ~s.p.will
    <2>1. b \in Blocks /\ b.k \notin News /\ b.k # "scheme"
      BY StateAssumption DEF Block, Blocks, Kinds, News
    <2> HIDE DEF b
    <2>2. Append(s.m, b) \in Seq(Blocks) /\ Waiting(Append(s.m, b)) = Waiting(s.m) \cup {b}
      BY <1>1, <2>1, Posted DEF States
    <2>3. /\ r.p = p /\ r.t = s.t /\ r.m = Append(s.m, b) /\ r.c = s.c /\ r.h = s.h
          /\ r = [p |-> r.p, t |-> r.t, m |-> r.m, c |-> r.c, h |-> r.h]
      BY <1>1, <1>3 DEF RequestTransportTransaction, States, Protos, b
    <2>4. /\ p \in Protos /\ p.flags = s.p.flags /\ p.scheme = s.p.scheme /\ p.role = s.p.role
          /\ p.authInfo = s.p.authInfo /\ p.transport = s.p.transport /\ p.made = s.p.made
          /\ p.fix = s.p.fix /\ p.syncOn = s.p.syncOn /\ p.sync = s.p.sync /\ p.will
      BY <1>1 DEF States, Protos
    <2> HIDE DEF p, r
    <2>5. r \in States
      BY <1>1, <2>2, <2>3, <2>4 DEF States
    <2>6. SameFlags(r, s) /\ Grown(r.m, s.m)
      BY <2>1, <2>3, <2>4 DEF SameFlags, Grown
    <2>7. Core(r, x)
      BY <2>3, <2>4, <2>5, <2>6, Alike
    <2>8. Same(r, s)
      BY <2>1, <2>2, <2>3, <2>4 DEF Same
    <2> QED
      BY <2>3, <2>4, <2>7, <2>8 DEF r
  <1> QED
    BY <1>2, <1>3

(* The time fix and the question of the sync service are given up, in part *)
(* or both.                                                                *)
GiveUp(s, fix, on) == [s EXCEPT !.p.fix = fix, !.p.syncOn = on]

(* Nothing else changes. *)
Given(r, s, fix, on) ==
  /\ r.p.fix = fix /\ r.p.syncOn = on
  /\ r.t = s.t /\ r.h = s.h /\ r.c = s.c /\ r.m = s.m
  /\ r.p.role = s.p.role /\ r.p.flags = s.p.flags /\ r.p.scheme = s.p.scheme
  /\ r.p.authInfo = s.p.authInfo /\ r.p.transport = s.p.transport
  /\ r.p.made = s.p.made /\ r.p.will = s.p.will /\ r.p.sync = s.p.sync

(* Which keeps the rest. *)
LEMMA GivenUp ==
  ASSUME NEW s, NEW x, Core(s, x), NEW fix \in Pings, NEW on \in Pings,
         fix.link \in {0, s.p.fix.link}, on.link \in {0, s.p.syncOn.link},
         NEW r, r = GiveUp(s, fix, on)
  PROVE  Core(r, x) /\ Given(r, s, fix, on)
  <1>1. s \in States
    BY DEF Core
  <1>2. r \in States
    BY <1>1 DEF GiveUp, States, Protos
  <1>3. r.t = s.t /\ r.m = s.m /\ r.c = s.c /\ r.h = s.h
    BY <1>1 DEF GiveUp, States
  <1>4. /\ r.p.flags = s.p.flags /\ r.p.scheme = s.p.scheme /\ r.p.role = s.p.role
        /\ r.p.authInfo = s.p.authInfo /\ r.p.transport = s.p.transport /\ r.p.made = s.p.made
        /\ r.p.fix = fix /\ r.p.syncOn = on /\ r.p.sync = s.p.sync /\ r.p.will = s.p.will
    BY <1>1 DEF GiveUp, States, Protos
  <1>5. SameFlags(r, s) /\ Grown(r.m, s.m)
    BY <1>3, <1>4 DEF SameFlags, Grown
  <1>6. Core(r, x)
    BY <1>2, <1>3, <1>4, <1>5, Alike
  <1> QED
    BY <1>3, <1>4, <1>6 DEF Given

(* No ping is a value of a time fix. *)
LEMMA NoneIsPing == None \in Pings /\ None.link = 0 /\ None.p = 0
  BY StateAssumption DEF None, Pings

(* allTransactionsMayHaveFailed, and the same for one connection: what r   *)
(* leaves of s.                                                            *)
Kept(r, s) ==
  /\ r.t = s.t /\ r.h = s.h /\ r.c = s.c
  /\ r.p.role = s.p.role /\ r.p.flags = s.p.flags /\ r.p.scheme = s.p.scheme
  /\ r.p.authInfo = s.p.authInfo /\ r.p.transport = s.p.transport
  /\ r.p.made = s.p.made /\ r.p.sync = s.p.sync
  /\ s.p.will => r.p.will
  /\ Waiting(s.m) \subseteq Waiting(r.m)
  /\ \A b \in Waiting(r.m) : b.k \in News => b \in Waiting(s.m)

(* What is given up is asked for again, or MTProto is paused. *)
LEMMA GivenUpAsked ==
  ASSUME NEW s, NEW x, Core(s, x), NEW fix \in Pings, NEW on \in Pings,
         fix.link \in {0, s.p.fix.link}, on.link \in {0, s.p.syncOn.link},
         NEW u, u = GiveUp(s, fix, on),
         NEW r, r = u \/ r = RequestTransportTransaction(u),
         s.p.syncOn.link # on.link => r = RequestTransportTransaction(u),
         s.p.fix.link # fix.link /\ ~Has(s, "paused") => r = RequestTransportTransaction(u)
  PROVE  /\ Core(r, x) /\ Kept(r, s)
         /\ r.p.fix.link = fix.link /\ r.p.syncOn.link = on.link
         /\ s.p.syncOn.link # on.link => r.p.will
         /\ s.p.fix.link # fix.link /\ ~Has(s, "paused") => r.p.will
  <1>1. Core(u, x) /\ Given(u, s, fix, on)
    BY GivenUp
  <1>2. CASE r = u /\ r # RequestTransportTransaction(u)
    BY <1>1, <1>2 DEF Kept, Given
  <1>3. CASE r = RequestTransportTransaction(u)
    <2>1. Core(r, x) /\ Same(r, u) /\ r.p.will
      BY <1>1, <1>3, Requested
    <2>2. Kept(r, s)
      BY <1>1, <2>1 DEF Same, Kept, Given
    <2> QED
      BY <1>1, <2>1, <2>2 DEF Same, Given
  <1> QED
    BY <1>2, <1>3

(* allTransactionsMayHaveFailed *)
LEMMA AllFailed ==
  ASSUME NEW s, NEW x, Core(s, x), NEW r, r = AllTransactionsMayHaveFailed(s)
  PROVE  /\ Core(r, x) /\ Kept(r, s)
         /\ ~Has(s, "stopped") => r.p.fix.link = 0 /\ r.p.syncOn.link = 0
         /\ ~Has(s, "stopped") /\ s.p.syncOn.link # 0 => r.p.will
         /\ ~Has(s, "stopped") /\ s.p.fix.link # 0 /\ ~Has(s, "paused") => r.p.will
  <1> DEFINE fix == IF s.p.fix.link # 0 THEN None ELSE s.p.fix
             on == [s.p.syncOn EXCEPT !.link = 0]
             u == GiveUp(s, fix, on)
  <1>1. CASE Has(s, "stopped")
    <2>1. r = s
      BY <1>1 DEF AllTransactionsMayHaveFailed
    <2>2. Kept(s, s)
      BY DEF Kept
    <2> QED
      BY <1>1, <2>1, <2>2
  <1>2. CASE ~Has(s, "stopped")
    <2>1. s \in States
      BY DEF Core
    <2>2. fix \in Pings /\ on \in Pings /\ fix.link = 0 /\ on.link = 0
      BY <2>1, NoneIsPing DEF States, Protos, Pings
    <2>3. u = [s EXCEPT !.p.fix = IF s.p.fix.link # 0 THEN None ELSE @, !.p.syncOn.link = 0]
      BY <2>1 DEF GiveUp, States, Protos
    <2>4. /\ r = u \/ r = RequestTransportTransaction(u)
          /\ s.p.syncOn.link # 0 => r = RequestTransportTransaction(u)
          /\ s.p.fix.link # 0 /\ ~Has(s, "paused") => r = RequestTransportTransaction(u)
      BY <1>2, <2>3 DEF AllTransactionsMayHaveFailed, RequestIf
    <2> HIDE DEF fix, on
    <2>5. fix.link \in {0, s.p.fix.link} /\ on.link \in {0, s.p.syncOn.link}
      BY <2>2
    <2>6. u = GiveUp(s, fix, on)
      OBVIOUS
    <2> HIDE DEF u
    <2> QED
      BY <1>2, <2>2, <2>4, <2>5, <2>6, GivenUpAsked
  <1> QED
    BY <1>1, <1>2

(* transportTransactionsMayHaveFailed *)
FailedAs(r, s, l, fix, on) ==
  /\ fix.link = IF s.p.fix.link = l THEN 0 ELSE s.p.fix.link
  /\ on.link = IF s.p.syncOn.link = l THEN 0 ELSE s.p.syncOn.link
  /\ r = GiveUp(s, fix, on) \/ r = RequestTransportTransaction(GiveUp(s, fix, on))
  /\ s.p.syncOn.link = l => r = RequestTransportTransaction(GiveUp(s, fix, on))
  /\ s.p.fix.link = l /\ ~Has(s, "paused") => r = RequestTransportTransaction(GiveUp(s, fix, on))

(* It gives up what was sent on the link. *)
LEMMA FailedIs ==
  ASSUME NEW s \in States, NEW l, ~Has(s, "stopped"), NEW r, r = FailedOn(s, l)
  PROVE  \E fix \in Pings, on \in Pings : FailedAs(r, s, l, fix, on)
  <1> DEFINE fix == IF s.p.fix.link = l THEN None ELSE s.p.fix
             on == IF s.p.syncOn.link = l THEN [s.p.syncOn EXCEPT !.link = 0] ELSE s.p.syncOn
             u == GiveUp(s, fix, on)
  <1>1. /\ fix \in Pings /\ on \in Pings
        /\ fix.link = IF s.p.fix.link = l THEN 0 ELSE s.p.fix.link
        /\ on.link = IF s.p.syncOn.link = l THEN 0 ELSE s.p.syncOn.link
    BY NoneIsPing DEF States, Protos, Pings
  <1>2. u = [s EXCEPT !.p.fix = IF s.p.fix.link = l THEN None ELSE @,
                      !.p.syncOn.link = IF s.p.syncOn.link = l THEN 0 ELSE @]
    <2>1. s.p.syncOn = [s.p.syncOn EXCEPT !.link = s.p.syncOn.link]
      BY DEF States, Protos, Pings
    <2>2. on = [s.p.syncOn EXCEPT !.link = IF s.p.syncOn.link = l THEN 0 ELSE @]
      BY <2>1
    <2> HIDE DEF on
    <2> QED
      BY <2>2 DEF GiveUp, States, Protos
  <1>3. /\ r = u \/ r = RequestTransportTransaction(u)
        /\ s.p.syncOn.link = l => r = RequestTransportTransaction(u)
        /\ s.p.fix.link = l /\ ~Has(s, "paused") => r = RequestTransportTransaction(u)
    BY <1>2 DEF FailedOn, RequestIf
  <1>4. u = GiveUp(s, fix, on)
    OBVIOUS
  <1> HIDE DEF fix, on, u
  <1>5. FailedAs(r, s, l, fix, on)
    BY <1>1, <1>3, <1>4 DEF FailedAs
  <1> QED
    BY <1>1, <1>5

(* Which keeps the rest. *)
LEMMA FailedThere ==
  ASSUME NEW s, NEW x, Core(s, x), NEW l, NEW r, r = FailedOn(s, l)
  PROVE  Core(r, x) /\ Kept(r, s)
  <1>1. CASE Has(s, "stopped")
    <2>1. r = s
      BY <1>1 DEF FailedOn
    <2>2. Kept(s, s)
      BY DEF Kept
    <2> QED
      BY <2>1, <2>2
  <1>2. CASE ~Has(s, "stopped")
    <2>1. s \in States
      BY DEF Core
    <2>2. PICK fix \in Pings, on \in Pings : FailedAs(r, s, l, fix, on)
      BY <1>2, <2>1, FailedIs
    <2> DEFINE u == GiveUp(s, fix, on)
    <2>3. /\ fix.link \in {0, s.p.fix.link} /\ on.link \in {0, s.p.syncOn.link}
          /\ r = u \/ r = RequestTransportTransaction(u)
      BY <2>2 DEF FailedAs
    <2>4. /\ s.p.syncOn.link # on.link => r = RequestTransportTransaction(u)
          /\ s.p.fix.link # fix.link /\ ~Has(s, "paused") => r = RequestTransportTransaction(u)
      BY <2>2 DEF FailedAs
    <2>5. u = GiveUp(s, fix, on)
      OBVIOUS
    <2> HIDE DEF u
    <2> QED
      BY <2>3, <2>4, <2>5, GivenUpAsked
  <1> QED
    BY <1>1, <1>2

-----------------------------------------------------------------------------
(* setTransport.  A new transport is one that nothing was said about yet.  *)

(* A transport is numbered. *)
LEMMA Numbered ==
  ASSUME NEW s, NEW x, Core(s, x), NEW r, r = [s EXCEPT !.p.made = @ + 1]
  PROVE  /\ Core(r, x) /\ r.t = s.t /\ r.m = s.m /\ r.c = s.c /\ r.h = s.h
         /\ r.p.flags = s.p.flags /\ r.p.transport = s.p.transport /\ r.p.made = s.p.made + 1
         /\ r.p.will = s.p.will /\ r.p.role = s.p.role
  <1>1. s \in States
    BY DEF Core
  <1>2. r \in States /\ s.p.made \in Nat
    <2> DEFINE m == s.p.made + 1
    <2>1. s.p.made \in Nat
      BY <1>1 DEF States, Protos
    <2>2. m \in Nat /\ r = [s EXCEPT !.p.made = m]
      BY <2>1
    <2> HIDE DEF m
    <2>3. r \in States
      BY <1>1, <2>2 DEF States, Protos
    <2> QED
      BY <2>1, <2>3
  <1>3. r.t = s.t /\ r.m = s.m /\ r.c = s.c /\ r.h = s.h
    BY <1>1 DEF States
  <1>4. /\ r.p.flags = s.p.flags /\ r.p.scheme = s.p.scheme /\ r.p.role = s.p.role
        /\ r.p.authInfo = s.p.authInfo /\ r.p.transport = s.p.transport
        /\ r.p.made = s.p.made + 1
        /\ r.p.fix = s.p.fix /\ r.p.syncOn = s.p.syncOn /\ r.p.will = s.p.will
    BY <1>1 DEF States, Protos
  <1>5. Net(r)
    <2>0. Net(s)
      BY DEF Core
    <2>1. s.p.transport \in Nat /\ \A o \in s.t.out : o.n \in Nat
      BY <1>1 DEF States, Protos, Nets, Payloads
    <2>2. \A b \in Waiting(s.m) : b.n \in Nat
      <3>1. s.m \in Seq(Blocks)
        BY <1>1 DEF States
      <3>2. \A b \in Waiting(s.m) : b \in Blocks
        BY <3>1, WaitingIn
      <3> QED
        BY <3>2 DEF Blocks
    <2>3. ASSUME NEW b \in Waiting(r.m) PROVE Fits(b, r)
      BY <1>2, <1>3, <1>4, <2>0, <2>2 DEF Net, Fits
    <2>4. s.p.transport <= r.p.made /\ \A o \in s.t.out : o.n <= r.p.made
      BY <1>2, <1>4, <2>0, <2>1 DEF Net
    <2> QED
      BY <1>3, <1>4, <2>0, <2>3, <2>4 DEF Net
  <1>6. Answered(r, x) /\ Keys(r, x)
    BY <1>3, <1>4 DEF Core, Answered, Keys, Has
  <1>7. Guarded(r)
    BY <1>3, <1>4 DEF Core, Guarded, Noticed, Links, Has
  <1> QED
    BY <1>2, <1>3, <1>4, <1>5, <1>6, <1>7 DEF Core

(* What setTransport does. *)
MovedOn(r, s, n) ==
  /\ r.p.transport = n /\ r.t.link = 0 /\ ~r.t.wanted
  /\ r.p.flags = s.p.flags /\ r.p.made = s.p.made /\ r.p.role = s.p.role
  /\ r.p.sync = s.p.sync /\ (s.p.will => r.p.will)
  /\ r.h = s.h /\ r.c = s.c
  /\ Waiting(s.m) \subseteq Waiting(r.m)
  /\ \A b \in Waiting(r.m) : b.k \in News => b \in Waiting(s.m)

(* The connection is dropped. *)
Cut(u, t) ==
  /\ u \in Nets /\ u.link = 0 /\ ~u.wanted /\ ~u.needs /\ u.asked = {}
  /\ u.links = t.links /\ u.out = t.out
  /\ u.reporting = t.reporting \/ (t.link # 0 /\ u.reporting = t.reporting \cup {t.link})

(* Which is what a new transport begins with. *)
LEMMA NetReset ==
  ASSUME NEW t \in Nets, NEW u, u = Disconnected(t, TRUE) \/ u = Disconnected(t, FALSE)
  PROVE  Cut(u, t)
  <1> DEFINE v == IF t.link # 0 THEN t.reporting \cup {t.link} ELSE t.reporting
             R(w) == [t EXCEPT !.reporting = w, !.link = 0, !.wanted = FALSE, !.needs = FALSE,
                               !.asked = {}]
  <1>1. t.reporting \in SUBSET Nat /\ v \in SUBSET Nat
    BY DEF Nets
  <1>2. u = R(v) \/ u = R(t.reporting)
    BY DEF Disconnected
  <1>3. v = t.reporting \/ (t.link # 0 /\ v = t.reporting \cup {t.link})
    OBVIOUS
  <1> HIDE DEF v
  <1>4. ASSUME NEW w \in SUBSET Nat, u = R(w)
        PROVE  /\ u \in Nets /\ u.link = 0 /\ ~u.wanted /\ ~u.needs /\ u.asked = {}
               /\ u.links = t.links /\ u.out = t.out /\ u.reporting = w
    BY <1>4 DEF Nets
  <1> HIDE DEF R
  <1> QED
    BY <1>1, <1>2, <1>3, <1>4 DEF Cut

(* The rest of it. *)
PutIn(f, n, u) == [f EXCEPT !.p.fix = None, !.p.transport = n, !.t = u]
Put(r, f, n, u) ==
  /\ r.m = f.m /\ r.c = f.c /\ r.h = f.h /\ r.t = u
  /\ r.p.flags = f.p.flags /\ r.p.scheme = f.p.scheme /\ r.p.role = f.p.role
  /\ r.p.authInfo = f.p.authInfo /\ r.p.transport = n /\ r.p.made = f.p.made
  /\ r.p.fix = None /\ r.p.syncOn = f.p.syncOn /\ r.p.will = f.p.will /\ r.p.sync = f.p.sync

(* The transport takes its place. *)
LEMMA TransportPut ==
  ASSUME NEW f, f \in States, NEW n \in Nat, NEW u \in Nets, NEW r, r = PutIn(f, n, u)
  PROVE  r \in States /\ Put(r, f, n, u)
  <1>1. r \in States
    BY NoneIsPing DEF PutIn, States, Protos
  <1>2. r.m = f.m /\ r.c = f.c /\ r.h = f.h /\ r.t = u
    BY DEF PutIn, States
  <1>3. /\ r.p.flags = f.p.flags /\ r.p.scheme = f.p.scheme /\ r.p.role = f.p.role
        /\ r.p.authInfo = f.p.authInfo /\ r.p.transport = n /\ r.p.made = f.p.made
        /\ r.p.fix = None /\ r.p.syncOn = f.p.syncOn /\ r.p.will = f.p.will /\ r.p.sync = f.p.sync
    BY DEF PutIn, States, Protos
  <1> QED
    BY <1>1, <1>2, <1>3 DEF Put

(* The state keeps its shape when the transport is dropped or replaced. *)
LEMMA TransportSet ==
  ASSUME NEW s, NEW x, Core(s, x), NEW n \in Nat, n <= s.p.made,
         n # 0 => x.auth /\ ~Has(s, "stopped"),
         \A b \in Waiting(s.m) : b.k \in News => b.n # n,
         \A o \in s.t.out : o.n # n,
         NEW r, r = SetTransport(s, n, TRUE) \/ r = SetTransport(s, n, FALSE)
  PROVE  Shape(r, x) /\ MovedOn(r, s, n)
  <1> DEFINE f == AllTransactionsMayHaveFailed(s)
  <1>1. s \in States /\ x \in Contexts
    BY DEF Core
  <1>2. /\ Core(f, x) /\ Kept(f, s)
        /\ ~Has(s, "stopped") => f.p.fix.link = 0 /\ f.p.syncOn.link = 0
    BY AllFailed
  <1>3. f \in States /\ f.t = s.t /\ s.t \in Nets
    BY <1>1, <1>2 DEF Core, Kept, States
  <1> HIDE DEF f
  <1>4. PICK v : /\ v = Disconnected(f.t, TRUE) \/ v = Disconnected(f.t, FALSE)
                 /\ r = PutIn(f, n, v)
    <2> DEFINE v1 == Disconnected(f.t, TRUE)
               v2 == Disconnected(f.t, FALSE)
    <2>1. \/ r = PutIn(f, n, v1)
          \/ r = PutIn(f, n, v2)
      <3>1. ASSUME NEW run \in BOOLEAN
            PROVE  SetTransport(s, n, run) = PutIn(f, n, Disconnected(f.t, run))
        BY <1>3 DEF SetTransport, PutIn, States, f
      <3> QED
        BY <3>1
    <2> HIDE DEF v1, v2
    <2> QED
      BY <2>1 DEF v1, v2
  <1>5. /\ v \in Nets /\ v.link = 0 /\ ~v.wanted /\ ~v.needs /\ v.asked = {}
        /\ v.links = s.t.links /\ v.out = s.t.out
        /\ \/ v.reporting = s.t.reporting
           \/ s.t.link # 0 /\ v.reporting = s.t.reporting \cup {s.t.link}
    <2>1. f.t \in Nets
      BY <1>3
    <2>2. Cut(v, f.t)
      BY <1>4, <2>1, NetReset
    <2> QED
      BY <1>3, <2>2 DEF Cut
  <1>6. \A l \in v.reporting : l # 0 /\ l <= s.t.links
    <2>1. s.t.link <= s.t.links /\ \A l \in s.t.reporting : l # 0 /\ l <= s.t.links
      BY DEF Core, Net
    <2> QED
      BY <1>5, <2>1
  <1>7. /\ r \in States
        /\ r.m = f.m /\ r.c = f.c /\ r.h = f.h /\ r.t = v
        /\ r.p.flags = f.p.flags /\ r.p.scheme = f.p.scheme /\ r.p.role = f.p.role
        /\ r.p.authInfo = f.p.authInfo /\ r.p.transport = n /\ r.p.made = f.p.made
        /\ r.p.fix = None /\ r.p.syncOn = f.p.syncOn /\ r.p.will = f.p.will /\ r.p.sync = f.p.sync
    <2>1. v \in Nets
      BY <1>5
    <2>2. r \in States /\ Put(r, f, n, v)
      BY <1>3, <1>4, <2>1, TransportPut
    <2> QED
      BY <2>2 DEF Put
  <1>8. MovedOn(r, s, n)
    <2>1. /\ Waiting(s.m) \subseteq Waiting(r.m)
          /\ \A b \in Waiting(r.m) : b.k \in News => b \in Waiting(s.m)
      BY <1>2, <1>7 DEF Kept
    <2>2. /\ r.p.flags = s.p.flags /\ r.p.made = s.p.made /\ r.p.role = s.p.role
          /\ r.h = s.h /\ r.c = s.c
      BY <1>2, <1>7 DEF Kept
    <2>3. r.p.sync = s.p.sync /\ (s.p.will => r.p.will)
      BY <1>2, <1>7 DEF Kept
    <2> QED
      BY <1>5, <1>7, <2>1, <2>2, <2>3 DEF MovedOn
  <1>9. /\ \A b \in Waiting(r.m) : b.k \in News => b.n # n
        /\ \A o \in r.t.out : o.n # n
    BY <1>2, <1>5, <1>7 DEF Kept
  <1>10. Net(r)
    <2>1. Net(f) /\ f.t = s.t /\ f.p.made = s.p.made
      BY <1>2 DEF Core, Kept
    <2>2. ASSUME NEW b \in Waiting(r.m) PROVE Fits(b, r)
      BY <1>7, <1>9, <2>1 DEF Net, Fits
    <2>3. \A o \in v.out : o.l <= v.links /\ o.n # 0 /\ o.n <= r.p.made
      BY <1>5, <1>7, <2>1 DEF Net
    <2>4. v.link <= v.links
      <3>1. s.t.links \in Nat
        BY <1>3 DEF Nets
      <3> QED
        BY <1>5, <3>1
    <2> QED
      BY <1>5, <1>6, <1>7, <1>9, <2>1, <2>2, <2>3, <2>4 DEF Net
  <1>11. Answered(r, x)
    BY <1>2, <1>7 DEF Core, Answered, Has
  <1>12. Keys(r, x)
    <2>1. KeyFirst(r.m, n)
      BY <1>9, KeyNone DEF News
    <2>2. n # 0 => x.auth
      OBVIOUS
    <2> QED
      BY <1>2, <1>7, <2>1, <2>2 DEF Core, Keys, Has
  <1>13. Guarded(r)
    <2>1. Followed(r.m, n, Links(r))
      BY <1>9, FollowedNone DEF News, Sends
    <2>2. Has(r, "stopped") <=> Has(s, "stopped")
      BY <1>8 DEF MovedOn, Has
    <2> QED
      BY <1>2, <1>7, <2>1, <2>2, NoneIsPing DEF Guarded
  <1>14. Quiet(r)
    BY <1>5, <1>7, <1>8 DEF Quiet, MovedOn, Has
  <1> QED
    BY <1>1, <1>7, <1>8, <1>10, <1>11, <1>12, <1>13, <1>14 DEF Shape, Core

-----------------------------------------------------------------------------
(* The methods that wait for the context, and those of the time fix. *)

(* Shape is kept by what keeps Core and the transport. *)
LEMMA StaysQuiet ==
  ASSUME NEW s, NEW r, Quiet(s), r.t = s.t, r.p.transport = s.p.transport,
         Has(r, "stopped") => Has(s, "stopped"), Has(r, "paused") => Has(s, "paused")
  PROVE  Quiet(r)
  BY DEF Quiet

(* A flag is set and the context asked. *)
Flagged(s, f) == [s EXCEPT !.p.flags = @ \cup {f}, !.c = Append(@, f)]

(* It asks for what is missing. *)
LEMMA FlagSet ==
  ASSUME NEW s, NEW x, Shape(s, x), NEW f \in Awaiting,
         f = "scheme" => x.scheme = 0 /\ s.p.scheme = 0, f = "auth" => ~x.auth,
         NEW r, r = Flagged(s, f)
  PROVE  /\ Shape(r, x) /\ r.p.flags = s.p.flags \cup {f} /\ r.p.will = s.p.will
         /\ r.p.transport = s.p.transport
  <1>1. s \in States /\ x \in Contexts
    BY DEF Shape, Core
  <1>2. s.p \in Protos /\ s.c \in Seq(Demands) /\ f \in Demands /\ f \in Flags
    BY <1>1 DEF States, Awaiting, Demands, Flags
  <1>3. Append(s.c, f) \in Seq(Demands) /\ Waiting(Append(s.c, f)) = Waiting(s.c) \cup {f}
    BY <1>2, Posted
  <1> DEFINE g == s.p.flags \cup {f}
             c == Append(s.c, f)
  <1>4. g \in SUBSET Flags
    BY <1>2 DEF Protos
  <1>5. r = [s EXCEPT !.p.flags = g, !.c = c]
    BY <1>1 DEF Flagged, States
  <1> HIDE DEF c
  <1>6. r \in States
    <2> HIDE DEF g
    <2> QED
      BY <1>1, <1>3, <1>4, <1>5 DEF States, Protos, c
  <1>7. r.t = s.t /\ r.m = s.m /\ r.c = c /\ r.h = s.h
    BY <1>1, <1>5 DEF States
  <1>8. /\ r.p.flags = g /\ r.p.scheme = s.p.scheme /\ r.p.role = s.p.role
        /\ r.p.authInfo = s.p.authInfo /\ r.p.transport = s.p.transport /\ r.p.made = s.p.made
        /\ r.p.fix = s.p.fix /\ r.p.syncOn = s.p.syncOn /\ r.p.will = s.p.will
    BY <1>1, <1>5 DEF States, Protos
  <1>9. \A h \in Flags : Has(r, h) <=> Has(s, h) \/ h = f
    BY <1>8 DEF Has
  <1>10. /\ Has(r, "stopped") <=> Has(s, "stopped")
         /\ Has(r, "paused") <=> Has(s, "paused")
    BY <1>9 DEF Awaiting, Flags
  <1>11. Net(r)
    BY <1>7, <1>8 DEF Shape, Core, Net, Fits
  <1>12. Answered(r, x)
    <2>1. Waiting(r.c) = Waiting(s.c) \cup {f}
      BY <1>3, <1>7 DEF c
    <2>2. /\ Has(r, "scheme") <=> Has(s, "scheme") \/ f = "scheme"
          /\ Has(r, "auth") <=> Has(s, "auth") \/ f = "auth"
          /\ Has(r, "token") <=> Has(s, "token") \/ f = "token"
      BY <1>9 DEF Awaiting, Flags
    <2>3. Answered(s, x)
      BY DEF Shape, Core
    <2> QED
      BY <1>7, <1>8, <1>10, <2>1, <2>2, <2>3 DEF Answered
  <1>13. Keys(r, x)
    <2>1. Has(s, "auth") => Has(r, "auth")
      BY <1>9 DEF Awaiting, Flags
    <2> QED
      BY <1>7, <1>8, <2>1 DEF Shape, Core, Keys
  <1>14. Guarded(r)
    BY <1>7, <1>8, <1>10 DEF Shape, Core, Guarded, Noticed, Links
  <1>15. Quiet(r)
    BY <1>7, <1>8, <1>10, StaysQuiet DEF Shape
  <1> QED
    BY <1>1, <1>6, <1>8, <1>11, <1>12, <1>13, <1>14, <1>15 DEF Shape, Core

(* What is read of the context. *)
Reads(s, k, missed) == [s EXCEPT !.p.scheme = k, !.h.missed = missed]

(* Reading the scheme overtakes its notification. *)
LEMMA SchemeRead ==
  ASSUME NEW s, NEW x, Shape(s, x), NEW missed \in BOOLEAN,
         s.h.missed => missed, x.scheme # 0 /\ Has(s, "scheme") => missed,
         NEW r, r = Reads(s, x.scheme, missed)
  PROVE  /\ Shape(r, x) /\ r.p.scheme = x.scheme /\ r.t = s.t /\ r.m = s.m
         /\ r.p.flags = s.p.flags /\ r.p.will = s.p.will /\ r.p.transport = s.p.transport
         /\ r.p.made = s.p.made /\ r.p.role = s.p.role
  <1>1. s \in States /\ x \in Contexts /\ x.scheme \in 0..2
    BY DEF Shape, Core, Contexts
  <1>2. r \in States
    BY <1>1 DEF Reads, States, Protos, Histories
  <1>3. r.t = s.t /\ r.m = s.m /\ r.c = s.c
    BY <1>1 DEF Reads, States
  <1>4. r.h.missed = missed /\ r.h.silent = s.h.silent /\ r.h.late = s.h.late
    BY <1>1 DEF Reads, States, Histories
  <1>5. /\ r.p.flags = s.p.flags /\ r.p.scheme = x.scheme /\ r.p.role = s.p.role
        /\ r.p.authInfo = s.p.authInfo /\ r.p.transport = s.p.transport /\ r.p.made = s.p.made
        /\ r.p.fix = s.p.fix /\ r.p.syncOn = s.p.syncOn /\ r.p.will = s.p.will
    BY <1>1 DEF Reads, States, Protos
  <1>6. Net(r) /\ Keys(r, x)
    BY <1>3, <1>5 DEF Shape, Core, Net, Fits, Keys, Has
  <1>7. Answered(r, x)
    BY <1>3, <1>4, <1>5 DEF Shape, Core, Answered, Has
  <1>8. Guarded(r)
    BY <1>3, <1>4, <1>5 DEF Shape, Core, Guarded, Noticed, Links, Has
  <1>9. Quiet(r)
    BY <1>3, <1>5 DEF Shape, Quiet, Has
  <1> QED
    BY <1>1, <1>2, <1>3, <1>5, <1>6, <1>7, <1>8, <1>9 DEF Shape, Core

(* What resetTransport leaves: it waits, or has a transport. *)
Renewed(r, s) ==
  /\ \A f \in {"time", "paused", "stopped"} : f \in r.p.flags <=> f \in s.p.flags
  /\ s.p.will => r.p.will
  /\ ~CanAskForServiceTransactions(r) \/ r.p.transport # 0

(* The transport is dropped first. *)
LEMMA TransportDropped ==
  ASSUME NEW s, NEW x, Core(s, x), NEW r,
         r = SetTransport(s, 0, TRUE) \/ r = SetTransport(s, 0, FALSE)
  PROVE  Shape(r, x) /\ MovedOn(r, s, 0)
  <1>1. /\ \A b \in Waiting(s.m) : b.k \in News => b.n # 0
        /\ \A o \in s.t.out : o.n # 0
    BY DEF Core, Net, Fits
  <1>2. s.p.made \in Nat
    BY DEF Core, States, Protos
  <1>3. 0 \in Nat /\ 0 <= s.p.made
    BY <1>2
  <1> QED
    BY <1>1, <1>3, TransportSet

(* A new one is made when the scheme and the key are known. *)
Counted(s) == [s EXCEPT !.p.made = @ + 1]
MadeOf(r, s) ==
  r.p.transport # 0 /\ r.p.flags = s.p.flags /\ (s.p.will => r.p.will)

(* Nothing was said to it yet. *)
LEMMA TransportMade ==
  ASSUME NEW s, NEW x, Core(s, x), x.auth, ~Has(s, "stopped"), NEW u, NEW r,
         u = Counted(s), r = SetTransport(u, s.p.made + 1, FALSE)
  PROVE  Shape(r, x) /\ MadeOf(r, s)
  <1> DEFINE n == s.p.made + 1
  <1>1. /\ Core(u, x) /\ u.t = s.t /\ u.m = s.m /\ u.p.flags = s.p.flags
        /\ u.p.made = n /\ u.p.will = s.p.will
    BY Numbered DEF Counted
  <1>2. s \in States /\ s.p.made \in Nat /\ n \in Nat /\ n # 0 /\ n <= n
    BY DEF Core, States, Protos
  <1>3. ASSUME NEW b \in Waiting(u.m), b.k \in News PROVE b.n # n
    <2>1. s.m \in Seq(Blocks)
      BY <1>2 DEF States
    <2>2. b \in Blocks
      BY <1>1, <2>1, WaitingIn
    <2>3. b.n <= s.p.made /\ b.n \in Nat
      BY <1>1, <1>3, <2>2 DEF Core, Net, Fits, Blocks
    <2> QED
      BY <1>2, <2>3
  <1>4. ASSUME NEW o \in u.t.out PROVE o.n # n
    <2>1. o.n <= s.p.made /\ o.n \in Nat
      BY <1>1, <1>2 DEF Core, Net, States, Nets, Payloads
    <2> QED
      BY <1>2, <2>1
  <1>5. ~Has(u, "stopped") /\ n <= u.p.made /\ r = SetTransport(u, n, FALSE)
    BY <1>1, <1>2 DEF Has
  <1> HIDE DEF n
  <1>6. Shape(r, x) /\ MovedOn(r, u, n)
    BY <1>1, <1>2, <1>3, <1>4, <1>5, TransportSet
  <1> QED
    BY <1>1, <1>2, <1>6 DEF MovedOn, MadeOf

(* resetTransport *)
LEMMA Reset ==
  ASSUME NEW s, Shape(s, ctx), NEW r, r = ResetTransport(s)
  PROVE  Shape(r, ctx) /\ Renewed(r, s)
  <1>1. CASE Has(s, "stopped")
    <2>1. r = s
      BY <1>1 DEF ResetTransport
    <2>2. ~CanAskForServiceTransactions(s)
      BY <1>1 DEF CanAskForServiceTransactions, Has
    <2> QED
      BY <2>1, <2>2 DEF Renewed
  <1>2. CASE ~Has(s, "stopped")
    <2> DEFINE u == IF s.p.transport = 0 THEN s ELSE SetTransport(s, 0, FALSE)
               missed == u.h.missed \/ (ctx.scheme # 0 /\ Has(s, "scheme"))
               v == Reads(u, ctx.scheme, missed)
               w == Counted(v)
    <2>1. /\ Shape(u, ctx) /\ u.p.transport = 0 /\ u.p.flags = s.p.flags
          /\ s.p.will => u.p.will
      <3>1. CASE s.p.transport = 0
        BY <3>1
      <3>2. CASE s.p.transport # 0
        <4>1. u = SetTransport(s, 0, FALSE) /\ Core(s, ctx)
          BY <3>2 DEF Shape
        <4> HIDE DEF u
        <4>2. Shape(u, ctx) /\ MovedOn(u, s, 0)
          BY <4>1, TransportDropped
        <4> QED
          BY <4>2 DEF MovedOn
      <3> QED
        BY <3>1, <3>2
    <2>2. r = CASE ctx.scheme = 0 -> Await(v, "scheme")
               [] ctx.scheme # 0 /\ ~ctx.auth -> Await(v, "auth")
               [] ctx.scheme # 0 /\ ctx.auth /\ NeedsToken /\ ~ctx.token -> Await(v, "token")
               [] OTHER -> SetTransport(w, v.p.made + 1, FALSE)
      <3>1. u \in States
        BY <2>1 DEF Shape, Core
      <3>2. v = [u EXCEPT !.p.scheme = ctx.scheme,
                          !.h.missed = @ \/ (ctx.scheme # 0 /\ Has(s, "scheme"))]
        <4> HIDE DEF u
        <4> QED
          BY <3>1 DEF Reads, States
      <3> QED
        BY <1>2, <3>2, Zenon DEF ResetTransport, Counted
    <2>3. missed \in BOOLEAN /\ (u.h.missed => missed)
      OBVIOUS
    <2>4. ctx.scheme # 0 /\ Has(u, "scheme") => missed
      BY <2>1 DEF Has
    <2> HIDE DEF u, missed
    <2>5. /\ Shape(v, ctx) /\ v.p.scheme = ctx.scheme
          /\ v.p.flags = u.p.flags /\ v.p.will = u.p.will /\ v.p.transport = u.p.transport
      BY <2>1, <2>3, <2>4, SchemeRead
    <2>6. ctx.scheme \in 0..2 /\ ctx.auth \in BOOLEAN /\ ctx.token \in BOOLEAN /\ NeedsToken \in BOOLEAN
      BY <2>1 DEF Shape, Core, Contexts, NeedsToken
    <2> HIDE DEF v
    <2>7. ASSUME NEW f \in Awaiting, r = Await(v, f),
                 f = "scheme" => ctx.scheme = 0, f = "auth" => ~ctx.auth
          PROVE  Shape(r, ctx) /\ Renewed(r, s)
      <3>1. Shape(r, ctx) /\ r.p.flags = v.p.flags \cup {f} /\ r.p.will = v.p.will
        <4>1. CASE Has(v, f)
          BY <2>5, <2>7, <4>1 DEF Await, Has
        <4>2. CASE ~Has(v, f)
          <5>1. r = Flagged(v, f)
            BY <2>7, <4>2 DEF Await, Flagged
          <5>2. f = "scheme" => ctx.scheme = 0 /\ v.p.scheme = 0
            BY <2>5, <2>7
          <5> QED
            BY <2>5, <2>7, <5>1, <5>2, FlagSet
        <4> QED
          BY <4>1, <4>2
      <3>2. f \in r.p.flags /\ ~CanAskForServiceTransactions(r)
        BY <3>1 DEF CanAskForServiceTransactions
      <3>3. \A h \in {"time", "paused", "stopped"} : h \in r.p.flags <=> h \in s.p.flags
        BY <2>1, <2>5, <3>1 DEF Awaiting
      <3> QED
        BY <2>1, <2>5, <3>1, <3>2, <3>3 DEF Renewed
    <2>8. CASE ctx.scheme = 0
      <3>1. r = Await(v, "scheme") /\ "scheme" \in Awaiting
        BY <2>2, <2>8 DEF Awaiting
      <3> QED
        BY <2>7, <2>8, <3>1
    <2>9. CASE ctx.scheme # 0 /\ ~ctx.auth
      <3>1. r = Await(v, "auth") /\ "auth" \in Awaiting
        BY <2>2, <2>9 DEF Awaiting
      <3> QED
        BY <2>7, <2>9, <3>1
    <2>10. CASE ctx.scheme # 0 /\ ctx.auth /\ NeedsToken /\ ~ctx.token
      <3>1. r = Await(v, "token") /\ "token" \in Awaiting
        BY <2>2, <2>10 DEF Awaiting
      <3> QED
        BY <2>7, <2>10, <3>1
    <2>11. CASE ctx.scheme # 0 /\ ctx.auth /\ ~(NeedsToken /\ ~ctx.token)
      <3>1. r = SetTransport(w, v.p.made + 1, FALSE)
        BY <2>2, <2>11
      <3>2. Core(v, ctx) /\ ~Has(v, "stopped")
        BY <1>2, <2>1, <2>5 DEF Shape, Has
      <3>3. Shape(r, ctx) /\ MadeOf(r, v)
        BY <2>11, <3>1, <3>2, TransportMade
      <3> QED
        BY <2>1, <2>5, <3>3 DEF Renewed, MadeOf
    <2> QED
      BY <2>8, <2>9, <2>10, <2>11
  <1> QED
    BY <1>1, <1>2

(* requestTransportTransaction, again. *)
LEMMA RequestedShape ==
  ASSUME NEW s, NEW x, Shape(s, x), NEW r, r = RequestTransportTransaction(s)
  PROVE  Shape(r, x) /\ r.p.will /\ r.p.flags = s.p.flags /\ Same(r, s)
  <1>1. Core(r, x) /\ r.p.will /\ Same(r, s)
    BY Requested DEF Shape
  <1>2. Quiet(r)
    BY <1>1, StaysQuiet DEF Shape, Same, Has
  <1> QED
    BY <1>1, <1>2 DEF Shape, Same

(* resetTransport followed by requestTransportTransaction *)
LEMMA ResetRequested ==
  ASSUME NEW s, Shape(s, ctx), NEW r, r = ResetAndRequest(s)
  PROVE  Shape(r, ctx) /\ r.p.will
  <1> DEFINE u == ResetTransport(s)
  <1>1. Shape(u, ctx)
    BY Reset
  <1>2. r = RequestTransportTransaction(u)
    BY DEF ResetAndRequest
  <1> HIDE DEF u
  <1> QED
    BY <1>1, <1>2, RequestedShape

(* The time flag, the time fix and the sync service. *)
Retime(s, g, b, fix, on) ==
  [s EXCEPT !.p.flags = g, !.p.sync = b, !.p.fix = fix, !.p.syncOn = on]
Retimes(r, s, g, b) ==
  /\ r.p.flags = g /\ r.p.sync = b /\ r.p.will = s.p.will /\ r.p.transport = s.p.transport
  /\ r.t = s.t /\ r.h = s.h /\ r.c = s.c /\ r.m = s.m

(* They may be given up at any time. *)
LEMMA Retimed ==
  ASSUME NEW s, NEW x, Shape(s, x), NEW g, NEW b \in BOOLEAN, NEW fix \in Pings, NEW on \in Pings,
         g = s.p.flags \/ g = s.p.flags \cup {"time"} \/ g = s.p.flags \ {"time"},
         fix.link \in {0, s.p.fix.link}, on.link \in {0, s.p.syncOn.link},
         NEW r, r = Retime(s, g, b, fix, on)
  PROVE  Shape(r, x) /\ Retimes(r, s, g, b)
  <1>1. s \in States /\ Core(s, x)
    BY DEF Shape, Core
  <1>2. g \in SUBSET Flags /\ \A f \in Flags : f # "time" => (f \in g <=> f \in s.p.flags)
    <2>1. s.p.flags \in SUBSET Flags /\ "time" \in Flags
      BY <1>1 DEF States, Protos, Flags
    <2> QED
      BY <2>1
  <1>3. r \in States
    BY <1>1, <1>2 DEF Retime, States, Protos
  <1>4. r.t = s.t /\ r.m = s.m /\ r.c = s.c /\ r.h = s.h
    BY <1>1 DEF Retime, States
  <1>5. /\ r.p.flags = g /\ r.p.scheme = s.p.scheme /\ r.p.role = s.p.role
        /\ r.p.authInfo = s.p.authInfo /\ r.p.transport = s.p.transport /\ r.p.made = s.p.made
        /\ r.p.fix = fix /\ r.p.syncOn = on /\ r.p.sync = b /\ r.p.will = s.p.will
    BY <1>1 DEF Retime, States, Protos
  <1>6. SameFlags(r, s) /\ Grown(r.m, s.m)
    BY <1>2, <1>4, <1>5 DEF SameFlags, Grown, Flags, Awaiting
  <1>7. Core(r, x)
    BY <1>1, <1>3, <1>4, <1>5, <1>6, Alike
  <1>8. Quiet(r)
    BY <1>4, <1>5, <1>6, StaysQuiet DEF Shape, SameFlags, Has
  <1> QED
    BY <1>4, <1>5, <1>7, <1>8 DEF Shape, Retimes

(* requestTimeResync *)
LEMMA Resynced ==
  ASSUME NEW s, NEW x, Shape(s, x), NEW r, r = RequestTimeResync(s)
  PROVE  Shape(r, x) /\ r.h = s.h /\ r.p.flags = s.p.flags /\ (s.p.sync \/ r.p.will)
  <1>1. CASE s.p.sync
    BY <1>1 DEF RequestTimeResync
  <1>2. CASE ~s.p.sync
    <2> DEFINE u == Retime(s, s.p.flags, TRUE, s.p.fix, None)
    <2>1. s \in States /\ s.p.fix \in Pings
      BY DEF Shape, Core, States, Protos
    <2>2. u = [s EXCEPT !.p.sync = TRUE, !.p.syncOn = None]
      BY <2>1 DEF Retime, States, Protos
    <2>3. r = RequestTransportTransaction(u)
      BY <1>2, <2>2 DEF RequestTimeResync
    <2>4. /\ TRUE \in BOOLEAN /\ s.p.flags = s.p.flags
          /\ s.p.fix.link \in {0, s.p.fix.link} /\ None.link \in {0, s.p.syncOn.link}
      BY NoneIsPing
    <2>5. Shape(u, x) /\ Retimes(u, s, s.p.flags, TRUE)
      BY <2>1, <2>4, NoneIsPing, Retimed
    <2> HIDE DEF u
    <2>6. Shape(r, x) /\ r.p.will /\ r.p.flags = u.p.flags /\ Same(r, u)
      BY <2>3, <2>5, RequestedShape
    <2> QED
      BY <2>5, <2>6 DEF Retimes, Same
  <1> QED
    BY <1>1, <1>2

(* initiateTimeSync *)
LEMMA Initiated ==
  ASSUME NEW s, NEW x, Shape(s, x), NEW r, r = InitiateTimeSync(s)
  PROVE  /\ Shape(r, x) /\ r.h = s.h /\ Has(r, "time")
         /\ Has(s, "time") \/ s.p.sync \/ r.p.will
  <1>1. CASE Has(s, "time")
    BY <1>1 DEF InitiateTimeSync
  <1>2. CASE ~Has(s, "time")
    <2> DEFINE g == s.p.flags \cup {"time"}
               u == Retime(s, g, s.p.sync, s.p.fix, s.p.syncOn)
    <2>1. s \in States /\ s.p.fix \in Pings /\ s.p.syncOn \in Pings /\ s.p.sync \in BOOLEAN
      BY DEF Shape, Core, States, Protos
    <2>2. u = [s EXCEPT !.p.flags = @ \cup {"time"}]
      BY <2>1 DEF Retime, States, Protos
    <2>3. r = RequestTimeResync(u)
      BY <1>2, <2>2 DEF InitiateTimeSync
    <2>4. /\ s.p.fix.link \in {0, s.p.fix.link} /\ s.p.syncOn.link \in {0, s.p.syncOn.link}
          /\ g = s.p.flags \cup {"time"}
      OBVIOUS
    <2> HIDE DEF g
    <2>5. Shape(u, x) /\ Retimes(u, s, g, s.p.sync)
      BY <2>1, <2>4, Retimed
    <2> HIDE DEF u
    <2>6. Shape(r, x) /\ r.h = u.h /\ r.p.flags = u.p.flags /\ (u.p.sync \/ r.p.will)
      BY <2>3, <2>5, Resynced
    <2> QED
      BY <2>5, <2>6 DEF Retimes, Has, g
  <1> QED
    BY <1>1, <1>2

(* completeTimeSync *)
LEMMA Completed ==
  ASSUME NEW s, NEW x, Shape(s, x), NEW r, r = CompleteTimeSync(s)
  PROVE  Shape(r, x) /\ r.h = s.h
  <1>1. CASE ~Has(s, "time")
    BY <1>1 DEF CompleteTimeSync
  <1>2. CASE Has(s, "time")
    <2> DEFINE g == s.p.flags \ {"time"}
               u == Retime(s, g, FALSE, s.p.fix, None)
    <2>1. s \in States /\ s.p.fix \in Pings
      BY DEF Shape, Core, States, Protos
    <2>2. r = u
      BY <1>2, <2>1 DEF CompleteTimeSync, Retime, States, Protos
    <2>3. /\ s.p.fix.link \in {0, s.p.fix.link} /\ None.link \in {0, s.p.syncOn.link}
          /\ g = s.p.flags \ {"time"} /\ FALSE \in BOOLEAN
      BY NoneIsPing
    <2> HIDE DEF g
    <2>4. Shape(u, x) /\ Retimes(u, s, g, FALSE)
      BY <2>1, <2>3, NoneIsPing, Retimed
    <2> QED
      BY <2>2, <2>4 DEF Retimes
  <1> QED
    BY <1>1, <1>2

(* A transaction is requested if something can be sent. *)
LEMMA RequestedIf ==
  ASSUME NEW s, NEW x, Shape(s, x), NEW r, r = s \/ r = RequestTransportTransaction(s)
  PROVE  Shape(r, x) /\ r.p.flags = s.p.flags /\ (s.p.will => r.p.will)
  <1>1. CASE r = s
    BY <1>1
  <1>2. CASE r = RequestTransportTransaction(s)
    BY <1>2, RequestedShape
  <1> QED
    BY <1>1, <1>2

(* The request at the end of a block. *)
LEMMA AskedAtEnd ==
  ASSUME NEW s, NEW x, Shape(s, x), NEW r, r = RequestIf(CanAskForServiceTransactions(s), s)
  PROVE  Shape(r, x) /\ (r.p.will \/ ~CanAskForServiceTransactions(r))
  <1>1. CASE CanAskForServiceTransactions(s)
    <2>1. r = RequestTransportTransaction(s)
      BY <1>1 DEF RequestIf
    <2> QED
      BY <2>1, RequestedShape
  <1>2. CASE ~CanAskForServiceTransactions(s)
    <2>1. r = s
      BY <1>2 DEF RequestIf
    <2> QED
      BY <1>2, <2>1
  <1> QED
    BY <1>1, <1>2

(* timeSyncInfoChanged *)
LEMMA SaltsChanged ==
  ASSUME NEW s, Shape(s, ctx), NEW r, r = TimeSyncInfoChanged(s)
  PROVE  Shape(r, ctx) /\ (r.p.will \/ ~CanAskForServiceTransactions(r))
  <1> DEFINE v == [s EXCEPT !.c = Append(@, "salts")]
             u == IF ctx.auth THEN v ELSE s
  <1>1. s \in States /\ s.c \in Seq(Demands) /\ Core(s, ctx)
    BY DEF Shape, Core, States
  <1>2. Append(s.c, "salts") \in Seq(Demands) /\ Waiting(Append(s.c, "salts")) = Waiting(s.c) \cup {"salts"}
    BY <1>1, Posted DEF Demands
  <1>3. v.p = s.p /\ v.t = s.t /\ v.m = s.m /\ v.h = s.h /\ v.c = Append(s.c, "salts")
    BY <1>1 DEF States
  <1>4. v \in States
    BY <1>1, <1>2 DEF States
  <1> HIDE DEF v
  <1>5. SameFlags(v, s) /\ Grown(v.m, s.m)
    BY <1>3 DEF SameFlags, Grown
  <1>6. Core(v, ctx)
    BY <1>1, <1>2, <1>3, <1>4, <1>5, Alike
  <1>7. Quiet(v)
    BY <1>3, StaysQuiet DEF Shape, Has
  <1>8. Shape(u, ctx) /\ u.p = s.p
    BY <1>3, <1>6, <1>7 DEF Shape
  <1>9. CanAskForServiceTransactions(s) <=> CanAskForServiceTransactions(u)
    BY <1>8 DEF CanAskForServiceTransactions
  <1>10. r = RequestIf(CanAskForServiceTransactions(s), u)
    BY DEF TimeSyncInfoChanged, v
  <1>11. r = RequestIf(CanAskForServiceTransactions(u), u)
    BY <1>9, <1>10 DEF RequestIf
  <1> HIDE DEF u
  <1> QED
    BY <1>8, <1>11, AskedAtEnd

(* resetSessionInfo *)
LEMMA SessionReset ==
  ASSUME NEW s, Shape(s, ctx), NEW r, r = ResetSessionInfo(s)
  PROVE  Shape(r, ctx) /\ r.p.will
  <1> DEFINE u == Retime(s, s.p.flags, s.p.sync, None, None)
             v == RequestIf(u.p.sync, u)
  <1>1. s \in States /\ s.p.sync \in BOOLEAN
    BY DEF Shape, Core, States, Protos
  <1>2. u = [s EXCEPT !.p.fix = None, !.p.syncOn = None]
    BY <1>1 DEF Retime, States, Protos
  <1>3. r = ResetAndRequest(v)
    BY <1>2 DEF ResetSessionInfo
  <1>4. None.link \in {0, s.p.fix.link} /\ None.link \in {0, s.p.syncOn.link}
    BY NoneIsPing
  <1>5. Shape(u, ctx)
    BY <1>1, <1>4, NoneIsPing, Retimed
  <1> HIDE DEF u
  <1>6. v = u \/ v = RequestTransportTransaction(u)
    BY DEF RequestIf
  <1> HIDE DEF v
  <1>7. Shape(v, ctx)
    BY <1>5, <1>6, RequestedIf
  <1> QED
    BY <1>3, <1>7, ResetRequested

-----------------------------------------------------------------------------
(* The end of a block: the variables are what the record says. *)
LEMMA Ended ==
  ASSUME NEW s, Shape(s, ctx'), Looks(s, work'), Done(s),
         work' \in BOOLEAN, pings' \in 0..MaxPings, events' \in 0..MaxEvents
  PROVE  IndInv'
  <1>1. s \in States
    BY DEF Shape, Core
  <1>2. s = [p |-> s.p, t |-> s.t, m |-> s.m, c |-> s.c, h |-> s.h]
    BY <1>1 DEF States
  <1>3. Running' = [p |-> proto', t |-> net', m |-> mq', c |-> cq', h |-> hist']
    BY DEF Running
  <1>4. Running' = s
    BY <1>2, <1>3 DEF Done
  <1>5. Shape(Running', ctx') /\ Looks(Running', work')
    BY <1>4
  <1> QED
    BY <1>5 DEF IndInv

(* The record at the start. *)
LEMMA Started ==
  ASSUME IndInv
  PROVE  /\ Shape(Running, ctx) /\ Running \in States /\ Looks(Running, work)
         /\ Running.p = proto /\ Running.t = net /\ Running.m = mq /\ Running.c = cq
         /\ Running.h = hist
  BY DEF IndInv, Running, Shape, Core

(* A block is taken off the queue and may change what it is about: r is s  *)
(* without the first block.                                                *)
LEMMA TakenShape ==
  ASSUME NEW s, NEW x, Shape(s, x), s.m # <<>>, NEW a, a = Head(s.m), NEW r, r \in States,
         r.m = Tail(s.m), r.t = s.t, r.c = s.c,
         s.h.missed => r.h.missed, s.h.silent => r.h.silent, s.h.late => r.h.late,
         r.p.transport = s.p.transport, r.p.made = s.p.made,
         \A f \in {"scheme", "auth", "token", "paused"} : Has(r, f) => Has(s, f),
         Has(r, "stopped") <=> Has(s, "stopped"),
         Has(r, "scheme") /\ ~Has(s, "stopped") =>
           r.p.scheme = s.p.scheme /\ (a.k # "scheme" \/ s.p.scheme # 0),
         Has(r, "auth") /\ ~Has(s, "stopped") => a.k # "auth",
         Has(r, "token") /\ ~Has(s, "stopped") => a.k # "token" \/ a.p # 1,
         r.p.authInfo \/ Has(r, "auth") \/ (~s.p.authInfo /\ ~Has(s, "auth") /\ a.k # "auth"),
         r.p.fix.link # 0 /\ ~Has(s, "stopped") =>
           \/ r.p.fix.link = s.p.fix.link /\ (a.k # "failed" \/ a.l # s.p.fix.link)
           \/ Noticed(r, r.p.fix.link),
         r.p.syncOn.link # 0 /\ ~Has(s, "stopped") =>
           \/ r.p.syncOn.link = s.p.syncOn.link /\ (a.k # "failed" \/ a.l # s.p.syncOn.link)
           \/ Noticed(r, r.p.syncOn.link)
  PROVE  Shape(r, x)
  <1>1. s \in States /\ x \in Contexts /\ s.m \in Seq(Blocks)
    BY DEF Shape, Core, States
  <1>2. Waiting(s.m) = Waiting(r.m) \cup {a}
    BY <1>1, TakenFirst
  <1>3. Links(r) = Links(s)
    BY DEF Links
  <1>4. Net(r)
    BY <1>2 DEF Shape, Core, Net, Fits
  <1>5. Quiet(r)
    BY DEF Shape, Quiet
  <1>6. Answered(r, x)
    <2>1. Answered(s, x)
      BY DEF Shape, Core
    <2> QED
      BY <1>2, <2>1 DEF Answered
  <1>7. Keys(r, x)
    <2>1. Keys(s, x)
      BY DEF Shape, Core
    <2>2. KeyFirst(s.m, s.p.transport) /\ a.k # "auth" => KeyFirst(r.m, s.p.transport)
      BY <1>1, KeyTaken
    <2> QED
      BY <1>2, <2>1, <2>2 DEF Keys
  <1>8. Guarded(r)
    <2>1. Guarded(s)
      BY DEF Shape, Core
    <2>2. Followed(s.m, s.p.transport, Links(s)) => Followed(r.m, r.p.transport, Links(r))
      BY <1>1, <1>3, FollowedTaken
    <2>3. ASSUME NEW l, Noticed(s, l), a.k # "failed" \/ a.l # l PROVE Noticed(r, l)
      BY <1>2, <1>3, <2>3 DEF Noticed
    <2> QED
      BY <2>1, <2>2, <2>3 DEF Guarded
  <1> QED
    BY <1>1, <1>4, <1>5, <1>6, <1>7, <1>8 DEF Shape, Core

(* When somebody looks, or nothing may be sent. *)
LEMMA LooksAnyway ==
  ASSUME NEW s, NEW w,
         s.p.will \/ Has(s, "paused") \/ ~CanAskForServiceTransactions(s)
  PROVE  Looks(s, w)
  BY DEF Looks, Looking, TimeDue, SyncDue

(* What makes MTProto look stays. *)
LEMMA LooksOn ==
  ASSUME NEW s, NEW w, Looks(s, w), NEW r, NEW v, r.p.flags = s.p.flags,
         v => w, r.p.sync => s.p.sync,
         Looking(s) => Looking(r), TimeDue(s) => TimeDue(r), SyncDue(s) => SyncDue(r)
  PROVE  Looks(r, v)
  BY DEF Looks, Has, CanAskForServiceTransactions

(* It does when only other blocks are taken, or any added. *)
LEMMA DueOn ==
  ASSUME NEW s, NEW r, r.p.transport = s.p.transport, s.p.will => r.p.will,
         r.t.wanted = s.t.wanted, s.t.needs => r.t.needs, s.t.link = 0 => r.t.link = 0,
         s.t.out \subseteq r.t.out, s.h.unasked => r.h.unasked,
         s.p.fix.link # 0 => r.p.fix.link # 0 \/ r.p.will,
         s.p.syncOn.link # 0 => r.p.syncOn.link # 0 \/ r.p.will,
         \A b \in Waiting(s.m) : b.k \in News \cup {"notSent"} => b \in Waiting(r.m)
  PROVE  /\ Looking(s) => Looking(r)
         /\ TimeDue(s) => TimeDue(r)
         /\ SyncDue(s) => SyncDue(r)
  <1>1. Looking(s) => Looking(r)
    BY DEF Looking, News
  <1>2. ASSUME NEW k \in Sends PROVE Sending(s, k) => Sending(r, k)
    BY <1>2 DEF Sending, News, Sends
  <1>3. (\E b \in Waiting(s.m) : b.k = "notSent") => \E b \in Waiting(r.m) : b.k = "notSent"
    OBVIOUS
  <1>4. Sending(s, "sent") => Sending(r, "sent")
    BY <1>2 DEF Sends
  <1>5. Sending(s, "saltsSent") => Sending(r, "saltsSent")
    BY <1>2 DEF Sends
  <1>6. r.p.will => Looking(r)
    BY DEF Looking
  <1> QED
    BY <1>1, <1>3, <1>4, <1>5, <1>6 DEF TimeDue, SyncDue

(* The record when a block was taken. *)
LEMMA TakenIs ==
  ASSUME IndInv, mq # <<>>
  PROVE  /\ Taken \in States
         /\ Taken.p = proto /\ Taken.t = net /\ Taken.m = Tail(mq) /\ Taken.c = cq /\ Taken.h = hist
  <1>1. Running \in States /\ Running.m = mq /\ mq \in Seq(Blocks)
    BY Started DEF States
  <1>2. Tail(mq) \in Seq(Blocks)
    BY <1>1, TakenFirst
  <1>3. Taken = [p |-> proto, t |-> net, m |-> Tail(mq), c |-> cq, h |-> hist]
    BY DEF Taken, Running
  <1>4. proto \in Protos /\ net \in Nets /\ cq \in Seq(Demands) /\ hist \in Histories
    BY Started DEF States
  <1> QED
    BY <1>2, <1>3, <1>4 DEF States

(* Most blocks may just be taken. *)
LEMMA JustTaken ==
  ASSUME IndInv, mq # <<>>, Head(mq).k \notin {"scheme", "auth", "token", "failed"}
  PROVE  Shape(Taken, ctx)
  <1>1. /\ Taken \in States
        /\ Taken.p = proto /\ Taken.t = net /\ Taken.m = Tail(mq) /\ Taken.c = cq /\ Taken.h = hist
    BY TakenIs
  <1>2. /\ Shape(Running, ctx)
        /\ Running.p = proto /\ Running.t = net /\ Running.m = mq /\ Running.c = cq
        /\ Running.h = hist
    BY Started
  <1>3. \A f : Has(Taken, f) <=> Has(Running, f)
    BY <1>1, <1>2 DEF Has
  <1>4. \/ Taken.p.authInfo \/ Has(Taken, "auth")
        \/ (~Running.p.authInfo /\ ~Has(Running, "auth") /\ Head(mq).k # "auth")
    BY <1>1, <1>2, <1>3
  <1> HIDE DEF IndInv
  <1> QED
    BY <1>1, <1>2, <1>3, <1>4, TakenShape

(* Others than those of the transport need not be replaced. *)
LEMMA TakenLooks ==
  ASSUME IndInv, mq # <<>>, Head(mq).k \notin News \cup {"notSent"}
  PROVE  Looks(Taken, work)
  <1>1. /\ Taken.p = proto /\ Taken.t = net /\ Taken.m = Tail(mq) /\ Taken.h = hist
    BY TakenIs
  <1>2. /\ Running \in States /\ Looks(Running, work)
        /\ Running.p = proto /\ Running.t = net /\ Running.m = mq /\ Running.h = hist
    BY Started
  <1>3. Waiting(mq) = Waiting(Tail(mq)) \cup {Head(mq)}
    BY <1>2, TakenFirst DEF States
  <1>4. \A b \in Waiting(Running.m) : b.k \in News \cup {"notSent"} => b \in Waiting(Taken.m)
    BY <1>1, <1>2, <1>3
  <1>5. /\ Looking(Running) => Looking(Taken)
        /\ TimeDue(Running) => TimeDue(Taken)
        /\ SyncDue(Running) => SyncDue(Taken)
    BY <1>1, <1>2, <1>4, DueOn
  <1> QED
    BY <1>1, <1>2, <1>5, LooksOn

(* The transport is told to ask. *)
Wants(s) == [s EXCEPT !.t.wanted = TRUE, !.t.needs = TRUE]

(* Which only one that may connect is. *)
LEMMA Wanted ==
  ASSUME NEW s, NEW x, Shape(s, x), ~Has(s, "paused"), s.p.transport # 0, NEW r, r = Wants(s)
  PROVE  Shape(r, x) /\ Looking(r) /\ r.p = s.p
  <1>1. s \in States
    BY DEF Shape, Core
  <1>2. r \in States
    BY <1>1 DEF Wants, States, Nets
  <1>3. r.p = s.p /\ r.m = s.m /\ r.c = s.c /\ r.h = s.h
    BY <1>1 DEF Wants, States
  <1>4. /\ r.t.wanted /\ r.t.needs /\ r.t.link = s.t.link /\ r.t.links = s.t.links
        /\ r.t.out = s.t.out /\ r.t.asked = s.t.asked /\ r.t.reporting = s.t.reporting
    BY <1>1 DEF Wants, States, Nets
  <1>5. Net(r)
    BY <1>3, <1>4 DEF Shape, Core, Net, Fits
  <1>6. Answered(r, x) /\ Keys(r, x)
    BY <1>3 DEF Shape, Core, Answered, Keys, Has
  <1>7. Guarded(r)
    BY <1>3, <1>4 DEF Shape, Core, Guarded, Noticed, Links, Has
  <1>8. Quiet(r)
    BY <1>3, <1>4 DEF Shape, Quiet, Has
  <1> QED
    BY <1>2, <1>3, <1>4, <1>5, <1>6, <1>7, <1>8 DEF Shape, Core, Looking

(* Somebody looks. *)
LEMMA LooksNow ==
  ASSUME NEW s, NEW w, Looking(s)
  PROVE  Looks(s, w)
  BY DEF Looks, TimeDue, SyncDue

(* The pass of requestTransportTransaction. *)
LEMMA PassKeeps ==
  ASSUME IndInv, Pass
  PROVE  IndInv'
  <1> DEFINE s == [Taken EXCEPT !.p.will = FALSE]
             r == IF proto.transport = 0 THEN ResetTransport(s) ELSE s
             e == IF proto.flags \cap {"stopped", "paused"} # {} THEN s
                  ELSE IF r.p.transport = 0 THEN r
                  ELSE [r EXCEPT !.t.wanted = TRUE, !.t.needs = TRUE]
  <1>1. /\ mq # <<>> /\ Head(mq).k = "pass" /\ Done(e)
        /\ ctx' = ctx /\ work' = work /\ pings' = pings /\ events' = events
    BY DEF Pass, Take
  <1>2. /\ Taken \in States
        /\ Taken.p = proto /\ Taken.t = net /\ Taken.m = Tail(mq) /\ Taken.c = cq /\ Taken.h = hist
    BY <1>1, TakenIs
  <1>3. Shape(Taken, ctx)
    BY <1>1, JustTaken
  <1>4. s \in States
    BY <1>2 DEF States, Protos
  <1>5. s.t = Taken.t /\ s.m = Taken.m /\ s.c = Taken.c /\ s.h = Taken.h
    BY <1>2 DEF States
  <1>6. /\ s.p.flags = proto.flags /\ s.p.scheme = proto.scheme /\ s.p.authInfo = proto.authInfo
        /\ s.p.transport = proto.transport /\ s.p.made = proto.made
        /\ s.p.fix = proto.fix /\ s.p.syncOn = proto.syncOn
    BY <1>2 DEF States, Protos
  <1>7. SameFlags(s, Taken) /\ Grown(s.m, Taken.m)
    BY <1>2, <1>5, <1>6 DEF SameFlags, Grown
  <1>8. Core(Taken, ctx)
    BY <1>3 DEF Shape
  <1>9. Core(s, ctx)
    <2> HIDE DEF s
    <2> QED
      BY <1>2, <1>4, <1>5, <1>6, <1>7, <1>8, Alike
  <1>10. Shape(s, ctx)
    BY <1>2, <1>3, <1>5, <1>6, <1>9, StaysQuiet DEF Shape, Has
  <1> HIDE DEF s
  <1>11. CASE proto.flags \cap {"stopped", "paused"} # {}
    <2>1. e = s
      BY <1>11
    <2>2. Has(s, "paused") \/ ~CanAskForServiceTransactions(s)
      BY <1>6, <1>11 DEF Has, CanAskForServiceTransactions
    <2>3. Looks(s, work')
      BY <2>2, LooksAnyway
    <2> QED
      BY <1>1, <1>10, <2>1, <2>3, Ended DEF IndInv
  <1>12. CASE proto.flags \cap {"stopped", "paused"} = {}
    <2>1. /\ Shape(r, ctx) /\ ~Has(r, "paused")
          /\ ~CanAskForServiceTransactions(r) \/ r.p.transport # 0
      <3>1. CASE proto.transport = 0
        <4>1. Shape(r, ctx) /\ Renewed(r, s)
          BY <1>10, <3>1, Reset
        <4> QED
          BY <1>6, <1>12, <4>1 DEF Renewed, Has
      <3>2. CASE proto.transport # 0
        BY <1>6, <1>10, <1>12, <3>2 DEF Has
      <3> QED
        BY <3>1, <3>2
    <2> HIDE DEF r
    <2>2. CASE r.p.transport = 0
      <3>1. e = r /\ Looks(r, work')
        BY <1>12, <2>1, <2>2, LooksAnyway
      <3> QED
        BY <1>1, <2>1, <3>1, Ended DEF IndInv
    <2>3. CASE r.p.transport # 0
      <3>1. e = Wants(r)
        BY <1>12, <2>3 DEF Wants
      <3> HIDE DEF e
      <3>2. Shape(e, ctx) /\ Looking(e)
        BY <2>1, <2>3, <3>1, Wanted
      <3>3. Looks(e, work')
        BY <3>2, LooksNow
      <3> QED
        BY <1>1, <3>2, <3>3, Ended DEF IndInv
    <2> QED
      BY <2>2, <2>3
  <1> QED
    BY <1>11, <1>12

(* The block has what it is about done by the others. *)
LEMMA TakenKeeps ==
  ASSUME IndInv, Shape(Taken, ctx), mq # <<>>, Head(mq).k \notin News \cup {"notSent"},
         Done(Taken), UNCHANGED <<ctx, work, pings, events>>
  PROVE  IndInv'
  <1>1. Looks(Taken, work')
    BY TakenLooks
  <1> QED
    BY <1>1, Ended DEF IndInv

(* A request for a transaction ends the block. *)
LEMMA WillKeeps ==
  ASSUME IndInv, NEW e, Shape(e, ctx), Done(e), UNCHANGED <<ctx, pings>>,
         work' \in BOOLEAN, events' \in 0..MaxEvents,
         e.p.will \/ ~CanAskForServiceTransactions(e)
  PROVE  IndInv'
  <1>1. Looks(e, work')
    BY LooksAnyway
  <1> QED
    BY <1>1, Ended DEF IndInv

(* A notification clears its flag. *)
LEMMA FlagCleared ==
  ASSUME IndInv, NEW f \in {"scheme", "auth", "token"}, mq # <<>>, Head(mq).k = f,
         NEW r, f # "auth" => r = [Taken EXCEPT !.p.flags = @ \ {f}],
         f = "auth" => r = [Taken EXCEPT !.p.authInfo = TRUE, !.p.flags = @ \ {f}]
  PROVE  /\ Shape(r, ctx) /\ r.t = net /\ r.h = hist /\ r.m = Tail(mq)
         /\ r.p.flags = proto.flags \ {f} /\ r.p.will = proto.will /\ r.p.sync = proto.sync
         /\ r.p.transport = proto.transport /\ r.p.fix = proto.fix /\ r.p.syncOn = proto.syncOn
  <1>1. /\ Taken \in States
        /\ Taken.p = proto /\ Taken.t = net /\ Taken.m = Tail(mq) /\ Taken.c = cq /\ Taken.h = hist
    BY TakenIs
  <1>2. /\ Shape(Running, ctx)
        /\ Running.p = proto /\ Running.t = net /\ Running.m = mq /\ Running.c = cq
        /\ Running.h = hist
    BY Started
  <1> DEFINE g == proto.flags \ {f}
             i == IF f = "auth" THEN TRUE ELSE proto.authInfo
  <1>3. proto \in Protos /\ g \in SUBSET Flags /\ i \in BOOLEAN
    BY <1>1 DEF States, Protos
  <1>4. r = [Taken EXCEPT !.p.flags = g, !.p.authInfo = i]
    <2>1. CASE f = "auth"
      <3>1. r = [Taken EXCEPT !.p.authInfo = TRUE, !.p.flags = g] /\ i = TRUE
        BY <1>1, <2>1 DEF States, Protos
      <3> HIDE DEF g, i
      <3> QED
        BY <1>1, <3>1 DEF States, Protos
    <2>2. CASE f # "auth"
      <3>1. r = [Taken EXCEPT !.p.flags = g] /\ i = proto.authInfo
        BY <1>1, <2>2 DEF States, Protos
      <3>2. [proto EXCEPT !.flags = g] = [proto EXCEPT !.flags = g, !.authInfo = proto.authInfo]
        <4> HIDE DEF g
        <4> QED
          BY <1>3 DEF Protos
      <3> HIDE DEF g, i
      <3>3. r = [Taken EXCEPT !.p = [proto EXCEPT !.flags = g]]
        BY <1>1, <3>1 DEF States
      <3>4. [Taken EXCEPT !.p.flags = g, !.p.authInfo = i]
              = [Taken EXCEPT !.p = [proto EXCEPT !.flags = g, !.authInfo = i]]
        BY <1>1 DEF States
      <3> QED
        BY <3>1, <3>2, <3>3, <3>4
    <2> QED
      BY <2>1, <2>2
  <1>5. (f = "auth" => i) /\ (f # "auth" => i = proto.authInfo)
    OBVIOUS
  <1> HIDE DEF g, i
  <1>6. r \in States
    BY <1>1, <1>3, <1>4 DEF States, Protos
  <1>7. r.t = net /\ r.m = Tail(mq) /\ r.c = cq /\ r.h = hist
    BY <1>1, <1>4 DEF States
  <1>8. /\ r.p.flags = g /\ r.p.scheme = proto.scheme
        /\ r.p.authInfo = i /\ r.p.transport = proto.transport /\ r.p.made = proto.made
        /\ r.p.fix = proto.fix /\ r.p.syncOn = proto.syncOn /\ r.p.will = proto.will
        /\ r.p.sync = proto.sync
    BY <1>1, <1>4 DEF States, Protos
  <1>9. \A h : Has(r, h) <=> Has(Running, h) /\ h # f
    BY <1>2, <1>8 DEF Has, g
  <1>10. Shape(r, ctx)
    <2>1. \/ r.p.authInfo \/ Has(r, "auth")
          \/ (~Running.p.authInfo /\ ~Has(Running, "auth") /\ Head(mq).k # "auth")
      BY <1>2, <1>5, <1>8, <1>9
    <2> HIDE DEF IndInv
    <2> QED
      BY <1>2, <1>6, <1>7, <1>8, <1>9, <2>1, TakenShape
  <1> QED
    BY <1>7, <1>8, <1>10 DEF g

(* contextDatacenterTransportSchemeUpdated *)
LEMMA SchemeUpdatedKeeps ==
  ASSUME IndInv, SchemeUpdated
  PROVE  IndInv'
  <1>1. mq # <<>> /\ Head(mq).k = "scheme" /\ UNCHANGED <<ctx, work, pings, events>>
    BY DEF SchemeUpdated, Take
  <1>2. CASE Has(Running, "stopped") \/ proto.scheme = Head(mq).p
    <2>1. Done(Taken)
      BY <1>2 DEF SchemeUpdated
    <2>2. /\ Taken \in States
          /\ Taken.p = proto /\ Taken.t = net /\ Taken.m = Tail(mq) /\ Taken.c = cq
          /\ Taken.h = hist
      BY <1>1, TakenIs
    <2>3. /\ Shape(Running, ctx) /\ Running \in States
          /\ Running.p = proto /\ Running.t = net /\ Running.m = mq /\ Running.c = cq
          /\ Running.h = hist
      BY Started
    <2>4. Head(mq).p # 0
      <3>1. Head(mq) \in Waiting(mq)
        BY <1>1, <2>3, TakenFirst DEF States
      <3> QED
        BY <1>1, <2>3, <3>1 DEF Shape, Core, Net, Fits
    <2>5. \A f : Has(Taken, f) <=> Has(Running, f)
      BY <2>2, <2>3 DEF Has
    <2>6. \/ Taken.p.authInfo \/ Has(Taken, "auth")
          \/ (~Running.p.authInfo /\ ~Has(Running, "auth") /\ Head(mq).k # "auth")
      BY <1>1, <2>2, <2>3, <2>5
    <2>7. Has(Taken, "scheme") /\ ~Has(Running, "stopped") => Running.p.scheme # 0
      BY <1>2, <2>3, <2>4
    <2>8. Shape(Taken, ctx)
      BY <1>1, <2>2, <2>3, <2>5, <2>6, <2>7, TakenShape
    <2> QED
      BY <1>1, <2>1, <2>8, TakenKeeps DEF News
  <1>3. CASE ~(Has(Running, "stopped") \/ proto.scheme = Head(mq).p)
    <2> DEFINE s == [Taken EXCEPT !.p.flags = @ \ {"scheme"}]
               e == ResetAndRequest(s)
    <2>1. Done(e)
      BY <1>3 DEF SchemeUpdated
    <2>2. Shape(s, ctx)
      BY <1>1, FlagCleared
    <2> HIDE DEF s
    <2>3. Shape(e, ctx) /\ e.p.will
      BY <2>2, ResetRequested
    <2> HIDE DEF e
    <2> QED
      BY <1>1, <2>1, <2>3, WillKeeps DEF IndInv
  <1> QED
    BY <1>2, <1>3

(* contextDatacenterAuthInfoUpdated *)
LEMMA AuthInfoUpdatedKeeps ==
  ASSUME IndInv, AuthInfoUpdated
  PROVE  IndInv'
  <1> DEFINE s == [Taken EXCEPT !.p.authInfo = TRUE, !.p.flags = @ \ {"auth"}]
             e == IF Has(Running, "auth") THEN ResetAndRequest(s) ELSE s
  <1>1. mq # <<>> /\ Head(mq).k = "auth" /\ UNCHANGED <<ctx, work, pings, events>> /\ Done(e)
    BY DEF AuthInfoUpdated, Take
  <1>2. /\ Shape(s, ctx) /\ s.t = net /\ s.h = hist /\ s.m = Tail(mq)
        /\ s.p.flags = proto.flags \ {"auth"} /\ s.p.will = proto.will /\ s.p.sync = proto.sync
        /\ s.p.transport = proto.transport /\ s.p.fix = proto.fix /\ s.p.syncOn = proto.syncOn
    BY <1>1, FlagCleared
  <1> HIDE DEF s
  <1>3. CASE Has(Running, "auth")
    <2>1. e = ResetAndRequest(s)
      BY <1>3
    <2> HIDE DEF e
    <2>2. Shape(e, ctx) /\ e.p.will
      BY <1>2, <2>1, ResetRequested
    <2> QED
      BY <1>1, <2>2, WillKeeps DEF IndInv
  <1>4. CASE ~Has(Running, "auth")
    <2>1. e = s
      BY <1>4
    <2>2. Looks(Taken, work)
      BY <1>1, TakenLooks DEF News
    <2>3. /\ Taken.p = proto /\ Taken.t = net /\ Taken.m = Tail(mq) /\ Taken.h = hist
      BY <1>1, TakenIs
    <2>4. Running.p = proto
      BY Started
    <2>5. s.p.flags = Taken.p.flags
      BY <1>2, <1>4, <2>3, <2>4 DEF Has
    <2>6. /\ Looking(Taken) => Looking(s)
          /\ TimeDue(Taken) => TimeDue(s)
          /\ SyncDue(Taken) => SyncDue(s)
      BY <1>2, <2>3, DueOn
    <2>7. Looks(s, work')
      BY <1>1, <1>2, <2>2, <2>3, <2>5, <2>6, LooksOn
    <2> QED
      BY <1>1, <1>2, <2>1, <2>7, Ended DEF IndInv
  <1> QED
    BY <1>3, <1>4

(* contextDatacenterAuthTokenUpdated *)
LEMMA AuthTokenUpdatedKeeps ==
  ASSUME IndInv, AuthTokenUpdated
  PROVE  IndInv'
  <1>1. mq # <<>> /\ Head(mq).k = "token" /\ UNCHANGED <<ctx, work, pings, events>>
    BY DEF AuthTokenUpdated, Take
  <1>2. CASE ~(Head(mq).p = 1 /\ Has(Running, "token"))
    <2>1. Done(Taken)
      BY <1>2 DEF AuthTokenUpdated
    <2>2. /\ Taken \in States
          /\ Taken.p = proto /\ Taken.t = net /\ Taken.m = Tail(mq) /\ Taken.c = cq
          /\ Taken.h = hist
      BY <1>1, TakenIs
    <2>3. /\ Shape(Running, ctx)
          /\ Running.p = proto /\ Running.t = net /\ Running.m = mq /\ Running.c = cq
          /\ Running.h = hist
      BY Started
    <2>4. \A f : Has(Taken, f) <=> Has(Running, f)
      BY <2>2, <2>3 DEF Has
    <2>5. \/ Taken.p.authInfo \/ Has(Taken, "auth")
          \/ (~Running.p.authInfo /\ ~Has(Running, "auth") /\ Head(mq).k # "auth")
      BY <1>1, <2>2, <2>3, <2>4
    <2>6. Has(Taken, "token") => Head(mq).p # 1
      BY <1>2, <2>4
    <2>7. Shape(Taken, ctx)
      BY <1>1, <2>2, <2>3, <2>4, <2>5, <2>6, TakenShape
    <2> QED
      BY <1>1, <2>1, <2>7, TakenKeeps DEF News
  <1>3. CASE Head(mq).p = 1 /\ Has(Running, "token")
    <2> DEFINE s == [Taken EXCEPT !.p.flags = @ \ {"token"}]
               e == ResetAndRequest(s)
    <2>1. Done(e)
      BY <1>3 DEF AuthTokenUpdated
    <2>2. Shape(s, ctx)
      BY <1>1, FlagCleared
    <2> HIDE DEF s
    <2>3. Shape(e, ctx) /\ e.p.will
      BY <2>2, ResetRequested
    <2> HIDE DEF e
    <2> QED
      BY <1>1, <2>1, <2>3, WillKeeps DEF IndInv
  <1> QED
    BY <1>2, <1>3

-----------------------------------------------------------------------------
(* The transport asks for something to send. *)

(* The path of a lack of salts is noted or left. *)
Notes(s, b) == [s EXCEPT !.h.unasked = b]

(* It concerns nothing else. *)
LEMMA Noted ==
  ASSUME NEW s, NEW x, Shape(s, x), NEW b \in BOOLEAN, NEW r, r = Notes(s, b)
  PROVE  Shape(r, x) /\ r.p = s.p /\ r.t = s.t /\ r.m = s.m /\ r.c = s.c /\ r.h.unasked = b
  <1>1. s \in States /\ Core(s, x)
    BY DEF Shape, Core
  <1>2. r \in States
    BY <1>1 DEF Notes, States, Histories
  <1>3. r.p = s.p /\ r.t = s.t /\ r.m = s.m /\ r.c = s.c
    BY <1>1 DEF Notes, States
  <1>4. /\ r.h.unasked = b
        /\ r.h.missed = s.h.missed /\ r.h.silent = s.h.silent /\ r.h.late = s.h.late
    BY <1>1 DEF Notes, States, Histories
  <1>5. SameFlags(r, s) /\ Grown(r.m, s.m)
    BY <1>3 DEF SameFlags, Grown
  <1>6. Core(r, x)
    BY <1>1, <1>2, <1>3, <1>4, <1>5, Alike
  <1>7. Quiet(r)
    BY <1>3, StaysQuiet DEF Shape, Has
  <1> QED
    BY <1>3, <1>4, <1>6, <1>7 DEF Shape

(* A message is handed to the transport. *)
Hands(s, o) == [s EXCEPT !.t.out = @ \cup {o}]

(* The transport is one that was connected. *)
LEMMA Handed ==
  ASSUME NEW s, NEW x, Shape(s, x), NEW o \in Payloads, o.n # 0, o.n <= s.p.made,
         s.t.wanted, o.l <= s.t.links, NEW r, r = Hands(s, o)
  PROVE  Shape(r, x) /\ r.p = s.p /\ r.m = s.m /\ r.h = s.h /\ o \in r.t.out
  <1>1. s \in States
    BY DEF Shape, Core
  <1> DEFINE u == s.t.out \cup {o}
  <1>2. u \in SUBSET Payloads
    BY <1>1 DEF States, Nets
  <1>3. r = [s EXCEPT !.t.out = u]
    BY <1>1 DEF Hands, States, Nets
  <1>4. o \in u /\ \A y \in u : y \in s.t.out \/ y = o
    OBVIOUS
  <1> HIDE DEF u
  <1>5. r \in States
    BY <1>1, <1>2, <1>3 DEF States, Nets
  <1>6. r.p = s.p /\ r.m = s.m /\ r.c = s.c /\ r.h = s.h
    BY <1>1, <1>3 DEF States
  <1>7. /\ r.t.link = s.t.link /\ r.t.links = s.t.links /\ r.t.wanted = s.t.wanted
        /\ r.t.out = u /\ r.t.asked = s.t.asked /\ r.t.reporting = s.t.reporting
    BY <1>1, <1>3 DEF States, Nets
  <1>8. Net(r)
    <2>1. Net(s)
      BY DEF Shape, Core
    <2>2. \A b \in Waiting(r.m) : Fits(b, r)
      BY <1>6, <1>7, <2>1 DEF Net, Fits
    <2>3. \A y \in u : /\ y.l <= r.t.links /\ y.n # 0 /\ y.n <= r.p.made
                       /\ y.n = r.p.transport => r.t.wanted
      BY <1>4, <1>6, <1>7, <2>1 DEF Net
    <2> QED
      BY <1>6, <1>7, <2>1, <2>2, <2>3 DEF Net
  <1>9. Answered(r, x) /\ Keys(r, x)
    BY <1>6 DEF Shape, Core, Answered, Keys, Has
  <1>10. Guarded(r)
    BY <1>6, <1>7 DEF Shape, Core, Guarded, Noticed, Links, Has
  <1>11. Quiet(r)
    BY <1>6, <1>7 DEF Shape, Quiet, Has
  <1> QED
    BY <1>4, <1>5, <1>6, <1>7, <1>8, <1>9, <1>10, <1>11 DEF Shape, Core

(* The one that asks is connected, or was. *)
LEMMA AskerWanted ==
  ASSUME IndInv, mq # <<>>, Head(mq).k = "ready", Head(mq).n = proto.transport
  PROVE  /\ proto.transport # 0 /\ proto.transport <= proto.made /\ net.wanted
         /\ net.link <= net.links /\ net.link \in Nat /\ proto.transport \in Nat
  <1>1. /\ Shape(Running, ctx) /\ Running \in States
        /\ Running.p = proto /\ Running.t = net /\ Running.m = mq
    BY Started
  <1>2. Head(mq) \in Waiting(mq)
    BY <1>1, TakenFirst DEF States
  <1>3. Net(Running)
    BY <1>1 DEF Shape, Core
  <1>4. Fits(Head(mq), Running)
    BY <1>1, <1>2, <1>3 DEF Net
  <1>5. net.link \in Nat /\ proto.transport \in Nat
    BY <1>1 DEF States, Nets, Protos
  <1> QED
    BY <1>1, <1>3, <1>4, <1>5 DEF Net, Fits, News

(* The message that Send makes. *)
LEMMA SendHands ==
  ASSUME IndInv, mq # <<>>, Head(mq).k = "ready", Head(mq).n = proto.transport, pings < MaxPings,
         NEW s, Shape(s, ctx), s.p = proto, s.t = net, NEW k \in Sends, NEW r, r = Send(s, k)
  PROVE  /\ Shape(r, ctx) /\ r.p = proto /\ r.h = s.h /\ Sending(r, k)
         /\ pings + 1 \in 0..MaxPings
  <1> DEFINE o == [k |-> k, n |-> proto.transport, l |-> net.link, p |-> pings + 1]
  <1>1. /\ proto.transport # 0 /\ proto.transport <= proto.made /\ net.wanted
        /\ net.link <= net.links /\ net.link \in Nat /\ proto.transport \in Nat
    BY AskerWanted
  <1>2. pings + 1 \in 1..MaxPings /\ pings + 1 \in 0..MaxPings
    BY StateAssumption DEF IndInv
  <1>3. o \in Payloads /\ o.k = k /\ o.n = proto.transport /\ o.l = net.link
    BY <1>1, <1>2 DEF Payloads, Sends
  <1>4. r = Hands(s, o)
    BY DEF Send, Hands
  <1> HIDE DEF o
  <1>5. Shape(r, ctx) /\ r.p = s.p /\ r.m = s.m /\ r.h = s.h /\ o \in r.t.out
    BY <1>1, <1>3, <1>4, Handed
  <1> QED
    BY <1>2, <1>3, <1>5 DEF Sending

(* transportReadyForTransaction with the services *)
LEMMA ReadyForServicesKeeps ==
  ASSUME IndInv, ReadyForServices
  PROVE  IndInv'
  <1> DEFINE asks == proto.sync /\ proto.syncOn.link = 0
             s == [Taken EXCEPT !.h.unasked = FALSE]
             e == IF asks THEN Send(s, "saltsSent") ELSE s
  <1>1. /\ mq # <<>> /\ Head(mq).k = "ready" /\ Head(mq).n = proto.transport
        /\ CanAskForTransactions(Running) /\ Done(e) /\ (asks => pings < MaxPings)
        /\ pings' = IF asks THEN pings + 1 ELSE pings
        /\ work' = FALSE /\ ctx' = ctx /\ events' = events
    BY DEF ReadyForServices, Take, Here
  <1>2. Shape(Taken, ctx)
    BY <1>1, JustTaken
  <1>3. Taken.p = proto /\ Taken.t = net /\ Running.p = proto
    BY <1>1, TakenIs, Started
  <1>4. s = Notes(Taken, FALSE)
    BY DEF Notes
  <1> HIDE DEF s
  <1>5. Shape(s, ctx) /\ s.p = proto /\ s.t = net
    BY <1>2, <1>3, <1>4, Noted
  <1>6. ~Has(s, "time")
    BY <1>1, <1>3, <1>5 DEF CanAskForTransactions, Has
  <1>7. CASE asks
    <2>1. e = Send(s, "saltsSent") /\ pings < MaxPings /\ pings' = pings + 1
      BY <1>1, <1>7
    <2> HIDE DEF e
    <2>2. /\ Shape(e, ctx) /\ e.p = proto /\ Sending(e, "saltsSent") /\ pings + 1 \in 0..MaxPings
      <3>1. "saltsSent" \in Sends
        BY DEF Sends
      <3> QED
        BY <1>1, <1>5, <2>1, <3>1, SendHands
    <2>3. Looks(e, work')
      BY <1>1, <1>5, <1>6, <2>2 DEF Looks, SyncDue, Has
    <2> QED
      BY <1>1, <2>1, <2>2, <2>3, Ended DEF IndInv
  <1>8. CASE ~asks
    <2>1. e = s /\ pings' = pings
      BY <1>1, <1>8
    <2>2. Looks(s, work')
      BY <1>1, <1>5, <1>6, <1>8 DEF Looks, SyncDue
    <2> QED
      BY <1>1, <1>5, <2>1, <2>2, Ended DEF IndInv
  <1> QED
    BY <1>7, <1>8

(* ... without a valid salt *)
LEMMA ReadyWithoutSaltKeeps ==
  ASSUME IndInv, ReadyWithoutSalt
  PROVE  IndInv'
  <1> DEFINE s == [Taken EXCEPT !.h.unasked = proto.sync]
             e == InitiateTimeSync(s)
  <1>1. /\ mq # <<>> /\ Head(mq).k = "ready" /\ Done(e)
        /\ CanAskForTransactions(Running) /\ events' = events + 1 /\ events < MaxEvents
        /\ work' = work /\ ctx' = ctx /\ pings' = pings
    BY DEF ReadyWithoutSalt, Take, Event
  <1>2. Shape(Taken, ctx)
    BY <1>1, JustTaken
  <1>3. Taken.p = proto /\ Taken.t = net /\ Running.p = proto /\ Taken \in States
    BY <1>1, TakenIs, Started
  <1>4. s = Notes(Taken, proto.sync) /\ proto.sync \in BOOLEAN
    BY <1>3 DEF Notes, States, Protos
  <1> HIDE DEF s
  <1>5. Shape(s, ctx) /\ s.p = proto /\ s.h.unasked = proto.sync
    BY <1>2, <1>3, <1>4, Noted
  <1>6. ~Has(s, "time")
    BY <1>1, <1>3, <1>5 DEF CanAskForTransactions, Has
  <1>7. /\ Shape(e, ctx) /\ e.h = s.h /\ Has(e, "time")
        /\ Has(s, "time") \/ s.p.sync \/ e.p.will
    BY <1>5, Initiated
  <1> HIDE DEF e
  <1>8. TimeDue(e)
    BY <1>5, <1>6, <1>7 DEF TimeDue, Looking
  <1>9. Looks(e, work')
    BY <1>7, <1>8 DEF Looks
  <1>10. events' \in 0..MaxEvents
    BY <1>1, StateAssumption DEF IndInv
  <1> QED
    BY <1>1, <1>7, <1>9, <1>10, Ended DEF IndInv

(* ... with the time fix ping only *)
LEMMA ReadyForTimeFixKeeps ==
  ASSUME IndInv, ReadyForTimeFix
  PROVE  IndInv'
  <1> DEFINE s == [Taken EXCEPT !.h.unasked = FALSE]
             e == Send(s, "sent")
  <1>1. /\ mq # <<>> /\ Head(mq).k = "ready" /\ Head(mq).n = proto.transport
        /\ Has(Running, "time") /\ Done(e) /\ pings < MaxPings /\ pings' = pings + 1
        /\ work' = work /\ ctx' = ctx /\ events' = events
    BY DEF ReadyForTimeFix, Take, Here
  <1>2. Shape(Taken, ctx)
    BY <1>1, JustTaken
  <1>3. Taken.p = proto /\ Taken.t = net /\ Running.p = proto
    BY <1>1, TakenIs, Started
  <1>4. s = Notes(Taken, FALSE)
    BY DEF Notes
  <1> HIDE DEF s
  <1>5. Shape(s, ctx) /\ s.p = proto /\ s.t = net
    BY <1>2, <1>3, <1>4, Noted
  <1>6. /\ Shape(e, ctx) /\ e.p = proto /\ Sending(e, "sent") /\ pings + 1 \in 0..MaxPings
    <2>1. "sent" \in Sends
      BY DEF Sends
    <2> QED
      BY <1>1, <1>5, <2>1, SendHands
  <1> HIDE DEF e
  <1>7. Looks(e, work')
    BY <1>1, <1>3, <1>6 DEF Looks, TimeDue, Has
  <1> QED
    BY <1>1, <1>6, <1>7, Ended DEF IndInv

(* ... with nothing *)
LEMMA ReadyForNothingKeeps ==
  ASSUME IndInv, ReadyForNothing
  PROVE  IndInv'
  <1>1. /\ mq # <<>> /\ Head(mq).k = "ready" /\ Done(Taken)
        /\ \/ ~Here \/ ~CanAskForServiceTransactions(Running)
           \/ Has(Running, "time") /\ proto.fix.link # 0
        /\ work' = work /\ ctx' = ctx /\ events' = events /\ pings' = pings
    BY DEF ReadyForNothing, Take
  <1>2. Shape(Taken, ctx)
    BY <1>1, JustTaken
  <1>3. /\ Taken.p = proto /\ Taken.t = net /\ Taken.m = Tail(mq) /\ Taken.h = hist
        /\ Running.p = proto /\ Running.t = net /\ Running.m = mq /\ Running.h = hist
        /\ Running \in States
    BY <1>1, TakenIs, Started
  <1>4. Looks(Taken, work)
    <2>1. CASE ~CanAskForServiceTransactions(Running)
      <3>1. ~CanAskForServiceTransactions(Taken)
        BY <1>3, <2>1 DEF CanAskForServiceTransactions
      <3> QED
        BY <3>1, LooksAnyway
    <2>2. CASE Has(Running, "time") /\ proto.fix.link # 0
      <3>1. Has(Taken, "time") /\ TimeDue(Taken)
        BY <1>3, <2>2 DEF Has, TimeDue
      <3> QED
        BY <3>1 DEF Looks
    <2>3. CASE ~Here /\ CanAskForServiceTransactions(Running)
      <3>1. ~Has(Running, "stopped")
        BY <2>3 DEF CanAskForServiceTransactions, Has
      <3>2. Head(mq).n # proto.transport
        BY <2>3, <3>1 DEF Here
      <3>3. Waiting(mq) = Waiting(Tail(mq)) \cup {Head(mq)}
        BY <1>1, <1>3, TakenFirst DEF States
      <3>4. Looking(Running) => Looking(Taken)
        BY <1>3, <3>2, <3>3 DEF Looking
      <3>5. /\ Sending(Running, "sent") => Sending(Taken, "sent")
            /\ Sending(Running, "saltsSent") => Sending(Taken, "saltsSent")
        BY <1>1, <1>3, <3>3 DEF Sending
      <3>6. (\E b \in Waiting(mq) : b.k = "notSent") => \E b \in Waiting(Tail(mq)) : b.k = "notSent"
        BY <1>1, <3>3
      <3>7. TimeDue(Running) => TimeDue(Taken)
        BY <1>3, <3>4, <3>5, <3>6 DEF TimeDue
      <3>8. SyncDue(Running) => SyncDue(Taken)
        BY <1>3, <3>4, <3>5 DEF SyncDue
      <3>9. Looks(Running, work)
        BY DEF IndInv
      <3> QED
        BY <1>3, <3>4, <3>7, <3>8, <3>9, LooksOn
    <2> QED
      BY <1>1, <2>1, <2>2, <2>3
  <1> QED
    BY <1>1, <1>2, <1>4, Ended DEF IndInv

-----------------------------------------------------------------------------
(* What the transport says of what it was given. *)

(* A completion is heard. *)
Heard(r, b) ==
  /\ r \in States /\ r.m = Tail(mq) /\ r.t = net /\ r.c = cq
  /\ r.h.missed = hist.missed /\ r.h.silent = hist.silent /\ r.h.unasked = hist.unasked
  /\ hist.late => r.h.late
  /\ r.p.flags = proto.flags /\ r.p.scheme = proto.scheme /\ r.p.authInfo = proto.authInfo
  /\ r.p.transport = proto.transport /\ r.p.made = proto.made /\ r.p.will = proto.will
  /\ r.p.sync = proto.sync
HeardFix(r, b) ==
  /\ r.p.fix.link = b.l /\ r.p.syncOn = proto.syncOn
  /\ r.h.late \/ b.n = proto.transport
HeardSync(r, b) ==
  /\ r.p.fix = proto.fix
  /\ \/ ~r.p.sync /\ r.p.syncOn = proto.syncOn
     \/ r.p.syncOn.link = b.l /\ (r.h.late \/ b.n = proto.transport)

(* What was sent is on a link whose end will be reported, and nobody else  *)
(* waited for the completion.                                              *)
LEMMA HeardKeeps ==
  ASSUME IndInv, NEW b, b = Head(mq), mq # <<>>, NEW r, Heard(r, b), Done(r),
         \/ b.k = "sent" /\ HeardFix(r, b)
         \/ b.k = "saltsSent" /\ HeardSync(r, b),
         UNCHANGED <<ctx, work, pings, events>>
  PROVE  IndInv'
  <1>1. /\ Shape(Running, ctx) /\ Running \in States /\ Looks(Running, work)
        /\ Running.p = proto /\ Running.t = net /\ Running.m = mq /\ Running.c = cq
        /\ Running.h = hist
    BY Started
  <1>2. mq \in Seq(Blocks)
    BY <1>1 DEF States
  <1>3. Waiting(mq) = Waiting(Tail(mq)) \cup {b}
    BY <1>2, TakenFirst
  <1>4. b.l # 0
    BY <1>1, <1>3 DEF Shape, Core, Net, Fits, Sends
  <1>5. \A f : Has(r, f) <=> Has(Running, f)
    BY <1>1 DEF Has, Heard
  <1>6. Links(r) = Links(Running)
    BY <1>1 DEF Links, Heard
  <1>7. ~Has(Running, "stopped") /\ (r.h.late \/ b.n = proto.transport) => Noticed(r, b.l)
    <2>1. ASSUME ~Has(Running, "stopped"), b.n = proto.transport PROVE Noticed(r, b.l)
      <3>1. Followed(mq, proto.transport, Links(Running))
        BY <1>1, <2>1 DEF Shape, Core, Guarded
      <3>2. b.l \in Links(Running) \/ \E a \in Waiting(Tail(mq)) : a.k = "failed" /\ a.l = b.l
        BY <1>2, <2>1, <3>1, FollowedTaken DEF Sends
      <3> QED
        BY <1>6, <3>2 DEF Noticed, Heard
    <2> QED
      BY <2>1 DEF Noticed
  <1>8. Shape(r, ctx)
    <2>1. \/ r.p.authInfo \/ Has(r, "auth")
          \/ (~Running.p.authInfo /\ ~Has(Running, "auth") /\ b.k # "auth")
      BY <1>1, <1>5 DEF Heard
    <2>2. r.p.fix.link # 0 /\ ~Has(Running, "stopped") =>
            r.p.fix.link = Running.p.fix.link \/ Noticed(r, r.p.fix.link)
      BY <1>1, <1>7 DEF HeardFix, HeardSync
    <2>3. r.p.syncOn.link # 0 /\ ~Has(Running, "stopped") =>
            r.p.syncOn.link = Running.p.syncOn.link \/ Noticed(r, r.p.syncOn.link)
      BY <1>1, <1>7 DEF HeardFix, HeardSync
    <2>4. /\ r \in States /\ r.m = Tail(mq) /\ r.t = net /\ r.c = cq
          /\ hist.missed => r.h.missed
          /\ hist.silent => r.h.silent
          /\ hist.late => r.h.late
          /\ r.p.scheme = proto.scheme
          /\ r.p.transport = proto.transport /\ r.p.made = proto.made
      BY DEF Heard
    <2>5. b.k \notin {"scheme", "auth", "token", "failed"}
      OBVIOUS
    <2>6. Shape(Running, ctx) /\ Running.m # <<>> /\ b = Head(Running.m)
      BY <1>1
    <2> HIDE DEF IndInv
    <2> QED
      BY <1>1, <1>5, <2>1, <2>2, <2>3, <2>4, <2>5, <2>6, TakenShape
  <1>9. Looks(r, work)
    <2>1. Looking(Running) => Looking(r)
      BY <1>1, <1>3 DEF Looking, Heard
    <2>2. TimeDue(Running) => TimeDue(r)
      <3>1. CASE b.k = "sent"
        BY <1>4, <3>1 DEF TimeDue, HeardFix
      <3>2. CASE b.k = "saltsSent"
        <4>1. Sending(Running, "sent") => Sending(r, "sent")
          BY <1>1, <1>3, <3>2 DEF Sending, Heard
        <4> QED
          BY <1>1, <1>3, <2>1, <3>2, <4>1 DEF TimeDue, Heard, HeardSync
      <3> QED
        BY <3>1, <3>2
    <2>3. r.p.sync /\ SyncDue(Running) => SyncDue(r)
      <3>1. CASE b.k = "saltsSent"
        BY <1>4, <3>1 DEF SyncDue, HeardSync
      <3>2. CASE b.k = "sent"
        <4>1. Sending(Running, "saltsSent") => Sending(r, "saltsSent")
          BY <1>1, <1>3, <3>2 DEF Sending, Heard
        <4> QED
          BY <1>1, <1>3, <2>1, <3>2, <4>1 DEF SyncDue, Heard, HeardFix
      <3> QED
        BY <3>1, <3>2
    <2>4. r.p.flags = Running.p.flags /\ r.p.sync = Running.p.sync
      BY <1>1 DEF Heard
    <2> QED
      BY <1>1, <2>1, <2>2, <2>3, <2>4 DEF Looks, Has, CanAskForServiceTransactions
  <1> QED
    BY <1>8, <1>9, Ended DEF IndInv

(* The completions change nothing but what they are about. *)
Hears(s, fix, on, late) == [s EXCEPT !.p.fix = fix, !.p.syncOn = on, !.h.late = late]

(* The record when a completion was heard. *)
LEMMA HeardIs ==
  ASSUME IndInv, mq # <<>>, NEW b, b = Head(mq), NEW fix \in Pings, NEW on \in Pings,
         NEW late \in BOOLEAN, hist.late => late, NEW r, r = Hears(Taken, fix, on, late)
  PROVE  Heard(r, b) /\ r.p.fix = fix /\ r.p.syncOn = on /\ r.h.late = late
  <1>1. /\ Taken \in States
        /\ Taken.p = proto /\ Taken.t = net /\ Taken.m = Tail(mq) /\ Taken.c = cq /\ Taken.h = hist
    BY TakenIs
  <1>2. r \in States
    BY <1>1 DEF Hears, States, Protos, Histories
  <1>3. r.m = Tail(mq) /\ r.t = net /\ r.c = cq
    BY <1>1 DEF Hears, States
  <1>4. /\ r.h.missed = hist.missed /\ r.h.silent = hist.silent /\ r.h.unasked = hist.unasked
        /\ r.h.late = late
    BY <1>1 DEF Hears, States, Histories
  <1>5. /\ r.p.flags = proto.flags /\ r.p.scheme = proto.scheme /\ r.p.authInfo = proto.authInfo
        /\ r.p.transport = proto.transport /\ r.p.made = proto.made /\ r.p.will = proto.will
        /\ r.p.sync = proto.sync /\ r.p.fix = fix /\ r.p.syncOn = on
    BY <1>1 DEF Hears, States, Protos
  <1> QED
    BY <1>2, <1>3, <1>4, <1>5 DEF Heard

(* The values that a completion brings. *)
LEMMA Reported ==
  ASSUME IndInv, mq # <<>>, NEW b, b = Head(mq), b.k \in Sends
  PROVE  /\ [link |-> b.l, p |-> b.p] \in Pings /\ proto \in Protos
         /\ hist.late \in BOOLEAN /\ (hist.late \/ b.n # proto.transport) \in BOOLEAN
  <1>1. /\ Shape(Running, ctx) /\ Running \in States /\ Running.p = proto /\ Running.m = mq
        /\ Running.h = hist
    BY Started
  <1>2. b \in Blocks /\ b \in Waiting(mq)
    BY <1>1, TakenFirst DEF States
  <1>3. b.p <= MaxPings
    BY <1>1, <1>2 DEF Shape, Core, Net, Fits
  <1>4. b.p \in 0..(MaxPings + 2) /\ b.l \in Nat
    BY <1>2 DEF Blocks
  <1>5. b.p \in 0..MaxPings
    BY <1>3, <1>4, StateAssumption
  <1>6. [link |-> b.l, p |-> b.p] \in Pings
    BY <1>4, <1>5 DEF Pings
  <1>7. hist.late \in BOOLEAN
    BY <1>1 DEF States, Histories
  <1> QED
    BY <1>1, <1>6, <1>7 DEF States

(* The time fix ping is out. *)
LEMMA TimeFixSentKeeps ==
  ASSUME IndInv, TimeFixSent
  PROVE  IndInv'
  <1> DEFINE b == Head(mq)
             fix == [link |-> b.l, p |-> b.p]
             late == hist.late \/ b.n # proto.transport
             r == Hears(Taken, fix, proto.syncOn, late)
             q == [Taken EXCEPT !.p.fix = fix, !.h.late = @ \/ b.n # proto.transport]
  <1>1. /\ mq # <<>> /\ b.k = "sent" /\ UNCHANGED <<ctx, work, pings, events>>
        /\ Done(q)
    BY DEF TimeFixSent, Take
  <1>2. /\ Taken \in States
        /\ Taken.p = proto /\ Taken.t = net /\ Taken.m = Tail(mq) /\ Taken.c = cq /\ Taken.h = hist
    BY <1>1, TakenIs
  <1>3. fix \in Pings /\ proto \in Protos /\ late \in BOOLEAN
    BY <1>1, Reported DEF Sends
  <1>4. q = r
    <2> HIDE DEF fix
    <2> QED
      BY <1>2 DEF Hears, States, Protos, Histories
  <1>5. fix.link = b.l /\ (hist.late => late) /\ (late \/ b.n = proto.transport)
    OBVIOUS
  <1>6. proto.syncOn \in Pings
    BY <1>3 DEF Protos
  <1>7. r = Hears(Taken, fix, proto.syncOn, late) /\ b = Head(mq)
    OBVIOUS
  <1> HIDE DEF fix, late, b, r, q
  <1>8. Heard(r, b) /\ r.p.fix = fix /\ r.p.syncOn = proto.syncOn /\ r.h.late = late
    BY <1>1, <1>3, <1>5, <1>6, <1>7, HeardIs
  <1>9. HeardFix(r, b)
    BY <1>5, <1>8 DEF HeardFix
  <1> QED
    BY <1>1, <1>4, <1>7, <1>8, <1>9, HeardKeeps

(* The question of the sync service is out. *)
LEMMA SaltsRequestSentKeeps ==
  ASSUME IndInv, SaltsRequestSent
  PROVE  IndInv'
  <1> DEFINE b == Head(mq)
             on == [link |-> b.l, p |-> b.p]
             late == hist.late \/ b.n # proto.transport
             q == [Taken EXCEPT !.p.syncOn = on, !.h.late = @ \/ b.n # proto.transport]
             e == IF ~proto.sync THEN Taken ELSE q
  <1>1. /\ mq # <<>> /\ b.k = "saltsSent" /\ UNCHANGED <<ctx, work, pings, events>>
        /\ Done(e)
    BY DEF SaltsRequestSent, Take
  <1>2. /\ Taken \in States
        /\ Taken.p = proto /\ Taken.t = net /\ Taken.m = Tail(mq) /\ Taken.c = cq /\ Taken.h = hist
    BY <1>1, TakenIs
  <1>3. /\ on \in Pings /\ proto \in Protos /\ late \in BOOLEAN
    BY <1>1, Reported DEF Sends
  <1>4. on.link = b.l /\ (hist.late => late) /\ (late \/ b.n = proto.transport)
    OBVIOUS
  <1>5. proto.fix \in Pings
    BY <1>3 DEF Protos
  <1>6. CASE ~proto.sync
    <2>1. e = Taken /\ b = Head(mq)
      BY <1>6
    <2>2. Heard(Taken, b)
      BY <1>2 DEF Heard
    <2>3. HeardSync(Taken, b)
      BY <1>2, <1>6 DEF HeardSync
    <2> HIDE DEF e, b
    <2> QED
      BY <1>1, <2>1, <2>2, <2>3, HeardKeeps
  <1>7. CASE proto.sync
    <2> DEFINE r == Hears(Taken, proto.fix, on, late)
    <2>1. e = r
      <3>1. e = q
        BY <1>7
      <3>2. q = [Taken EXCEPT !.p.syncOn = on, !.h.late = late]
        BY <1>2 DEF States
      <3> HIDE DEF on, late
      <3>3. [proto EXCEPT !.syncOn = on] = [proto EXCEPT !.fix = proto.fix, !.syncOn = on]
        BY <1>3 DEF Protos
      <3>4. q = [Taken EXCEPT !.p = [proto EXCEPT !.syncOn = on], !.h.late = late]
        BY <1>2, <3>2 DEF States
      <3>5. r = [Taken EXCEPT !.p = [proto EXCEPT !.fix = proto.fix, !.syncOn = on], !.h.late = late]
        BY <1>2 DEF Hears, States
      <3> QED
        BY <3>1, <3>3, <3>4, <3>5
    <2>2. r = Hears(Taken, proto.fix, on, late) /\ b = Head(mq)
      OBVIOUS
    <2> HIDE DEF on, late, b, r, e
    <2>3. Heard(r, b) /\ r.p.fix = proto.fix /\ r.p.syncOn = on /\ r.h.late = late
      BY <1>1, <1>3, <1>4, <1>5, <2>2, HeardIs
    <2>4. HeardSync(r, b)
      BY <1>4, <2>3 DEF HeardSync
    <2> QED
      BY <1>1, <2>1, <2>2, <2>3, <2>4, HeardKeeps
  <1> QED
    BY <1>6, <1>7

(* The time fix ping was not sent. *)
LEMMA TimeFixNotSentKeeps ==
  ASSUME IndInv, TimeFixNotSent
  PROVE  IndInv'
  <1> DEFINE e == RequestTransportTransaction(Taken)
  <1>1. /\ mq # <<>> /\ Head(mq).k = "notSent" /\ UNCHANGED <<ctx, work, pings, events>>
        /\ Done(e)
    BY DEF TimeFixNotSent, Take
  <1>2. Shape(Taken, ctx)
    BY <1>1, JustTaken
  <1>3. Shape(e, ctx) /\ e.p.will
    BY <1>2, RequestedShape
  <1> HIDE DEF e
  <1> QED
    BY <1>1, <1>3, WillKeeps DEF IndInv

(* What GiveUp does to any record. *)
LEMMA GiveUpIs ==
  ASSUME NEW s \in States, NEW fix \in Pings, NEW on \in Pings, NEW r, r = GiveUp(s, fix, on)
  PROVE  r \in States /\ Given(r, s, fix, on)
  <1>1. r \in States
    BY DEF GiveUp, States, Protos
  <1>2. r.t = s.t /\ r.m = s.m /\ r.c = s.c /\ r.h = s.h
    BY DEF GiveUp, States
  <1>3. /\ r.p.flags = s.p.flags /\ r.p.scheme = s.p.scheme /\ r.p.role = s.p.role
        /\ r.p.authInfo = s.p.authInfo /\ r.p.transport = s.p.transport /\ r.p.made = s.p.made
        /\ r.p.fix = fix /\ r.p.syncOn = on /\ r.p.sync = s.p.sync /\ r.p.will = s.p.will
    BY DEF GiveUp, States, Protos
  <1> QED
    BY <1>1, <1>2, <1>3 DEF Given

(* transportTransactionsMayHaveFailed: what was sent on the link is given  *)
(* up in the block that takes the report.                                  *)
LEMMA TransactionsMayHaveFailedKeeps ==
  ASSUME IndInv, TransactionsMayHaveFailed
  PROVE  IndInv'
  <1> DEFINE b == Head(mq)
             e == FailedOn(Taken, b.l)
  <1>1. /\ mq # <<>> /\ b.k = "failed" /\ UNCHANGED <<ctx, work, pings, events>> /\ Done(e)
    BY DEF TransactionsMayHaveFailed, Take
  <1>2. /\ Taken \in States
        /\ Taken.p = proto /\ Taken.t = net /\ Taken.m = Tail(mq) /\ Taken.c = cq /\ Taken.h = hist
    BY <1>1, TakenIs
  <1>3. /\ Shape(Running, ctx) /\ Running.p = proto /\ Running.t = net /\ Running.m = mq
        /\ Running.c = cq /\ Running.h = hist
    BY Started
  <1>4. \A f : Has(Taken, f) <=> Has(Running, f)
    BY <1>2, <1>3 DEF Has
  <1>5. Running.m # <<>> /\ b = Head(Running.m)
    BY <1>1, <1>3
  <1>6. CASE Has(Taken, "stopped")
    <2>1. e = Taken
      BY <1>6 DEF FailedOn
    <2>2. \/ Taken.p.authInfo \/ Has(Taken, "auth")
          \/ (~Running.p.authInfo /\ ~Has(Running, "auth") /\ b.k # "auth")
      BY <1>1, <1>2, <1>3, <1>4
    <2> HIDE DEF b, IndInv
    <2>3. Shape(Taken, ctx)
      BY <1>1, <1>2, <1>3, <1>4, <1>5, <1>6, <2>2, TakenShape
    <2>4. b.k \notin News \cup {"notSent"} /\ Done(Taken) /\ b = Head(mq)
      BY <1>1, <2>1 DEF News, b
    <2> QED
      BY <1>1, <2>3, <2>4, TakenKeeps
  <1>7. CASE ~Has(Taken, "stopped")
    <2>1. PICK fix \in Pings, on \in Pings : FailedAs(e, Taken, b.l, fix, on)
      BY <1>2, <1>7, FailedIs
    <2> DEFINE u == GiveUp(Taken, fix, on)
    <2>2. u \in States /\ Given(u, Taken, fix, on)
      BY <1>2, GiveUpIs
    <2>3. /\ fix.link = IF proto.fix.link = b.l THEN 0 ELSE proto.fix.link
          /\ on.link = IF proto.syncOn.link = b.l THEN 0 ELSE proto.syncOn.link
          /\ e = u \/ e = RequestTransportTransaction(u)
          /\ proto.syncOn.link = b.l => e = RequestTransportTransaction(u)
          /\ proto.fix.link = b.l /\ ~Has(Taken, "paused") => e = RequestTransportTransaction(u)
      BY <1>2, <2>1 DEF FailedAs
    <2> HIDE DEF u, e, b
    <2>4. Shape(u, ctx)
      <3>1. \A f : Has(u, f) <=> Has(Running, f)
        BY <1>4, <2>2 DEF Has, Given
      <3>2. /\ u.m = Tail(Running.m) /\ u.t = Running.t /\ u.c = Running.c /\ u.h = Running.h
            /\ u.p.transport = Running.p.transport /\ u.p.made = Running.p.made
            /\ u.p.scheme = Running.p.scheme /\ u.p.authInfo = Running.p.authInfo
        BY <1>2, <1>3, <2>2 DEF Given
      <3>3. \/ u.p.authInfo \/ Has(u, "auth")
            \/ (~Running.p.authInfo /\ ~Has(Running, "auth") /\ b.k # "auth")
        BY <1>1, <3>1, <3>2
      <3>4. u.p.fix.link # 0 => u.p.fix.link = Running.p.fix.link /\ b.l # Running.p.fix.link
        BY <1>3, <2>2, <2>3 DEF Given
      <3>5. u.p.syncOn.link # 0 =>
              u.p.syncOn.link = Running.p.syncOn.link /\ b.l # Running.p.syncOn.link
        BY <1>3, <2>2, <2>3 DEF Given
      <3> HIDE DEF IndInv
      <3> QED
        BY <1>1, <1>3, <1>5, <2>2, <3>1, <3>2, <3>3, <3>4, <3>5, TakenShape
    <2>5. CASE e = RequestTransportTransaction(u)
      <3>1. Shape(e, ctx) /\ e.p.will
        BY <2>4, <2>5, RequestedShape
      <3> QED
        BY <1>1, <3>1, WillKeeps DEF IndInv
    <2>6. CASE e = u /\ e # RequestTransportTransaction(u)
      <3>1. CASE Has(Taken, "paused")
        <4>1. Has(u, "paused")
          BY <2>2, <3>1 DEF Given, Has
        <4>2. Looks(u, work')
          BY <4>1, LooksAnyway
        <4> QED
          BY <1>1, <2>4, <2>6, <4>2, Ended DEF IndInv
      <3>2. CASE ~Has(Taken, "paused")
        <4>1. u.p.fix.link = proto.fix.link /\ u.p.syncOn.link = proto.syncOn.link
          BY <2>2, <2>3, <2>6, <3>2 DEF Given
        <4>2. Looks(Taken, work)
          BY <1>1, TakenLooks DEF News, b
        <4>3. /\ u.p.transport = Taken.p.transport /\ u.p.will = Taken.p.will /\ u.t = Taken.t
              /\ u.h = Taken.h /\ u.m = Taken.m /\ u.p.flags = Taken.p.flags
              /\ u.p.sync = Taken.p.sync
          BY <2>2 DEF Given
        <4>4. /\ Looking(Taken) => Looking(u)
              /\ TimeDue(Taken) => TimeDue(u)
              /\ SyncDue(Taken) => SyncDue(u)
          BY <1>2, <4>1, <4>3, DueOn
        <4>5. Looks(u, work)
          BY <4>2, <4>3, <4>4, LooksOn
        <4> QED
          BY <1>1, <2>4, <2>6, <4>5, Ended DEF IndInv
      <3> QED
        BY <3>1, <3>2
    <2> QED
      BY <2>3, <2>5, <2>6
  <1> QED
    BY <1>6, <1>7

-----------------------------------------------------------------------------
(* What the server says. *)

(* An answer ends a time fix, a question, or the sync service. *)
LEMMA Forgotten ==
  ASSUME NEW s, NEW x, Shape(s, x), NEW r,
         \/ r = [s EXCEPT !.p.fix = None]
         \/ r = [s EXCEPT !.p.syncOn = None]
         \/ r = [s EXCEPT !.p.sync = FALSE]
  PROVE  Shape(r, x) /\ r.p.flags = s.p.flags
  <1>1. s \in States
    BY DEF Shape, Core
  <1>2. s.p.fix \in Pings /\ s.p.syncOn \in Pings /\ s.p.sync \in BOOLEAN /\ s.p \in Protos
    BY <1>1 DEF States, Protos
  <1>3. PICK b \in BOOLEAN, fix \in {None, s.p.fix}, on \in {None, s.p.syncOn} :
          r = Retime(s, s.p.flags, b, fix, on)
    <2>1. CASE r = [s EXCEPT !.p.fix = None]
      <3>1. r = Retime(s, s.p.flags, s.p.sync, None, s.p.syncOn)
        BY <1>1, <1>2, <2>1 DEF Retime, States, Protos
      <3> QED
        BY <1>2, <3>1
    <2>2. CASE r = [s EXCEPT !.p.syncOn = None]
      <3>1. r = Retime(s, s.p.flags, s.p.sync, s.p.fix, None)
        BY <1>1, <1>2, <2>2 DEF Retime, States, Protos
      <3> QED
        BY <1>2, <3>1
    <2>3. CASE r = [s EXCEPT !.p.sync = FALSE]
      <3>1. r = Retime(s, s.p.flags, FALSE, s.p.fix, s.p.syncOn)
        BY <1>1, <1>2, <2>3 DEF Retime, States, Protos
      <3> QED
        BY <3>1
    <2> QED
      BY <2>1, <2>2, <2>3
  <1>4. /\ fix \in Pings /\ on \in Pings
        /\ fix.link \in {0, s.p.fix.link} /\ on.link \in {0, s.p.syncOn.link}
    BY <1>2, NoneIsPing
  <1>5. Shape(r, x) /\ Retimes(r, s, s.p.flags, b)
    BY <1>3, <1>4, Retimed
  <1> QED
    BY <1>5 DEF Retimes

(* A pong *)
LEMMA PongKeeps ==
  ASSUME IndInv, Pong
  PROVE  IndInv'
  <1> DEFINE f == [Taken EXCEPT !.p.fix = None]
             s == CompleteTimeSync(f)
             e == RequestIf(CanAskForServiceTransactions(s), s)
  <1>1. /\ mq # <<>> /\ Head(mq).k = "pong" /\ UNCHANGED <<ctx, work, pings, events>>
        /\ Done(e) \/ Done(Taken)
    BY DEF Pong, Take
  <1>2. Shape(Taken, ctx)
    BY <1>1, JustTaken
  <1>3. CASE Done(Taken)
    BY <1>1, <1>2, <1>3, TakenKeeps DEF News
  <1>4. CASE Done(e)
    <2>1. Shape(f, ctx)
      BY <1>2, Forgotten
    <2> HIDE DEF f
    <2>2. Shape(s, ctx)
      BY <2>1, Completed
    <2> HIDE DEF s
    <2>3. Shape(e, ctx) /\ (e.p.will \/ ~CanAskForServiceTransactions(e))
      BY <2>2, AskedAtEnd
    <2> HIDE DEF e
    <2> QED
      BY <1>1, <1>4, <2>3, WillKeeps DEF IndInv
  <1> QED
    BY <1>1, <1>3, <1>4

(* bad_msg_notification and bad_server_salt *)
LEMMA BadMessageKeeps ==
  ASSUME IndInv, BadMessage
  PROVE  IndInv'
  <1> DEFINE p == Head(mq).p
             mine == p # 0 /\ proto.fix.p = p
             asked == p # 0 /\ proto.syncOn.p = p
             g == [Taken EXCEPT !.p.syncOn = IF asked THEN None ELSE @]
             i == InitiateTimeSync(g)
             f == [Taken EXCEPT !.p.fix = None]
             d == CompleteTimeSync(f)
             s == IF mine THEN TimeSyncInfoChanged(d) ELSE RequestIf(asked, i)
             e == RequestIf(CanAskForServiceTransactions(s), s)
  <1>1. /\ mq # <<>> /\ Head(mq).k = "bad" /\ UNCHANGED <<ctx, work, pings, events>>
        /\ Done(e) \/ Done(Taken)
    BY DEF BadMessage, Take
  <1>2. Shape(Taken, ctx) /\ Taken \in States
    BY <1>1, JustTaken, TakenIs
  <1>3. CASE Done(Taken)
    BY <1>1, <1>2, <1>3, TakenKeeps DEF News
  <1>4. CASE Done(e)
    <2>1. Shape(s, ctx)
      <3>1. CASE mine
        <4>1. s = TimeSyncInfoChanged(d)
          BY <3>1
        <4> HIDE DEF s, mine
        <4>2. Shape(f, ctx)
          BY <1>2, Forgotten
        <4> HIDE DEF f
        <4>3. Shape(d, ctx)
          BY <4>2, Completed
        <4> HIDE DEF d
        <4> QED
          BY <4>1, <4>3, SaltsChanged
      <3>2. CASE ~mine
        <4>1. s = RequestIf(asked, i)
          BY <3>2
        <4> HIDE DEF s, mine
        <4>2. Shape(g, ctx)
          <5>1. CASE asked
            <6>1. g = [Taken EXCEPT !.p.syncOn = None]
              BY <5>1
            <6> HIDE DEF g, asked
            <6> QED
              BY <1>2, <6>1, Forgotten
          <5>2. CASE ~asked
            <6>1. g = [Taken EXCEPT !.p.syncOn = @]
              BY <5>2
            <6> HIDE DEF g, asked
            <6>2. g = Taken
              BY <1>2, <6>1 DEF States, Protos
            <6> QED
              BY <1>2, <6>2
          <5> QED
            BY <5>1, <5>2
        <4> HIDE DEF g
        <4>3. Shape(i, ctx)
          BY <4>2, Initiated
        <4>4. s = i \/ s = RequestTransportTransaction(i)
          BY <4>1 DEF RequestIf
        <4> HIDE DEF i
        <4> QED
          BY <4>3, <4>4, RequestedIf
      <3> QED
        BY <3>1, <3>2
    <2> HIDE DEF s
    <2>2. Shape(e, ctx) /\ (e.p.will \/ ~CanAskForServiceTransactions(e))
      BY <2>1, AskedAtEnd
    <2> HIDE DEF e
    <2> QED
      BY <1>1, <1>4, <2>2, WillKeeps DEF IndInv
  <1> QED
    BY <1>1, <1>3, <1>4

(* bad_msg_notification 32 or 33 *)
LEMMA BadSequenceKeeps ==
  ASSUME IndInv, BadSequence
  PROVE  IndInv'
  <1> DEFINE f == ResetSessionInfo(Taken)
             s == InitiateTimeSync(f)
             e == RequestIf(CanAskForServiceTransactions(s), s)
  <1>1. /\ mq # <<>> /\ Head(mq).k = "seq" /\ UNCHANGED <<ctx, work, pings, events>>
        /\ Done(e) \/ Done(Taken)
    BY DEF BadSequence, Take
  <1>2. Shape(Taken, ctx)
    BY <1>1, JustTaken
  <1>3. CASE Done(Taken)
    BY <1>1, <1>2, <1>3, TakenKeeps DEF News
  <1>4. CASE Done(e)
    <2>1. Shape(f, ctx)
      BY <1>2, SessionReset
    <2> HIDE DEF f
    <2>2. Shape(s, ctx)
      BY <2>1, Initiated
    <2> HIDE DEF s
    <2>3. Shape(e, ctx) /\ (e.p.will \/ ~CanAskForServiceTransactions(e))
      BY <2>2, AskedAtEnd
    <2> HIDE DEF e
    <2> QED
      BY <1>1, <1>4, <2>3, WillKeeps DEF IndInv
  <1> QED
    BY <1>1, <1>3, <1>4

(* future_salts *)
LEMMA FutureSaltsKeeps ==
  ASSUME IndInv, FutureSalts
  PROVE  IndInv'
  <1> DEFINE s == [Taken EXCEPT !.p.syncOn = None]
             c == CompleteTimeSync(s)
             d == [c EXCEPT !.p.sync = FALSE]
             e == TimeSyncInfoChanged(d)
             r == RequestTransportTransaction(s)
  <1>1. /\ mq # <<>> /\ Head(mq).k = "futureSalts" /\ UNCHANGED <<ctx, work, pings, events>>
        /\ Done(e) \/ Done(r) \/ Done(Taken)
    BY DEF FutureSalts, Take
  <1>2. Shape(Taken, ctx)
    BY <1>1, JustTaken
  <1>3. Shape(s, ctx)
    BY <1>2, Forgotten
  <1> HIDE DEF s
  <1>4. CASE Done(Taken)
    BY <1>1, <1>2, <1>4, TakenKeeps DEF News
  <1>5. CASE Done(r)
    <2>1. Shape(r, ctx) /\ r.p.will
      BY <1>3, RequestedShape
    <2> HIDE DEF r
    <2> QED
      BY <1>1, <1>5, <2>1, WillKeeps DEF IndInv
  <1>6. CASE Done(e)
    <2>1. Shape(c, ctx)
      BY <1>3, Completed
    <2> HIDE DEF c
    <2>2. Shape(d, ctx)
      BY <2>1, Forgotten
    <2> HIDE DEF d
    <2>3. Shape(e, ctx) /\ (e.p.will \/ ~CanAskForServiceTransactions(e))
      BY <2>2, SaltsChanged
    <2> HIDE DEF e
    <2> QED
      BY <1>1, <1>6, <2>3, WillKeeps DEF IndInv
  <1> QED
    BY <1>1, <1>4, <1>5, <1>6

(* new_session_created *)
LEMMA ServerChangedSessionKeeps ==
  ASSUME IndInv, ServerChangedSession
  PROVE  IndInv'
  <1>1. /\ mq # <<>> /\ Head(mq).k = "newSession" /\ UNCHANGED <<ctx, work, pings, events>>
        /\ Done(Taken)
    BY DEF ServerChangedSession, Take
  <1>2. Shape(Taken, ctx)
    BY <1>1, JustTaken
  <1> QED
    BY <1>1, <1>2, TakenKeeps DEF News

(* handleMissingKey forgets the key and asks for another. *)
Unkeyed(s, b) ==
  [s EXCEPT !.p.authInfo = FALSE, !.p.flags = @ \cup {"auth"}, !.c = Append(@, "auth"),
            !.h.silent = b]

(* The flag waits for an answer, or is known to be forgotten. *)
LEMMA KeyForgotten ==
  ASSUME NEW s, NEW x, Shape(s, x), NEW b \in BOOLEAN, s.h.silent \/ x.auth => b,
         NEW r, r = Unkeyed(s, b)
  PROVE  Shape(r, x) /\ Has(r, "auth")
  <1>1. s \in States /\ x \in Contexts
    BY DEF Shape, Core
  <1> DEFINE g == s.p.flags \cup {"auth"}
             c == Append(s.c, "auth")
  <1>2. s.p \in Protos /\ s.c \in Seq(Demands) /\ "auth" \in Demands /\ "auth" \in Flags
    BY <1>1 DEF States, Awaiting, Demands, Flags
  <1>3. c \in Seq(Demands) /\ Waiting(c) = Waiting(s.c) \cup {"auth"}
    BY <1>2, Posted
  <1>4. g \in SUBSET Flags
    BY <1>2 DEF Protos
  <1>5. \A h : h \in g <=> h \in s.p.flags \/ h = "auth"
    OBVIOUS
  <1> DEFINE p == [s.p EXCEPT !.authInfo = FALSE, !.flags = g]
             h == [s.h EXCEPT !.silent = b]
  <1>6. r = [s EXCEPT !.p = p, !.c = c, !.h = h]
    BY <1>1 DEF Unkeyed, States
  <1> HIDE DEF c, g
  <1>7. /\ p \in Protos /\ p.flags = g /\ p.scheme = s.p.scheme
        /\ p.transport = s.p.transport /\ p.made = s.p.made
        /\ p.fix = s.p.fix /\ p.syncOn = s.p.syncOn
    BY <1>2, <1>4 DEF Protos
  <1>8. h \in Histories /\ h.silent = b /\ h.missed = s.h.missed /\ h.late = s.h.late
    BY <1>1 DEF States, Histories
  <1> HIDE DEF p, h
  <1>9. r \in States
    BY <1>1, <1>3, <1>6, <1>7, <1>8 DEF States
  <1>10. r.p = p /\ r.t = s.t /\ r.m = s.m /\ r.c = c /\ r.h = h
    BY <1>1, <1>6 DEF States
  <1>11. \A f : Has(r, f) <=> Has(s, f) \/ f = "auth"
    BY <1>5, <1>7, <1>10 DEF Has
  <1>12. Net(r)
    BY <1>7, <1>10 DEF Shape, Core, Net, Fits
  <1>13. Answered(r, x)
    <2>1. Answered(s, x)
      BY DEF Shape, Core
    <2> QED
      BY <1>3, <1>7, <1>8, <1>10, <1>11, <2>1 DEF Answered
  <1>14. Keys(r, x)
    BY <1>7, <1>10, <1>11 DEF Shape, Core, Keys
  <1>15. Guarded(r)
    BY <1>7, <1>8, <1>10, <1>11 DEF Shape, Core, Guarded, Noticed, Links
  <1>16. Quiet(r)
    BY <1>7, <1>10, <1>11 DEF Shape, Quiet
  <1> QED
    BY <1>1, <1>9, <1>11, <1>12, <1>13, <1>14, <1>15, <1>16 DEF Shape, Core

(* The connection is closed, and will report it. *)
LEMMA Closed ==
  ASSUME NEW s, NEW x, Shape(s, x), NEW r, r = Closing(s)
  PROVE  Shape(r, x) /\ r.p = s.p
  <1>1. CASE s.t.link = 0
    BY <1>1 DEF Closing
  <1>2. CASE s.t.link # 0
    <2> DEFINE w == s.t.reporting \cup {s.t.link}
    <2>1. s \in States /\ s.t \in Nets
      BY DEF Shape, Core, States
    <2>2. w \in SUBSET Nat /\ \A l : l \in w <=> l \in s.t.reporting \/ l = s.t.link
      BY <2>1 DEF Nets
    <2> DEFINE u == [s.t EXCEPT !.reporting = w, !.link = 0, !.asked = {}]
    <2>3. r = [s EXCEPT !.t = u]
      BY <1>2, <2>1 DEF Closing, States
    <2> HIDE DEF w
    <2>4. /\ u \in Nets /\ u.link = 0 /\ u.links = s.t.links /\ u.wanted = s.t.wanted
          /\ u.out = s.t.out /\ u.asked = {} /\ u.reporting = w
      BY <2>1, <2>2 DEF Nets
    <2> HIDE DEF u
    <2>5. r \in States /\ r.p = s.p /\ r.t = u /\ r.m = s.m /\ r.c = s.c /\ r.h = s.h
      BY <2>1, <2>3, <2>4 DEF States
    <2>6. /\ r.t.link = 0 /\ r.t.links = s.t.links /\ r.t.wanted = s.t.wanted
          /\ r.t.out = s.t.out /\ r.t.asked = {} /\ r.t.reporting = w
      BY <2>4, <2>5
    <2>7. Links(s) \subseteq Links(r)
      BY <2>2, <2>6 DEF Links
    <2>8. Net(r)
      <3>1. Net(s)
        BY DEF Shape, Core
      <3>2. r.t.link <= r.t.links /\ r.p.transport <= r.p.made
        BY <2>1, <2>5, <2>6, <3>1 DEF Net, Nets
      <3>3. \A l \in r.t.reporting : l # 0 /\ l <= r.t.links
        BY <1>2, <2>2, <2>6, <3>1 DEF Net
      <3>4. \A b \in Waiting(r.m) : Fits(b, r)
        BY <2>5, <2>6, <3>1 DEF Net, Fits
      <3> QED
        BY <2>5, <2>6, <3>1, <3>2, <3>3, <3>4 DEF Net
    <2>9. Answered(r, x) /\ Keys(r, x)
      BY <2>5 DEF Shape, Core, Answered, Keys, Has
    <2>10. Guarded(r)
      <3>1. Guarded(s)
        BY DEF Shape, Core
      <3>2. \A l : Noticed(s, l) => Noticed(r, l)
        BY <2>5, <2>7 DEF Noticed
      <3>3. \A n : Followed(s.m, n, Links(s)) => Followed(r.m, n, Links(r))
        BY <2>5, <2>7, FollowedMore
      <3> QED
        BY <2>5, <3>1, <3>2, <3>3 DEF Guarded, Has
    <2>11. Quiet(r)
      BY <2>5, <2>6 DEF Shape, Quiet, Has
    <2> QED
      BY <2>5, <2>8, <2>9, <2>10, <2>11 DEF Shape, Core
  <1> QED
    BY <1>1, <1>2

(* The error -404 on a CDN connection *)
LEMMA MissingKeyKeeps ==
  ASSUME IndInv, MissingKey
  PROVE  IndInv'
  <1> DEFINE f == FailedOn(Taken, net.link)
             b == f.h.silent \/ ctx.auth
             u == Unkeyed(f, b)
             e == Closing(u)
  <1>1. Shape(Taken, ctx)
    BY JustTaken DEF MissingKey, Take
  <1>2. Core(f, ctx) /\ Kept(f, Taken)
    BY <1>1, FailedThere DEF Shape
  <1>3. f \in States /\ ctx \in Contexts
    BY <1>2 DEF Core
  <1>4. /\ mq # <<>> /\ Head(mq).k = "missing" /\ UNCHANGED <<ctx, work, pings, events>>
        /\ Done(e) \/ Done(Taken)
    <2>1. u = [f EXCEPT !.p.authInfo = FALSE, !.p.flags = @ \cup {"auth"},
                        !.c = Append(@, "auth"), !.h.silent = @ \/ ctx.auth]
      <3> HIDE DEF f
      <3> QED
        BY <1>3 DEF Unkeyed, States, Histories
    <2> QED
      BY <2>1 DEF MissingKey, Take
  <1>5. CASE Done(Taken)
    BY <1>1, <1>4, <1>5, TakenKeeps DEF News
  <1>6. CASE Done(e)
    <2> HIDE DEF f
    <2>1. Shape(f, ctx)
      <3>1. Quiet(f)
        BY <1>1, <1>2, StaysQuiet DEF Shape, Kept, Has
      <3> QED
        BY <1>2, <3>1 DEF Shape
    <2>2. b \in BOOLEAN /\ (f.h.silent \/ ctx.auth => b)
      BY <1>3 DEF States, Histories, Contexts
    <2> HIDE DEF b
    <2>3. Shape(u, ctx) /\ Has(u, "auth")
      BY <2>1, <2>2, KeyForgotten
    <2> HIDE DEF u
    <2>4. Shape(e, ctx) /\ e.p = u.p
      BY <2>3, Closed
    <2> HIDE DEF e
    <2>5. ~CanAskForServiceTransactions(e)
      BY <2>3, <2>4 DEF CanAskForServiceTransactions, Has, Awaiting
    <2> QED
      BY <1>4, <1>6, <2>4, <2>5, WillKeeps DEF IndInv
  <1> QED
    BY <1>4, <1>5, <1>6

-----------------------------------------------------------------------------
(* What the application calls. *)

(* A disturbance is counted. *)
LEMMA EventCounted ==
  ASSUME IndInv, NEW k, Event(k)
  PROVE  events' \in 0..MaxEvents
  BY StateAssumption DEF IndInv, Event

(* pause, resume and stop change their flag before anything else. *)
Marks(s, g) == [s EXCEPT !.p.flags = g]

(* The flags that wait for something stay. *)
LEMMA Marked ==
  ASSUME NEW s, NEW x, Core(s, x), NEW g,
         \/ g = s.p.flags \cup {"paused"} \/ g = s.p.flags \ {"paused"}
         \/ g = s.p.flags \cup {"stopped"},
         NEW r, r = Marks(s, g)
  PROVE  Core(r, x) /\ r.p.flags = g /\ r.t = s.t /\ r.p.transport = s.p.transport
  <1>1. s \in States /\ x \in Contexts
    BY DEF Core
  <1>2. /\ g \in SUBSET Flags /\ (\A a \in Awaiting : a \in g <=> a \in s.p.flags)
        /\ "stopped" \in s.p.flags => "stopped" \in g
    <2>1. /\ s.p.flags \in SUBSET Flags /\ "paused" \in Flags /\ "stopped" \in Flags
          /\ "paused" \notin Awaiting /\ "stopped" \notin Awaiting
      BY <1>1 DEF States, Protos, Flags, Awaiting
    <2> QED
      BY <2>1
  <1>3. r \in States
    BY <1>1, <1>2 DEF Marks, States, Protos
  <1>4. r.t = s.t /\ r.m = s.m /\ r.c = s.c /\ r.h = s.h
    BY <1>1 DEF Marks, States
  <1>5. /\ r.p.flags = g /\ r.p.scheme = s.p.scheme /\ r.p.authInfo = s.p.authInfo
        /\ r.p.transport = s.p.transport /\ r.p.made = s.p.made
        /\ r.p.fix = s.p.fix /\ r.p.syncOn = s.p.syncOn
    BY <1>1 DEF Marks, States, Protos
  <1>6. /\ Has(r, "scheme") <=> Has(s, "scheme")
        /\ Has(r, "auth") <=> Has(s, "auth")
        /\ Has(r, "token") <=> Has(s, "token")
        /\ Has(s, "stopped") => Has(r, "stopped")
    BY <1>2, <1>5 DEF Has, Awaiting
  <1>7. Net(r)
    BY <1>4, <1>5 DEF Core, Net, Fits
  <1>8. Answered(r, x)
    BY <1>4, <1>5, <1>6 DEF Core, Answered
  <1>9. Keys(r, x)
    BY <1>4, <1>5, <1>6 DEF Core, Keys
  <1>10. Guarded(r)
    BY <1>4, <1>5, <1>6 DEF Core, Guarded, Noticed, Links
  <1> QED
    BY <1>1, <1>3, <1>4, <1>5, <1>7, <1>8, <1>9, <1>10 DEF Core

(* addRequest *)
LEMMA AddWorkKeeps ==
  ASSUME IndInv, AddWork
  PROVE  IndInv'
  <1> DEFINE e == RequestTransportTransaction(Running)
  <1>1. /\ work' = TRUE /\ Done(e) /\ UNCHANGED <<ctx, pings>> /\ events' \in 0..MaxEvents
    BY EventCounted DEF AddWork
  <1>2. Shape(e, ctx) /\ e.p.will
    BY Started, RequestedShape
  <1> HIDE DEF e
  <1> QED
    BY <1>1, <1>2, WillKeeps

(* pause *)
LEMMA PauseKeeps ==
  ASSUME IndInv, Pause
  PROVE  IndInv'
  <1> DEFINE g == Running.p.flags \cup {"paused"}
             s == [Running EXCEPT !.p.flags = g]
             e == SetTransport(s, 0, TRUE)
  <1>1. Core(Running, ctx) /\ Running \in States
    BY Started DEF Shape
  <1>2. /\ Done(e) /\ UNCHANGED <<ctx, work, pings>> /\ events' \in 0..MaxEvents
    <2>1. s = [Running EXCEPT !.p.flags = @ \cup {"paused"}]
      BY <1>1 DEF States
    <2> QED
      BY <2>1, EventCounted DEF Pause
  <1>3. Core(s, ctx) /\ s.p.flags = g
    <2>1. s = Marks(Running, g)
      BY DEF Marks
    <2>2. g = Running.p.flags \cup {"paused"}
      OBVIOUS
    <2> HIDE DEF s, g
    <2> QED
      BY <1>1, <2>1, <2>2, Marked
  <1> HIDE DEF s
  <1>4. Shape(e, ctx) /\ MovedOn(e, s, 0)
    BY <1>3, TransportDropped
  <1> HIDE DEF e
  <1>5. Has(e, "paused")
    BY <1>3, <1>4 DEF MovedOn, Has
  <1>6. Looks(e, work')
    BY <1>5, LooksAnyway
  <1> QED
    BY <1>2, <1>4, <1>6, Ended DEF IndInv

(* resume *)
LEMMA ResumeKeeps ==
  ASSUME IndInv, Resume
  PROVE  IndInv'
  <1> DEFINE g == Running.p.flags \ {"paused"}
             s == [Running EXCEPT !.p.flags = g]
             e == ResetAndRequest(s)
  <1>1. Core(Running, ctx) /\ Running \in States /\ Quiet(Running)
    BY Started DEF Shape
  <1>2. /\ Done(e) /\ UNCHANGED <<ctx, work, pings, events>>
    <2>1. s = [Running EXCEPT !.p.flags = @ \ {"paused"}]
      BY <1>1 DEF States
    <2> QED
      BY <2>1 DEF Resume
  <1>3. Core(s, ctx) /\ s.p.flags = g /\ s.t = Running.t /\ s.p.transport = Running.p.transport
    <2>1. s = Marks(Running, g)
      BY DEF Marks
    <2>2. g = Running.p.flags \ {"paused"}
      OBVIOUS
    <2> HIDE DEF s, g
    <2> QED
      BY <1>1, <2>1, <2>2, Marked
  <1> HIDE DEF s
  <1>4. Shape(s, ctx)
    BY <1>1, <1>3, StaysQuiet DEF Shape, Has
  <1>5. Shape(e, ctx) /\ e.p.will
    BY <1>4, ResetRequested
  <1> HIDE DEF e
  <1> QED
    BY <1>2, <1>5, WillKeeps DEF IndInv

(* stop *)
LEMMA StopKeeps ==
  ASSUME IndInv, Stop
  PROVE  IndInv'
  <1> DEFINE g == Running.p.flags \cup {"stopped"}
             s == [Running EXCEPT !.p.flags = g]
             d == SetTransport(s, 0, FALSE)
             e == IF proto.transport = 0 THEN s ELSE d
  <1>1. Core(Running, ctx) /\ Running \in States /\ Quiet(Running) /\ Running.p = proto
    BY Started DEF Shape
  <1>2. /\ Done(e) /\ UNCHANGED <<ctx, work, pings>> /\ events' \in 0..MaxEvents
    <2>1. s = [Running EXCEPT !.p.flags = @ \cup {"stopped"}]
      BY <1>1 DEF States
    <2> QED
      BY <2>1, EventCounted DEF Stop
  <1>3. Core(s, ctx) /\ s.p.flags = g /\ s.t = Running.t /\ s.p.transport = Running.p.transport
    <2>1. s = Marks(Running, g)
      BY DEF Marks
    <2>2. g = Running.p.flags \cup {"stopped"}
      OBVIOUS
    <2> HIDE DEF s, g
    <2> QED
      BY <1>1, <2>1, <2>2, Marked
  <1>4. Has(s, "stopped") /\ (Has(s, "paused") => Has(Running, "paused"))
    <2> HIDE DEF s
    <2> QED
      BY <1>3 DEF Has
  <1> HIDE DEF s
  <1>5. Shape(e, ctx) /\ e.p.flags = s.p.flags
    <2>1. CASE proto.transport = 0
      <3>1. Quiet(s)
        BY <1>1, <1>3, <1>4, <2>1 DEF Quiet
      <3> QED
        BY <1>3, <2>1, <3>1 DEF Shape
    <2>2. CASE proto.transport # 0
      <3>1. Shape(d, ctx) /\ MovedOn(d, s, 0)
        BY <1>3, TransportDropped
      <3> QED
        BY <2>2, <3>1 DEF MovedOn
    <2> QED
      BY <2>1, <2>2
  <1> HIDE DEF e
  <1>6. ~CanAskForServiceTransactions(e)
    BY <1>4, <1>5 DEF CanAskForServiceTransactions, Has
  <1> QED
    BY <1>2, <1>5, <1>6, WillKeeps DEF IndInv

(* A reset of the session *)
LEMMA SessionKeeps ==
  ASSUME IndInv, Session
  PROVE  IndInv'
  <1> DEFINE e == ResetSessionInfo(Running)
  <1>1. /\ Done(e) /\ UNCHANGED <<ctx, work, pings>> /\ events' \in 0..MaxEvents
    BY EventCounted DEF Session
  <1>2. Shape(e, ctx) /\ e.p.will
    BY Started, SessionReset
  <1> HIDE DEF e
  <1> QED
    BY <1>1, <1>2, WillKeeps DEF IndInv

(* contextApiEnvironmentUpdated *)
LEMMA ApiEnvironmentUpdatedKeeps ==
  ASSUME IndInv, ApiEnvironmentUpdated
  PROVE  IndInv'
  <1> DEFINE e == ResetAndRequest(Running)
  <1>1. /\ Done(e) /\ UNCHANGED <<ctx, work, pings>> /\ events' \in 0..MaxEvents
    BY EventCounted DEF ApiEnvironmentUpdated
  <1>2. Shape(e, ctx) /\ e.p.will
    BY Started, ResetRequested
  <1> HIDE DEF e
  <1> QED
    BY <1>1, <1>2, WillKeeps DEF IndInv

(* requestTimeResync *)
LEMMA ResyncKeeps ==
  ASSUME IndInv, Resync
  PROVE  IndInv'
  <1> DEFINE e == RequestTimeResync(Running)
  <1>1. /\ Done(e) /\ UNCHANGED <<ctx, work, pings>> /\ events' \in 0..MaxEvents
    BY EventCounted DEF Resync
  <1>2. Shape(e, ctx) /\ (Running.p.sync \/ e.p.will)
    BY Started, Resynced
  <1>3. CASE Running.p.sync
    <2>1. e = Running
      BY <1>3 DEF RequestTimeResync
    <2>2. Looks(e, work')
      BY <1>1, <2>1, Started
    <2> HIDE DEF e
    <2> QED
      BY <1>1, <1>2, <2>2, Ended DEF IndInv
  <1>4. CASE ~Running.p.sync
    <2> HIDE DEF e
    <2> QED
      BY <1>1, <1>2, <1>4, WillKeeps DEF IndInv
  <1> QED
    BY <1>3, <1>4

-----------------------------------------------------------------------------
(* MTContext. *)

(* The context changes, posts at most one notification and never loses a   *)
(* key.                                                                    *)
LEMMA ContextMoved ==
  ASSUME IndInv, ContextUnchanged, Grown(mq', mq), cq' \in Seq(Demands), ctx' \in Contexts,
         ctx.auth => ctx'.auth,
         ctx'.auth => ctx.auth \/ \E b \in Waiting(mq') : b.k = "auth",
         Answered(Running', ctx'), events' \in 0..MaxEvents
  PROVE  IndInv'
  <1> DEFINE s == Running
             r == Running'
  <1>1. /\ Shape(s, ctx) /\ s \in States /\ Looks(s, work)
        /\ s.p = proto /\ s.t = net /\ s.m = mq /\ s.c = cq /\ s.h = hist
    BY Started
  <1>2. /\ r.p = proto /\ r.t = net /\ r.m = mq' /\ r.c = cq' /\ r.h = hist
        /\ r = [p |-> proto, t |-> net, m |-> mq', c |-> cq', h |-> hist]
    BY DEF Running, ContextUnchanged
  <1>3. work' = work /\ pings' = pings
    BY DEF ContextUnchanged
  <1>4. mq \in Seq(Blocks)
    BY <1>1 DEF States
  <1>5. /\ mq' \in Seq(Blocks) /\ Waiting(mq) \subseteq Waiting(mq')
        /\ \A b \in Waiting(mq') :
             b \in Waiting(mq) \/ (b.k \notin News /\ (b.k = "scheme" => b.p # 0))
        /\ \A n : KeyFirst(mq, n) => KeyFirst(mq', n)
        /\ \A n, ls : Followed(mq, n, ls) => Followed(mq', n, ls)
    BY <1>4, GrownFacts
  <1>6. Answered(r, ctx')
    OBVIOUS
  <1> HIDE DEF s, r
  <1>7. r \in States
    BY <1>1, <1>2, <1>5 DEF States
  <1>8. Net(r)
    <2>1. Net(s)
      BY <1>1 DEF Shape, Core
    <2>2. \A b \in Waiting(r.m) : Fits(b, r)
      BY <1>1, <1>2, <1>5, <2>1 DEF Net, Fits, News, Sends
    <2> QED
      BY <1>1, <1>2, <2>1, <2>2 DEF Net
  <1>9. Keys(r, ctx')
    BY <1>1, <1>2, <1>5 DEF Shape, Core, Keys, Has
  <1>10. Guarded(r)
    <2>1. Guarded(s)
      BY <1>1 DEF Shape, Core
    <2>2. Links(r) = Links(s)
      BY <1>1, <1>2 DEF Links
    <2>3. \A l : Noticed(s, l) => Noticed(r, l)
      BY <1>1, <1>2, <1>5, <2>2 DEF Noticed
    <2> QED
      BY <1>1, <1>2, <1>5, <2>1, <2>2, <2>3 DEF Guarded, Has
  <1>11. Quiet(r)
    BY <1>1, <1>2 DEF Shape, Quiet, Has
  <1>12. Shape(r, ctx')
    BY <1>6, <1>7, <1>8, <1>9, <1>10, <1>11 DEF Shape, Core
  <1>13. /\ Looking(s) => Looking(r)
         /\ TimeDue(s) => TimeDue(r)
         /\ SyncDue(s) => SyncDue(r)
    <2>1. \A b \in Waiting(s.m) : b.k \in News \cup {"notSent"} => b \in Waiting(r.m)
      BY <1>1, <1>2, <1>5
    <2> QED
      BY <1>1, <1>2, <2>1, DueOn
  <1>14. Looks(r, work)
    BY <1>1, <1>2, <1>13, LooksOn
  <1>15. Shape(Running', ctx') /\ Looks(Running', work')
    BY <1>3, <1>12, <1>14 DEF r
  <1> QED
    BY <1>3, <1>15 DEF IndInv

(* A notification is posted. *)
LEMMA Notified ==
  ASSUME IndInv, NEW k, NEW p, Notify(k, p), k \in {"scheme", "auth", "token"},
         p \in 0..2, k = "scheme" => p # 0
  PROVE  /\ Grown(mq', mq) /\ Waiting(mq') = Waiting(mq) \cup {Block(k, 0, 0, p)}
         /\ Block(k, 0, 0, p).k = k /\ Block(k, 0, 0, p).p = p
  <1> DEFINE b == Block(k, 0, 0, p)
  <1>1. b \in Blocks /\ b.k = k /\ b.p = p
    BY StateAssumption DEF Block, Blocks, Kinds
  <1>2. mq \in Seq(Blocks)
    BY Started DEF States
  <1>3. mq' = Append(mq, b)
    BY DEF Notify
  <1> HIDE DEF b
  <1>4. Grown(mq', mq)
    BY <1>1, <1>3 DEF Grown, News
  <1>5. Waiting(mq') = Waiting(mq) \cup {b}
    BY <1>1, <1>2, <1>3, Posted
  <1> QED
    BY <1>1, <1>4, <1>5 DEF b

(* The values when the context changes. *)
LEMMA ContextIs ==
  ASSUME IndInv, ContextUnchanged
  PROVE  /\ ctx \in Contexts /\ cq \in Seq(Demands) /\ Answered(Running, ctx)
         /\ Running.p = proto /\ Running.m = mq /\ Running.c = cq /\ Running.h = hist
         /\ Running'.p = proto /\ Running'.m = mq' /\ Running'.c = cq' /\ Running'.h = hist
         /\ events \in 0..MaxEvents /\ Grown(mq, mq)
  <1>1. /\ Shape(Running, ctx) /\ Running \in States
        /\ Running.p = proto /\ Running.m = mq /\ Running.c = cq /\ Running.h = hist
    BY Started
  <1>2. Running'.p = proto /\ Running'.m = mq' /\ Running'.c = cq' /\ Running'.h = hist
    BY DEF Running, ContextUnchanged
  <1>3. ctx \in Contexts /\ cq \in Seq(Demands) /\ Answered(Running, ctx)
    BY <1>1 DEF Shape, Core, States
  <1> QED
    BY <1>1, <1>2, <1>3 DEF IndInv, Grown

(* What is asked of the context reaches it. *)
LEMMA Demanded ==
  ASSUME NEW q \in Seq(Demands), q # <<>>
  PROVE  Tail(q) \in Seq(Demands) /\ Waiting(q) = Waiting(Tail(q)) \cup {Head(q)}
  BY TakenFirst

(* updateTransportScheme, for a scheme found *)
LEMMA SchemeFoundKeeps ==
  ASSUME IndInv, SchemeFound
  PROVE  IndInv'
  <1>1. ContextUnchanged /\ cq' = cq /\ events' = events
    BY DEF SchemeFound
  <1>2. /\ ctx \in Contexts /\ cq \in Seq(Demands) /\ Answered(Running, ctx)
        /\ Running.p = proto /\ Running.m = mq /\ Running.c = cq /\ Running.h = hist
        /\ Running'.p = proto /\ Running'.m = mq' /\ Running'.c = cq' /\ Running'.h = hist
        /\ events \in 0..MaxEvents /\ Grown(mq, mq)
    BY <1>1, ContextIs
  <1>3. ctx' = [ctx EXCEPT !.scheme = 1, !.discovering = FALSE]
    BY DEF SchemeFound
  <1>4. /\ ctx' \in Contexts /\ ctx'.auth = ctx.auth
        /\ ctx'.authAction = ctx.authAction /\ ctx'.tokenAction = ctx.tokenAction
    <2>1. 1 \in 0..2 /\ FALSE \in BOOLEAN
      OBVIOUS
    <2>2. ctx' \in Contexts
      BY <1>2, <1>3, <2>1 DEF Contexts
    <2>3. /\ ctx'.auth = ctx.auth
          /\ ctx'.authAction = ctx.authAction /\ ctx'.tokenAction = ctx.tokenAction
      BY <1>2, <1>3 DEF Contexts
    <2> QED
      BY <2>2, <2>3
  <1>5. /\ Grown(mq', mq) /\ Waiting(mq) \subseteq Waiting(mq')
        /\ ctx.scheme = 0 => \E b \in Waiting(mq') : b.k = "scheme"
    <2>1. CASE ctx.scheme = 0
      <3>1. Notify("scheme", 1)
        BY <2>1 DEF SchemeFound
      <3>2. /\ Grown(mq', mq) /\ Waiting(mq') = Waiting(mq) \cup {Block("scheme", 0, 0, 1)}
            /\ Block("scheme", 0, 0, 1).k = "scheme"
        BY <3>1, Notified
      <3> QED
        BY <3>2
    <2>2. CASE ctx.scheme # 0
      <3>1. mq' = mq
        BY <2>2 DEF SchemeFound
      <3> QED
        BY <1>2, <2>2, <3>1
    <2> QED
      BY <2>1, <2>2
  <1>6. Answered(Running', ctx')
    <2> HIDE DEF IndInv
    <2> QED
      BY <1>1, <1>2, <1>4, <1>5 DEF Answered, Has
  <1> QED
    BY <1>1, <1>2, <1>4, <1>5, <1>6, ContextMoved

(* ... or another address *)
LEMMA SchemeReplacedKeeps ==
  ASSUME IndInv, SchemeReplaced
  PROVE  IndInv'
  <1>1. ContextUnchanged /\ cq' = cq /\ events' \in 0..MaxEvents /\ ctx.scheme # 0
    BY EventCounted DEF SchemeReplaced
  <1>2. /\ ctx \in Contexts /\ cq \in Seq(Demands) /\ Answered(Running, ctx)
        /\ Running.p = proto /\ Running.m = mq /\ Running.c = cq /\ Running.h = hist
        /\ Running'.p = proto /\ Running'.m = mq' /\ Running'.c = cq' /\ Running'.h = hist
    BY <1>1, ContextIs
  <1>3. ctx' = [ctx EXCEPT !.scheme = 3 - ctx.scheme] /\ Notify("scheme", 3 - ctx.scheme)
    BY <1>2 DEF SchemeReplaced, Contexts
  <1>4. 3 - ctx.scheme \in 0..2 /\ 3 - ctx.scheme # 0
    BY <1>1, <1>2 DEF Contexts
  <1> DEFINE k == 3 - ctx.scheme
  <1> HIDE DEF k
  <1>5. ctx' = [ctx EXCEPT !.scheme = k] /\ Notify("scheme", k) /\ k \in 0..2 /\ k # 0
    BY <1>3, <1>4 DEF k
  <1>6. /\ ctx' \in Contexts /\ ctx'.auth = ctx.auth
        /\ ctx'.authAction = ctx.authAction /\ ctx'.tokenAction = ctx.tokenAction
    BY <1>2, <1>5 DEF Contexts
  <1>7. /\ Grown(mq', mq) /\ Waiting(mq') = Waiting(mq) \cup {Block("scheme", 0, 0, k)}
    BY <1>5, Notified
  <1>8. Answered(Running', ctx')
    <2> HIDE DEF IndInv
    <2> QED
      BY <1>1, <1>2, <1>6, <1>7 DEF Answered, Has
  <1> QED
    BY <1>1, <1>2, <1>6, <1>7, <1>8, ContextMoved

(* transportSchemeForDatacenterWithIdRequired *)
LEMMA SchemeRequiredKeeps ==
  ASSUME IndInv, SchemeRequired
  PROVE  IndInv'
  <1>1. /\ ContextUnchanged /\ mq' = mq /\ events' = events
        /\ cq # <<>> /\ Head(cq) = "scheme" /\ cq' = Tail(cq)
        /\ ctx' = [ctx EXCEPT !.discovering = TRUE]
    BY DEF SchemeRequired
  <1>2. /\ ctx \in Contexts /\ cq \in Seq(Demands) /\ Answered(Running, ctx)
        /\ Running.p = proto /\ Running.m = mq /\ Running.c = cq /\ Running.h = hist
        /\ Running'.p = proto /\ Running'.m = mq' /\ Running'.c = cq' /\ Running'.h = hist
        /\ events \in 0..MaxEvents /\ Grown(mq, mq)
    BY <1>1, ContextIs
  <1>3. /\ ctx' \in Contexts /\ ctx'.auth = ctx.auth /\ ctx'.scheme = ctx.scheme
        /\ ctx'.discovering
        /\ ctx'.authAction = ctx.authAction /\ ctx'.tokenAction = ctx.tokenAction
    BY <1>1, <1>2 DEF Contexts
  <1>4. cq' \in Seq(Demands) /\ Waiting(cq) = Waiting(cq') \cup {"scheme"}
    BY <1>1, <1>2, Demanded
  <1>5. Answered(Running', ctx')
    <2> HIDE DEF IndInv
    <2> QED
      BY <1>1, <1>2, <1>3, <1>4 DEF Answered, Has
  <1> QED
    BY <1>1, <1>2, <1>3, <1>4, <1>5, ContextMoved

(* authTokenForDatacenterWithIdRequired *)
LEMMA TokenRequiredKeeps ==
  ASSUME IndInv, TokenRequired
  PROVE  IndInv'
  <1>1. /\ ContextUnchanged /\ mq' = mq /\ events' = events
        /\ cq # <<>> /\ Head(cq) = "token" /\ cq' = Tail(cq)
        /\ ctx' = [ctx EXCEPT !.tokenAction = TRUE]
    BY DEF TokenRequired
  <1>2. /\ ctx \in Contexts /\ cq \in Seq(Demands) /\ Answered(Running, ctx)
        /\ Running.p = proto /\ Running.m = mq /\ Running.c = cq /\ Running.h = hist
        /\ Running'.p = proto /\ Running'.m = mq' /\ Running'.c = cq' /\ Running'.h = hist
        /\ events \in 0..MaxEvents /\ Grown(mq, mq)
    BY <1>1, ContextIs
  <1>3. /\ ctx' \in Contexts /\ ctx'.auth = ctx.auth /\ ctx'.scheme = ctx.scheme
        /\ ctx'.discovering = ctx.discovering
        /\ ctx'.authAction = ctx.authAction /\ ctx'.tokenAction
    BY <1>1, <1>2 DEF Contexts
  <1>4. cq' \in Seq(Demands) /\ Waiting(cq) = Waiting(cq') \cup {"token"}
    BY <1>1, <1>2, Demanded
  <1>5. Answered(Running', ctx')
    <2> HIDE DEF IndInv
    <2> QED
      BY <1>1, <1>2, <1>3, <1>4 DEF Answered, Has
  <1> QED
    BY <1>1, <1>2, <1>3, <1>4, <1>5, ContextMoved

(* authInfoForDatacenterWithIdRequired *)
LEMMA AuthRequiredKeeps ==
  ASSUME IndInv, AuthRequired
  PROVE  IndInv'
  <1> DEFINE a == ~ctx.auth
  <1>1. /\ ContextUnchanged /\ mq' = mq /\ events' = events
        /\ cq # <<>> /\ Head(cq) = "auth" /\ cq' = Tail(cq)
        /\ ctx' = [ctx EXCEPT !.authAction = a]
    BY DEF AuthRequired
  <1>2. /\ ctx \in Contexts /\ cq \in Seq(Demands) /\ Answered(Running, ctx)
        /\ Running.p = proto /\ Running.m = mq /\ Running.c = cq /\ Running.h = hist
        /\ Running'.p = proto /\ Running'.m = mq' /\ Running'.c = cq' /\ Running'.h = hist
        /\ events \in 0..MaxEvents /\ Grown(mq, mq)
    BY <1>1, ContextIs
  <1>3. a \in BOOLEAN /\ (~ctx.auth => a)
    OBVIOUS
  <1> HIDE DEF a
  <1>4. /\ ctx' \in Contexts /\ ctx'.auth = ctx.auth /\ ctx'.scheme = ctx.scheme
        /\ ctx'.discovering = ctx.discovering
        /\ ctx'.authAction = a /\ ctx'.tokenAction = ctx.tokenAction
    BY <1>1, <1>2, <1>3 DEF Contexts
  <1>5. cq' \in Seq(Demands) /\ Waiting(cq) = Waiting(cq') \cup {"auth"}
    BY <1>1, <1>2, Demanded
  <1>6. Answered(Running', ctx')
    <2> HIDE DEF IndInv
    <2> QED
      BY <1>1, <1>2, <1>3, <1>4, <1>5 DEF Answered, Has
  <1> QED
    BY <1>1, <1>2, <1>4, <1>5, <1>6, ContextMoved

(* updateAuthInfo *)
LEMMA AuthCompletedKeeps ==
  ASSUME IndInv, AuthCompleted
  PROVE  IndInv'
  <1>1. /\ ContextUnchanged /\ cq' = cq /\ events' = events /\ Notify("auth", 0)
        /\ ctx' = [ctx EXCEPT !.auth = TRUE, !.authAction = FALSE]
    BY DEF AuthCompleted
  <1>2. /\ ctx \in Contexts /\ cq \in Seq(Demands) /\ Answered(Running, ctx)
        /\ Running.p = proto /\ Running.m = mq /\ Running.c = cq /\ Running.h = hist
        /\ Running'.p = proto /\ Running'.m = mq' /\ Running'.c = cq' /\ Running'.h = hist
        /\ events \in 0..MaxEvents
    BY <1>1, ContextIs
  <1>3. /\ ctx' \in Contexts /\ ctx'.auth /\ ctx'.scheme = ctx.scheme
        /\ ctx'.discovering = ctx.discovering /\ ctx'.tokenAction = ctx.tokenAction
    BY <1>1, <1>2 DEF Contexts
  <1>4. /\ Grown(mq', mq) /\ Waiting(mq) \subseteq Waiting(mq')
        /\ \E b \in Waiting(mq') : b.k = "auth"
    <2>1. /\ Grown(mq', mq) /\ Waiting(mq') = Waiting(mq) \cup {Block("auth", 0, 0, 0)}
          /\ Block("auth", 0, 0, 0).k = "auth"
      BY <1>1, Notified
    <2> QED
      BY <2>1
  <1>5. Answered(Running', ctx')
    <2> HIDE DEF IndInv
    <2> QED
      BY <1>1, <1>2, <1>3, <1>4 DEF Answered, Has
  <1> QED
    BY <1>1, <1>2, <1>3, <1>4, <1>5, ContextMoved

(* ... with new salts *)
LEMMA SaltsStoredKeeps ==
  ASSUME IndInv, SaltsStored
  PROVE  IndInv'
  <1>1. /\ ContextUnchanged /\ ctx' = ctx /\ events' = events /\ Notify("auth", 0)
        /\ cq # <<>> /\ Head(cq) = "salts" /\ cq' = Tail(cq)
    BY DEF SaltsStored
  <1>2. /\ ctx \in Contexts /\ cq \in Seq(Demands) /\ Answered(Running, ctx)
        /\ Running.p = proto /\ Running.m = mq /\ Running.c = cq /\ Running.h = hist
        /\ Running'.p = proto /\ Running'.m = mq' /\ Running'.c = cq' /\ Running'.h = hist
        /\ events \in 0..MaxEvents
    BY <1>1, ContextIs
  <1>3. /\ Grown(mq', mq) /\ Waiting(mq) \subseteq Waiting(mq')
        /\ \E b \in Waiting(mq') : b.k = "auth"
    <2>1. /\ Grown(mq', mq) /\ Waiting(mq') = Waiting(mq) \cup {Block("auth", 0, 0, 0)}
          /\ Block("auth", 0, 0, 0).k = "auth"
      BY <1>1, Notified
    <2> QED
      BY <2>1
  <1>4. cq' \in Seq(Demands) /\ Waiting(cq) = Waiting(cq') \cup {"salts"}
    BY <1>1, <1>2, Demanded
  <1>5. Answered(Running', ctx')
    <2> HIDE DEF IndInv
    <2> QED
      BY <1>1, <1>2, <1>3, <1>4 DEF Answered, Has
  <1> QED
    BY <1>1, <1>2, <1>3, <1>4, <1>5, ContextMoved

(* updateAuthToken *)
LEMMA TokenCompletedKeeps ==
  ASSUME IndInv, TokenCompleted
  PROVE  IndInv'
  <1>1. /\ ContextUnchanged /\ cq' = cq /\ events' = events /\ Notify("token", 1)
        /\ ctx' = [ctx EXCEPT !.token = TRUE, !.tokenAction = FALSE]
    BY DEF TokenCompleted
  <1>2. /\ ctx \in Contexts /\ cq \in Seq(Demands) /\ Answered(Running, ctx)
        /\ Running.p = proto /\ Running.m = mq /\ Running.c = cq /\ Running.h = hist
        /\ Running'.p = proto /\ Running'.m = mq' /\ Running'.c = cq' /\ Running'.h = hist
        /\ events \in 0..MaxEvents
    BY <1>1, ContextIs
  <1>3. /\ ctx' \in Contexts /\ ctx'.auth = ctx.auth /\ ctx'.scheme = ctx.scheme
        /\ ctx'.discovering = ctx.discovering /\ ctx'.authAction = ctx.authAction
    BY <1>1, <1>2 DEF Contexts
  <1>4. /\ Grown(mq', mq) /\ Waiting(mq) \subseteq Waiting(mq')
        /\ \E b \in Waiting(mq') : b.k = "token" /\ b.p = 1
    <2>1. /\ Grown(mq', mq) /\ Waiting(mq') = Waiting(mq) \cup {Block("token", 0, 0, 1)}
          /\ Block("token", 0, 0, 1).k = "token" /\ Block("token", 0, 0, 1).p = 1
      BY <1>1, Notified
    <2> QED
      BY <2>1
  <1>5. Answered(Running', ctx')
    <2> HIDE DEF IndInv
    <2> QED
      BY <1>1, <1>2, <1>3, <1>4 DEF Answered, Has
  <1> QED
    BY <1>1, <1>2, <1>3, <1>4, <1>5, ContextMoved

(* requestMessageServiceAuthorizationRequired *)
LEMMA TokenLostKeeps ==
  ASSUME IndInv, TokenLost
  PROVE  IndInv'
  <1>1. /\ ContextUnchanged /\ cq' = Append(cq, "token") /\ events' \in 0..MaxEvents
        /\ Notify("token", 0) /\ ctx' = [ctx EXCEPT !.token = FALSE]
    BY EventCounted DEF TokenLost
  <1>2. /\ ctx \in Contexts /\ cq \in Seq(Demands) /\ Answered(Running, ctx)
        /\ Running.p = proto /\ Running.m = mq /\ Running.c = cq /\ Running.h = hist
        /\ Running'.p = proto /\ Running'.m = mq' /\ Running'.c = cq' /\ Running'.h = hist
    BY <1>1, ContextIs
  <1>3. /\ ctx' \in Contexts /\ ctx'.auth = ctx.auth /\ ctx'.scheme = ctx.scheme
        /\ ctx'.discovering = ctx.discovering /\ ctx'.authAction = ctx.authAction
        /\ ctx'.tokenAction = ctx.tokenAction
    BY <1>1, <1>2 DEF Contexts
  <1>4. /\ Grown(mq', mq) /\ Waiting(mq) \subseteq Waiting(mq')
    <2>1. /\ Grown(mq', mq) /\ Waiting(mq') = Waiting(mq) \cup {Block("token", 0, 0, 0)}
      BY <1>1, Notified
    <2> QED
      BY <2>1
  <1>5. cq' \in Seq(Demands) /\ Waiting(cq') = Waiting(cq) \cup {"token"}
    BY <1>1, <1>2, Posted DEF Demands
  <1>6. Answered(Running', ctx')
    <2> HIDE DEF IndInv
    <2> QED
      BY <1>1, <1>2, <1>3, <1>4, <1>5 DEF Answered, Has
  <1> QED
    BY <1>1, <1>2, <1>3, <1>4, <1>5, <1>6, ContextMoved

-----------------------------------------------------------------------------
(* The transport and the server. *)

(* No message was sent on no link. *)
LEMMA FollowedSome ==
  ASSUME NEW q, NEW n, NEW ls, Followed(q, n, ls), \A b \in Waiting(q) : b.k \in Sends => b.l # 0
  PROVE  Followed(q, n, ls \ {0})
  BY DEF Followed, Waiting

(* The part of Net that is about the connections. *)
Wires(t) ==
  /\ t.link <= t.links
  /\ t.link # 0 => proto.transport # 0 /\ t.wanted
  /\ \A l \in t.reporting : l # 0 /\ l <= t.links
  /\ \A a \in t.asked : a.l # 0 /\ a.l <= t.links
  /\ \A o \in t.out : /\ o.l <= t.links /\ o.n # 0 /\ o.n <= proto.made
                      /\ o.n = proto.transport => t.wanted

(* What is due before a step of the transport is due after it. *)
StillDue ==
  /\ Looking(Running) => Looking(Running')
  /\ \/ Sending(Running, "sent") => Sending(Running', "sent")
     \/ Looking(Running') \/ \E b \in Waiting(mq') : b.k = "notSent"
  /\ \/ Sending(Running, "saltsSent") => Sending(Running', "saltsSent")
     \/ Looking(Running')

(* The connections change and something may be posted. *)
LEMMA NetMoved ==
  ASSUME IndInv, NetUnchanged, events' \in 0..MaxEvents,
         net' \in Nets, net'.wanted = net.wanted, Wires(net'),
         mq' \in Seq(Blocks), Waiting(mq) \subseteq Waiting(mq'),
         \A b \in Waiting(mq') : b \in Waiting(mq) \/ Fits(b, Running),
         KeyFirst(mq, proto.transport)
           /\ (proto.transport # 0 => \E b \in Waiting(mq) : b.k = "auth") =>
             KeyFirst(mq', proto.transport),
         \A l \in Links(Running) : \/ l = 0 \/ l \in Links(Running')
                                   \/ \E b \in Waiting(mq') : b.k = "failed" /\ b.l = l,
         Followed(mq, proto.transport, Links(Running)) =>
           Followed(mq', proto.transport, Links(Running')),
         StillDue
  PROVE  IndInv'
  <1> DEFINE s == Running
             r == Running'
  <1>1. /\ Shape(s, ctx) /\ s \in States /\ Looks(s, work)
        /\ s.p = proto /\ s.t = net /\ s.m = mq /\ s.c = cq /\ s.h = hist
    BY Started
  <1>2. /\ r.p = proto /\ r.t = net' /\ r.m = mq' /\ r.c = cq /\ r.h = hist
        /\ r = [p |-> proto, t |-> net', m |-> mq', c |-> cq, h |-> hist]
    BY DEF Running, NetUnchanged
  <1>3. work' = work /\ pings' = pings /\ ctx' = ctx
    BY DEF NetUnchanged
  <1>4. /\ Looking(s) => Looking(r)
        /\ \/ Sending(s, "sent") => Sending(r, "sent")
           \/ Looking(r) \/ \E b \in Waiting(mq') : b.k = "notSent"
        /\ (Sending(s, "saltsSent") => Sending(r, "saltsSent")) \/ Looking(r)
    BY DEF StillDue
  <1>5. /\ \A l \in Links(s) : \/ l = 0 \/ l \in Links(r)
                               \/ \E b \in Waiting(mq') : b.k = "failed" /\ b.l = l
        /\ Followed(mq, proto.transport, Links(s)) => Followed(mq', proto.transport, Links(r))
        /\ \A b \in Waiting(mq') : b \in Waiting(mq) \/ Fits(b, s)
    OBVIOUS
  <1> HIDE DEF s, r
  <1>6. r \in States
    BY <1>1, <1>2 DEF States
  <1>7. Net(r)
    <2>1. Net(s)
      BY <1>1 DEF Shape, Core
    <2>2. \A b \in Waiting(r.m) : Fits(b, r)
      BY <1>1, <1>2, <1>5, <2>1 DEF Net, Fits
    <2> QED
      BY <1>1, <1>2, <2>1, <2>2 DEF Net, Wires
  <1>8. Answered(r, ctx)
    BY <1>1, <1>2 DEF Shape, Core, Answered, Has
  <1>9. Keys(r, ctx)
    BY <1>1, <1>2 DEF Shape, Core, Keys, Has
  <1>10. Guarded(r)
    <2>1. Guarded(s)
      BY <1>1 DEF Shape, Core
    <2>2. \A l : Noticed(s, l) /\ l # 0 => Noticed(r, l)
      BY <1>1, <1>2, <1>5 DEF Noticed
    <2> QED
      BY <1>1, <1>2, <1>5, <2>1, <2>2 DEF Guarded, Has
  <1>11. Quiet(r)
    BY <1>1, <1>2 DEF Shape, Quiet, Has, Wires
  <1>12. Shape(r, ctx)
    BY <1>1, <1>6, <1>7, <1>8, <1>9, <1>10, <1>11 DEF Shape, Core
  <1>13. TimeDue(s) => TimeDue(r)
    BY <1>1, <1>2, <1>4 DEF TimeDue
  <1>14. SyncDue(s) => SyncDue(r)
    BY <1>1, <1>2, <1>4 DEF SyncDue
  <1>15. Looks(r, work)
    BY <1>1, <1>2, <1>4, <1>13, <1>14, LooksOn
  <1>16. Shape(Running', ctx') /\ Looks(Running', work')
    BY <1>3, <1>12, <1>15 DEF r
  <1> QED
    BY <1>3, <1>16 DEF IndInv

(* Something is posted. *)
LEMMA Said ==
  ASSUME IndInv, NetUnchanged, events' \in 0..MaxEvents,
         net' \in Nets, net'.wanted = net.wanted, Wires(net'),
         NEW b \in Blocks, mq' = Append(mq, b), Fits(b, Running),
         \A l \in Links(Running) : l = 0 \/ l \in Links(Running') \/ (b.k = "failed" /\ b.l = l),
         b.k \in Sends /\ b.n = proto.transport => b.l \in Links(Running'),
         StillDue
  PROVE  IndInv'
  <1>1. /\ Shape(Running, ctx) /\ Running \in States /\ Running.p = proto /\ Running.t = net
        /\ Running.m = mq
    BY Started
  <1>2. mq \in Seq(Blocks)
    BY <1>1 DEF States
  <1>3. mq' \in Seq(Blocks) /\ Waiting(mq') = Waiting(mq) \cup {b}
    BY <1>2, Posted
  <1>4. KeyFirst(mq, proto.transport)
          /\ (proto.transport # 0 => \E a \in Waiting(mq) : a.k = "auth") =>
            KeyFirst(mq', proto.transport)
    <2>1. b.k = "ready" => b.n # 0
      BY DEF Fits, News
    <2> QED
      BY <1>2, <2>1, KeyPosted
  <1>5. Followed(mq, proto.transport, Links(Running)) =>
          Followed(mq', proto.transport, Links(Running'))
    <2> DEFINE ls == Links(Running)
               ms == Links(Running')
    <2>1. \A a \in Waiting(mq) : a.k \in Sends => a.l # 0
      BY <1>1 DEF Shape, Core, Net, Fits
    <2>2. \A l \in ls \ {0} : l \in ms \/ (b.k = "failed" /\ b.l = l)
      OBVIOUS
    <2>3. b.k \in Sends /\ b.n = proto.transport => b.l \in ms
      OBVIOUS
    <2> HIDE DEF ls, ms
    <2>4. ASSUME Followed(mq, proto.transport, ls)
          PROVE  Followed(mq', proto.transport, ms)
      <3>1. Followed(mq, proto.transport, ls \ {0})
        BY <2>1, <2>4, FollowedSome
      <3> QED
        BY <1>2, <2>2, <2>3, <3>1, FollowedPosted
    <2> QED
      BY <2>4 DEF ls, ms
  <1> HIDE DEF IndInv
  <1> QED
    BY <1>3, <1>4, <1>5, NetMoved

(* Nothing is. *)
LEMMA Unsaid ==
  ASSUME IndInv, NetUnchanged, events' \in 0..MaxEvents,
         net' \in Nets, net'.wanted = net.wanted, Wires(net'), mq' = mq,
         Links(Running') = Links(Running), StillDue
  PROVE  IndInv'
  <1>1. Running \in States /\ Running.m = mq
    BY Started
  <1>2. mq \in Seq(Blocks)
    BY <1>1 DEF States
  <1> HIDE DEF IndInv
  <1> QED
    BY <1>2, NetMoved

(* The values before the transport or the server acts. *)
LEMMA NetIs ==
  ASSUME IndInv, NetUnchanged
  PROVE  /\ net \in Nets /\ Wires(net) /\ events \in 0..MaxEvents /\ proto.transport \in Nat
         /\ Running.p = proto /\ Running.t = net /\ Running.m = mq
         /\ Running'.p = proto /\ Running'.t = net' /\ Running'.m = mq'
         /\ Links(Running) = {net.link} \cup net.reporting
         /\ Links(Running') = {net'.link} \cup net'.reporting
         /\ mq \in Seq(Blocks)
  <1>1. /\ Shape(Running, ctx) /\ Running \in States /\ Running.p = proto /\ Running.t = net
        /\ Running.m = mq
    BY Started
  <1>2. Running'.p = proto /\ Running'.t = net' /\ Running'.m = mq'
    BY DEF Running, NetUnchanged
  <1>3. Wires(net)
    BY <1>1 DEF Shape, Core, Net, Wires
  <1>4. net \in Nets /\ mq \in Seq(Blocks) /\ proto \in Protos
    BY <1>1 DEF States
  <1>5. /\ Links(Running) = {net.link} \cup net.reporting
        /\ Links(Running') = {net'.link} \cup net'.reporting
    BY <1>1, <1>2 DEF Links
  <1> QED
    BY <1>1, <1>2, <1>3, <1>4, <1>5 DEF IndInv, Protos

(* Nothing that is due is handled by these. *)
LEMMA DueAnyway ==
  ASSUME IndInv, NetUnchanged, Waiting(mq) \subseteq Waiting(mq'), net'.out = net.out,
         \/ net'.wanted = net.wanted /\ net'.needs = net.needs /\ net'.link = net.link
         \/ Looking(Running')
  PROVE  StillDue
  <1>1. /\ Running.p = proto /\ Running.t = net /\ Running.m = mq
        /\ Running'.p = proto /\ Running'.t = net' /\ Running'.m = mq'
    BY NetIs
  <1> DEFINE s == Running
             r == Running'
  <1> HIDE DEF s, r
  <1>2. /\ s.p = proto /\ s.t = net /\ s.m = mq /\ r.p = proto /\ r.t = net' /\ r.m = mq'
    BY <1>1 DEF s, r
  <1>3. Looking(s) => Looking(r)
    BY <1>2 DEF Looking, r
  <1>4. ASSUME NEW k PROVE Sending(s, k) => Sending(r, k)
    BY <1>2 DEF Sending
  <1> QED
    BY <1>3, <1>4 DEF StillDue, s, r

(* A block that the transport posts of itself or of the server. *)
IsPosted(b, k, n, l, p) ==
  /\ b \in Blocks /\ b.k = k /\ b.n = n /\ b.l = l /\ b.p = p
  /\ Waiting(mq') = Waiting(mq) \cup {b}

(* It joins what waits. *)
LEMMA PostedBlock ==
  ASSUME IndInv, NetUnchanged, NEW k \in Kinds, NEW n \in Nat, NEW l \in Nat,
         NEW p \in 0..(MaxPings + 2), mq' = Append(mq, Block(k, n, l, p))
  PROVE  IsPosted(Block(k, n, l, p), k, n, l, p)
  <1> DEFINE b == Block(k, n, l, p)
  <1>1. b \in Blocks /\ b.k = k /\ b.n = n /\ b.l = l /\ b.p = p
    BY DEF Block, Blocks
  <1> HIDE DEF b
  <1>2. mq' = Append(mq, b) /\ mq \in Seq(Blocks)
    BY NetIs DEF b
  <1>3. IsPosted(b, k, n, l, p)
    BY <1>1, <1>2, Posted DEF IsPosted
  <1> QED
    BY <1>3 DEF b

(* A connection is made. *)
LEMMA LinkUpKeeps ==
  ASSUME IndInv, LinkUp
  PROVE  IndInv'
  <1> DEFINE b == Block("ready", proto.transport, 0, 0)
  <1>1. /\ NetUnchanged /\ events' = events /\ mq' = Append(mq, b)
        /\ proto.transport # 0 /\ net.wanted /\ net.link = 0
        /\ net' = [net EXCEPT !.link = net.links + 1, !.links = net.links + 1, !.needs = FALSE]
    <2>1. net \in Nets
      BY NetIs DEF LinkUp
    <2> QED
      BY <2>1 DEF LinkUp, Post, Nets
  <1>2. /\ net \in Nets /\ Wires(net) /\ events \in 0..MaxEvents /\ proto.transport \in Nat
        /\ Running.p = proto /\ Running.t = net
        /\ Running'.p = proto /\ Running'.t = net' /\ Running'.m = mq'
        /\ Links(Running) = {net.link} \cup net.reporting
        /\ Links(Running') = {net'.link} \cup net'.reporting
    BY <1>1, NetIs
  <1>3. /\ b \in Blocks /\ b.k = "ready" /\ b.n = proto.transport
        /\ Waiting(mq') = Waiting(mq) \cup {b}
    <2>1. "ready" \in Kinds /\ 0 \in Nat /\ 0 \in 0..(MaxPings + 2)
      BY StateAssumption DEF Kinds
    <2>2. IsPosted(b, "ready", proto.transport, 0, 0)
      BY <1>1, <1>2, <2>1, PostedBlock
    <2> QED
      BY <2>2 DEF IsPosted
  <1> HIDE DEF b
  <1> DEFINE k == net.links + 1
  <1>4. k \in Nat /\ k # 0 /\ net.links <= k /\ net.links \in Nat
    BY <1>2 DEF Nets
  <1>5. net' = [net EXCEPT !.link = k, !.links = k, !.needs = FALSE]
    BY <1>1
  <1> HIDE DEF k
  <1>6. net' \in Nets
    BY <1>2, <1>4, <1>5 DEF Nets
  <1>7. /\ net'.link = k /\ net'.links = k /\ net'.wanted = net.wanted /\ net'.out = net.out
        /\ net'.asked = net.asked /\ net'.reporting = net.reporting
    BY <1>2, <1>5 DEF Nets
  <1>8. Wires(net')
    <2>1. /\ \A l \in net.reporting : l \in Nat
          /\ \A a \in net.asked : a.l \in Nat
          /\ \A o \in net.out : o.l \in Nat
      BY <1>2 DEF Nets, Questions, Payloads
    <2>2. \A l \in Nat : l <= net.links => l <= k
      BY <1>4
    <2> QED
      BY <1>1, <1>2, <1>4, <1>7, <2>1, <2>2 DEF Wires
  <1>9. Looking(Running')
    BY <1>2, <1>3 DEF Looking
  <1>10. StillDue
    BY <1>1, <1>3, <1>7, <1>9, DueAnyway
  <1>11. Fits(b, Running)
    <2>1. Net(Running)
      BY Started DEF Shape, Core
    <2> QED
      BY <1>1, <1>2, <1>3, <2>1 DEF Net, Fits, News, Sends
  <1>12. \A l \in Links(Running) : l = 0 \/ l \in Links(Running')
    BY <1>1, <1>2, <1>7
  <1>13. b.k \notin Sends
    BY <1>3 DEF Sends
  <1> HIDE DEF IndInv
  <1> QED
    BY <1>1, <1>2, <1>3, <1>6, <1>7, <1>8, <1>10, <1>11, <1>12, <1>13, Said

(* The transport asks what there is to send. *)
LEMMA TransportAsksKeeps ==
  ASSUME IndInv, TransportAsks
  PROVE  IndInv'
  <1> DEFINE b == Block("ready", proto.transport, 0, 0)
  <1>1. /\ NetUnchanged /\ events' = events /\ mq' = Append(mq, b)
        /\ net.link # 0 /\ net' = [net EXCEPT !.needs = FALSE]
    BY DEF TransportAsks, Post
  <1>2. /\ net \in Nets /\ Wires(net) /\ events \in 0..MaxEvents /\ proto.transport \in Nat
        /\ Running.p = proto /\ Running.t = net
        /\ Running'.p = proto /\ Running'.t = net' /\ Running'.m = mq'
        /\ Links(Running) = {net.link} \cup net.reporting
        /\ Links(Running') = {net'.link} \cup net'.reporting
    BY <1>1, NetIs
  <1>3. /\ b \in Blocks /\ b.k = "ready" /\ b.n = proto.transport
        /\ Waiting(mq') = Waiting(mq) \cup {b}
    <2>1. "ready" \in Kinds /\ 0 \in Nat /\ 0 \in 0..(MaxPings + 2)
      BY StateAssumption DEF Kinds
    <2>2. IsPosted(b, "ready", proto.transport, 0, 0)
      BY <1>1, <1>2, <2>1, PostedBlock
    <2> QED
      BY <2>2 DEF IsPosted
  <1> HIDE DEF b
  <1>4. net' \in Nets
    BY <1>1, <1>2 DEF Nets
  <1>5. /\ net'.link = net.link /\ net'.links = net.links /\ net'.wanted = net.wanted
        /\ net'.out = net.out /\ net'.asked = net.asked /\ net'.reporting = net.reporting
    BY <1>1, <1>2 DEF Nets
  <1>6. Wires(net')
    BY <1>2, <1>5 DEF Wires
  <1>7. Looking(Running')
    BY <1>2, <1>3 DEF Looking
  <1>8. StillDue
    BY <1>1, <1>3, <1>5, <1>7, DueAnyway
  <1>9. Fits(b, Running)
    <2>1. Net(Running)
      BY Started DEF Shape, Core
    <2> QED
      BY <1>1, <1>2, <1>3, <2>1 DEF Net, Fits, News, Sends
  <1>10. \A l \in Links(Running) : l \in Links(Running')
    BY <1>2, <1>5
  <1>11. b.k \notin Sends
    BY <1>3 DEF Sends
  <1> HIDE DEF IndInv
  <1> QED
    BY <1>1, <1>2, <1>3, <1>4, <1>5, <1>6, <1>8, <1>9, <1>10, <1>11, Said

(* A connection ends; the transport makes another one. *)
LEMMA LinkDownKeeps ==
  ASSUME IndInv, LinkDown
  PROVE  IndInv'
  <1> DEFINE b == Block("failed", proto.transport, net.link, 0)
  <1>1. /\ NetUnchanged /\ events' \in 0..MaxEvents /\ mq' = Append(mq, b)
        /\ net.link # 0 /\ net' = [net EXCEPT !.link = 0, !.asked = {}]
    BY EventCounted DEF LinkDown, Post
  <1>2. /\ net \in Nets /\ Wires(net) /\ proto.transport \in Nat
        /\ Running.p = proto /\ Running.t = net
        /\ Running'.p = proto /\ Running'.t = net' /\ Running'.m = mq'
        /\ Links(Running) = {net.link} \cup net.reporting
        /\ Links(Running') = {net'.link} \cup net'.reporting
    BY <1>1, NetIs
  <1>3. net.link \in Nat
    BY <1>2 DEF Nets
  <1>4. /\ b \in Blocks /\ b.k = "failed" /\ b.l = net.link
        /\ Waiting(mq') = Waiting(mq) \cup {b}
    <2>1. "failed" \in Kinds /\ 0 \in 0..(MaxPings + 2)
      BY StateAssumption DEF Kinds
    <2>2. IsPosted(b, "failed", proto.transport, net.link, 0)
      BY <1>1, <1>2, <1>3, <2>1, PostedBlock
    <2> QED
      BY <2>2 DEF IsPosted
  <1> HIDE DEF b
  <1>5. net' \in Nets
    <2>1. 0 \in Nat /\ {} \in SUBSET Questions
      OBVIOUS
    <2>2. net' = [net EXCEPT !.link = 0, !.asked = {}]
      BY <1>1
    <2> QED
      BY <1>2, <2>1, <2>2 DEF Nets
  <1>6. /\ net'.link = 0 /\ net'.links = net.links /\ net'.wanted = net.wanted
        /\ net'.out = net.out /\ net'.asked = {} /\ net'.reporting = net.reporting
    BY <1>1, <1>2 DEF Nets
  <1>7. Wires(net')
    <2>1. net.links \in Nat
      BY <1>2 DEF Nets
    <2> QED
      BY <1>2, <1>6, <2>1 DEF Wires
  <1>8. Looking(Running')
    BY <1>1, <1>2, <1>6 DEF Looking, Wires
  <1>9. StillDue
    BY <1>1, <1>4, <1>6, <1>8, DueAnyway
  <1>10. Fits(b, Running) /\ b.k \notin Sends
    BY <1>4 DEF Fits, News, Sends
  <1>11. \A l \in Links(Running) : l \in Links(Running') \/ b.l = l
    BY <1>2, <1>4, <1>6
  <1> HIDE DEF IndInv
  <1> QED
    BY <1>1, <1>2, <1>4, <1>5, <1>6, <1>7, <1>9, <1>10, <1>11, Said

(* A transport that was replaced reports its connection. *)
LEMMA ReportsClosedKeeps ==
  ASSUME IndInv, ReportsClosed
  PROVE  IndInv'
  <1>1. PICK l \in net.reporting : /\ net' = [net EXCEPT !.reporting = @ \ {l}]
                                   /\ mq' = Append(mq, Block("failed", 0, l, 0))
    BY DEF ReportsClosed
  <1>2. NetUnchanged /\ events' = events
    BY DEF ReportsClosed
  <1> DEFINE b == Block("failed", 0, l, 0)
             w == net.reporting \ {l}
  <1>3. /\ net \in Nets /\ Wires(net) /\ events \in 0..MaxEvents
        /\ Links(Running) = {net.link} \cup net.reporting
        /\ Links(Running') = {net'.link} \cup net'.reporting
    BY <1>2, NetIs
  <1>4. l \in Nat /\ w \in SUBSET Nat /\ (\A k : k \in w <=> k \in net.reporting /\ k # l)
    BY <1>3 DEF Nets
  <1>5. /\ b \in Blocks /\ b.k = "failed" /\ b.l = l /\ Waiting(mq') = Waiting(mq) \cup {b}
    <2>1. "failed" \in Kinds /\ 0 \in Nat /\ 0 \in 0..(MaxPings + 2)
      BY StateAssumption DEF Kinds
    <2>2. IsPosted(b, "failed", 0, l, 0)
      BY <1>1, <1>2, <1>4, <2>1, PostedBlock
    <2> QED
      BY <2>2 DEF IsPosted
  <1>6. net' = [net EXCEPT !.reporting = w] /\ mq' = Append(mq, b)
    BY <1>1, <1>3 DEF Nets
  <1> HIDE DEF b, w
  <1>7. net' \in Nets
    BY <1>3, <1>4, <1>6 DEF Nets
  <1>8. /\ net'.link = net.link /\ net'.links = net.links /\ net'.wanted = net.wanted
        /\ net'.needs = net.needs
        /\ net'.out = net.out /\ net'.asked = net.asked /\ net'.reporting = w
    BY <1>3, <1>6 DEF Nets
  <1>9. Wires(net')
    BY <1>3, <1>4, <1>8 DEF Wires
  <1>10. StillDue
    BY <1>2, <1>5, <1>8, DueAnyway
  <1>11. Fits(b, Running) /\ b.k \notin Sends
    BY <1>5 DEF Fits, News, Sends
  <1>12. \A k \in Links(Running) : k \in Links(Running') \/ b.l = k
    BY <1>3, <1>4, <1>5, <1>8
  <1> HIDE DEF IndInv
  <1> QED
    BY <1>2, <1>3, <1>5, <1>6, <1>7, <1>8, <1>9, <1>10, <1>11, <1>12, Said

(* The server says something and may forget questions. *)
LEMMA ServerSays ==
  ASSUME IndInv, NetUnchanged, events' \in 0..MaxEvents, NEW w, w \subseteq net.asked,
         net' = [net EXCEPT !.asked = w], NEW k, NEW p, Post(k, 0, p),
         k \in {"pong", "futureSalts", "bad", "seq", "newSession", "missing"}, p \in 0..MaxPings
  PROVE  IndInv'
  <1> DEFINE b == Block(k, proto.transport, 0, p)
  <1>1. /\ net \in Nets /\ Wires(net) /\ proto.transport \in Nat
        /\ Links(Running) = {net.link} \cup net.reporting
        /\ Links(Running') = {net'.link} \cup net'.reporting
    BY NetIs
  <1>2. mq' = Append(mq, b) /\ k \in Kinds /\ p \in 0..(MaxPings + 2)
    BY StateAssumption DEF Post, Kinds
  <1>3. /\ b \in Blocks /\ b.k = k /\ Waiting(mq') = Waiting(mq) \cup {b}
    <2>1. IsPosted(b, k, proto.transport, 0, p)
      BY <1>1, <1>2, PostedBlock
    <2> QED
      BY <2>1 DEF IsPosted
  <1> HIDE DEF b
  <1>4. net' \in Nets
    BY <1>1 DEF Nets
  <1>5. /\ net'.link = net.link /\ net'.links = net.links /\ net'.wanted = net.wanted
        /\ net'.needs = net.needs
        /\ net'.out = net.out /\ net'.asked = w /\ net'.reporting = net.reporting
    BY <1>1 DEF Nets
  <1>6. Wires(net')
    BY <1>1, <1>5 DEF Wires
  <1>7. StillDue
    BY <1>3, <1>5, DueAnyway
  <1>8. Fits(b, Running) /\ b.k \notin Sends
    BY <1>3 DEF Fits, News, Sends
  <1>9. \A l \in Links(Running) : l \in Links(Running')
    BY <1>1, <1>5
  <1> HIDE DEF IndInv
  <1> QED
    BY <1>1, <1>2, <1>3, <1>4, <1>5, <1>6, <1>7, <1>8, <1>9, Said

(* A question of MTProto is answered *)
LEMMA ServerAnswersKeeps ==
  ASSUME IndInv, ServerAnswers
  PROVE  IndInv'
  <1>1. PICK a \in net.asked : net' = [net EXCEPT !.asked = @ \ {a}] /\ Post(a.k, 0, a.p)
    BY DEF ServerAnswers
  <1>2. NetUnchanged /\ events' = events
    BY DEF ServerAnswers
  <1>3. net \in Nets /\ events \in 0..MaxEvents
    BY <1>2, NetIs
  <1> DEFINE w == net.asked \ {a}
  <1>4. net' = [net EXCEPT !.asked = w] /\ w \subseteq net.asked
    BY <1>1, <1>3 DEF Nets
  <1>5. a.k \in {"pong", "futureSalts"} /\ a.p \in 0..MaxPings
    BY <1>3, StateAssumption DEF Nets, Questions
  <1> HIDE DEF w, IndInv
  <1> QED
    BY <1>1, <1>2, <1>3, <1>4, <1>5, ServerSays

(* ... or rejected. *)
LEMMA ServerRejectsKeeps ==
  ASSUME IndInv, ServerRejects
  PROVE  IndInv'
  <1>1. PICK a \in net.asked : net' = [net EXCEPT !.asked = @ \ {a}] /\ Post("bad", 0, a.p)
    BY DEF ServerRejects
  <1>2. NetUnchanged /\ events' \in 0..MaxEvents
    BY EventCounted DEF ServerRejects
  <1>3. net \in Nets
    BY <1>2, NetIs
  <1> DEFINE w == net.asked \ {a}
  <1>4. net' = [net EXCEPT !.asked = w] /\ w \subseteq net.asked
    BY <1>1, <1>3 DEF Nets
  <1>5. a.p \in 0..MaxPings
    BY <1>3, StateAssumption DEF Nets, Questions
  <1> HIDE DEF w, IndInv
  <1> QED
    BY <1>1, <1>2, <1>3, <1>4, <1>5, ServerSays

(* Something else is. *)
LEMMA ServerComplainsKeeps ==
  ASSUME IndInv, ServerComplains
  PROVE  IndInv'
  <1>1. NetUnchanged /\ net' = net
    BY DEF ServerComplains
  <1>2. PICK k \in {"bad", "seq"} \cup (IF Cdn THEN {"missing"} ELSE {}) : Event(k) /\ Post(k, 0, 0)
    BY DEF ServerComplains
  <1>3. k \in {"bad", "seq", "missing"} /\ events' \in 0..MaxEvents
    BY <1>2, EventCounted
  <1>4. net \in Nets
    BY <1>1, NetIs
  <1>5. net' = [net EXCEPT !.asked = net.asked]
    BY <1>1, <1>4 DEF Nets
  <1>6. 0 \in 0..MaxPings
    BY StateAssumption
  <1> HIDE DEF IndInv
  <1> QED
    BY <1>1, <1>2, <1>3, <1>5, <1>6, ServerSays

(* The server has lost the session. *)
LEMMA ServerRestartsKeeps ==
  ASSUME IndInv, ServerRestarts
  PROVE  IndInv'
  <1>1. NetUnchanged /\ events' \in 0..MaxEvents /\ Post("newSession", 0, 0)
    BY EventCounted DEF ServerRestarts
  <1>2. PICK lost \in SUBSET net.asked : net' = [net EXCEPT !.asked = @ \ lost]
    BY DEF ServerRestarts
  <1>3. net \in Nets
    BY <1>1, NetIs
  <1> DEFINE w == net.asked \ lost
  <1>4. net' = [net EXCEPT !.asked = w] /\ w \subseteq net.asked
    BY <1>2, <1>3 DEF Nets
  <1>5. 0 \in 0..MaxPings
    BY StateAssumption
  <1> HIDE DEF w, IndInv
  <1> QED
    BY <1>1, <1>4, <1>5, ServerSays

(* A payload that is written is reported; one that is not was given to a   *)
(* transport that is gone, or that connects again.                         *)
LEMMA WrittenDue ==
  ASSUME IndInv, NetUnchanged, Waiting(mq) \subseteq Waiting(mq'), NEW o \in net.out,
         net'.wanted = net.wanted, net'.needs = net.needs, net'.link = net.link,
         \A x \in net.out : x = o \/ x \in net'.out,
         \/ o.n # proto.transport \/ Looking(Running')
         \/ \E b \in Waiting(mq') : b.k = o.k /\ b.n = o.n
  PROVE  StillDue
  <1>1. /\ Running.p = proto /\ Running.t = net /\ Running.m = mq
        /\ Running'.p = proto /\ Running'.t = net' /\ Running'.m = mq'
    BY NetIs
  <1> DEFINE s == Running
             r == Running'
  <1>2. /\ s.p = proto /\ s.t = net /\ s.m = mq /\ r.p = proto /\ r.t = net' /\ r.m = mq'
        /\ \/ o.n # proto.transport \/ Looking(r)
           \/ \E b \in Waiting(mq') : b.k = o.k /\ b.n = o.n
    BY <1>1
  <1> HIDE DEF s, r
  <1>3. Looking(s) => Looking(r)
    BY <1>2 DEF Looking
  <1>4. ASSUME NEW k, Sending(s, k), ~Looking(r) PROVE Sending(r, k)
    BY <1>2, <1>4 DEF Sending
  <1> QED
    BY <1>3, <1>4 DEF StillDue, s, r

(* A payload was handed over. *)
Rest(t, o, A) == [t EXCEPT !.out = @ \ {o}, !.asked = A]
IsRest(u, t, o, A) ==
  /\ u \in Nets /\ u.asked = A /\ u.link = t.link /\ u.links = t.links
  /\ u.wanted = t.wanted /\ u.needs = t.needs /\ u.reporting = t.reporting
  /\ \A x : x \in u.out <=> x \in t.out /\ x # o

(* The connection stays. *)
LEMMA Rests ==
  ASSUME NEW t \in Nets, NEW o, NEW A \in SUBSET Questions, NEW u, u = Rest(t, o, A)
  PROVE  IsRest(u, t, o, A)
  <1> DEFINE w == t.out \ {o}
  <1>1. w \in SUBSET Payloads /\ (\A x : x \in w <=> x \in t.out /\ x # o)
    BY DEF Nets
  <1>2. u = [t EXCEPT !.out = w, !.asked = A]
    BY DEF Rest, Nets
  <1> HIDE DEF w
  <1>3. u \in Nets
    BY <1>1, <1>2 DEF Nets
  <1>4. /\ u.asked = A /\ u.link = t.link /\ u.links = t.links /\ u.out = w
        /\ u.wanted = t.wanted /\ u.needs = t.needs /\ u.reporting = t.reporting
    BY <1>2 DEF Nets
  <1> QED
    BY <1>1, <1>3, <1>4 DEF IsRest

(* The transport writes what it was given. *)
LEMMA TransportWritesKeeps ==
  ASSUME IndInv, TransportWrites
  PROVE  IndInv'
  <1>1. NetUnchanged /\ events' = events
    BY DEF TransportWrites
  <1>2. PICK o \in net.out : HandOver(o)
    BY DEF TransportWrites
  <1>3. /\ net \in Nets /\ Wires(net) /\ events \in 0..MaxEvents /\ proto.transport \in Nat
        /\ Running.p = proto /\ Running.t = net /\ Running.m = mq
        /\ Running'.p = proto /\ Running'.t = net' /\ Running'.m = mq'
        /\ Links(Running) = {net.link} \cup net.reporting
        /\ Links(Running') = {net'.link} \cup net'.reporting
        /\ mq \in Seq(Blocks)
    BY <1>1, NetIs
  <1>4. o.k \in Sends /\ o.n \in Nat /\ o.l \in Nat /\ o.p \in 1..MaxPings
    BY <1>3 DEF Nets, Payloads, Sends
  <1>5. /\ o.l <= net.links /\ o.n # 0 /\ o.n <= proto.made
        /\ o.n = proto.transport => net.wanted
    BY <1>3 DEF Wires
  <1>6. /\ net.link \in Nat /\ net.link <= net.links
        /\ net.asked \in SUBSET Questions /\ \A a \in net.asked : a.l # 0 /\ a.l <= net.links
    BY <1>3 DEF Nets, Wires
  <1> DEFINE l == IF o.n = proto.transport THEN net.link ELSE o.l
             q == [k |-> IF o.k = "sent" THEN "pong" ELSE "futureSalts", l |-> l, p |-> o.p]
             rest == [net EXCEPT !.out = @ \ {o}]
  <1>7. l \in Nat
    BY <1>4, <1>6
  <1>8. rest = [net EXCEPT !.out = @ \ {o}, !.asked = net.asked]
    BY <1>3 DEF Nets
  <1>9. ASSUME NEW A, A \in SUBSET Questions, \A a \in A : a.l # 0 /\ a.l <= net.links,
               net' = [net EXCEPT !.out = @ \ {o}, !.asked = A]
        PROVE  /\ net' \in Nets /\ net'.wanted = net.wanted /\ net'.needs = net.needs
               /\ net'.link = net.link /\ Wires(net') /\ Links(Running') = Links(Running)
               /\ \A x \in net.out : x = o \/ x \in net'.out
    <2>1. /\ net' \in Nets /\ net'.asked = A /\ net'.link = net.link /\ net'.links = net.links
          /\ net'.wanted = net.wanted /\ net'.needs = net.needs
          /\ net'.reporting = net.reporting
          /\ \A x : x \in net'.out <=> x \in net.out /\ x # o
      <3>1. net' = Rest(net, o, A)
        BY <1>9 DEF Rest
      <3>2. IsRest(net', net, o, A)
        BY <1>3, <1>9, <3>1, Rests
      <3> QED
        BY <3>2 DEF IsRest
    <2>2. Wires(net')
      BY <1>3, <1>9, <2>1 DEF Wires
    <2> QED
      BY <1>3, <2>1, <2>2
  <1>10. CASE /\ l # 0
              /\ mq' = Append(mq, Block(o.k, o.n, l, o.p))
              /\ net' = IF l # net.link THEN rest ELSE
                          [rest EXCEPT !.asked = @ \cup {q}]
    <2> DEFINE b == Block(o.k, o.n, l, o.p)
    <2>1. b \in Blocks /\ b.k = o.k /\ b.n = o.n /\ b.l = l /\ b.p = o.p
      BY <1>4, <1>7, StateAssumption DEF Block, Blocks, Sends, Kinds
    <2>2. /\ net' \in Nets /\ net'.wanted = net.wanted /\ net'.needs = net.needs
          /\ net'.link = net.link /\ Wires(net') /\ Links(Running') = Links(Running)
          /\ \A x \in net.out : x = o \/ x \in net'.out
      <3>1. CASE l # net.link
        <4>1. net' = [net EXCEPT !.out = @ \ {o}, !.asked = net.asked]
          BY <1>8, <1>10, <3>1
        <4> QED
          BY <1>6, <1>9, <4>1
      <3>2. CASE l = net.link
        <4> DEFINE A == net.asked \cup {q}
        <4>1. q \in Questions /\ q.l = l
          BY <1>4, <1>7 DEF Questions
        <4>2. A \in SUBSET Questions /\ \A a \in A : a.l # 0 /\ a.l <= net.links
          BY <1>6, <1>10, <3>2, <4>1
        <4>3. rest.asked = net.asked
          BY <1>3 DEF Nets
        <4>4. net' = [rest EXCEPT !.asked = A]
          BY <1>10, <3>2, <4>3
        <4> HIDE DEF A
        <4>5. net' = [net EXCEPT !.out = @ \ {o}, !.asked = A]
          BY <1>3, <4>4 DEF Nets
        <4> QED
          BY <1>9, <4>2, <4>5
      <3> QED
        BY <3>1, <3>2
    <2>3. o.n = proto.transport => b.l \in Links(Running')
      BY <1>3, <2>1, <2>2
    <2>4. mq' = Append(mq, b) /\ l # 0
      BY <1>10
    <2> HIDE DEF b, l, rest, q
    <2>5. Waiting(mq') = Waiting(mq) \cup {b}
      BY <1>3, <2>1, <2>4, Posted
    <2>6. StillDue
      BY <1>1, <2>1, <2>2, <2>5, WrittenDue
    <2>7. Fits(b, Running)
      <3>1. b.p <= MaxPings
        BY <1>4, <2>1, StateAssumption
      <3> QED
        BY <1>3, <1>4, <1>5, <2>1, <2>4, <3>1 DEF Fits, News, Sends
    <2> HIDE DEF IndInv
    <2> QED
      BY <1>1, <1>3, <2>1, <2>2, <2>3, <2>4, <2>6, <2>7, Said
  <1>11. CASE /\ l = 0 \/ l # net.link
              /\ net' = rest
              /\ \/ mq' = mq
                 \/ o.k = "sent" /\ mq' = Append(mq, Block("notSent", o.n, 0, 0))
    <2>1. /\ net' \in Nets /\ net'.wanted = net.wanted /\ net'.needs = net.needs
          /\ net'.link = net.link /\ Wires(net') /\ Links(Running') = Links(Running)
          /\ \A x \in net.out : x = o \/ x \in net'.out
      <3>1. net' = [net EXCEPT !.out = @ \ {o}, !.asked = net.asked]
        BY <1>8, <1>11
      <3> QED
        BY <1>6, <1>9, <3>1
    <2>2. o.n # proto.transport \/ Looking(Running')
      <3>1. ASSUME o.n = proto.transport PROVE Looking(Running')
        <4>1. net.link = 0
          BY <1>11, <3>1
        <4> QED
          BY <1>3, <1>5, <2>1, <3>1, <4>1 DEF Looking
      <3> QED
        BY <3>1
    <2>3. mq' = mq \/ mq' = Append(mq, Block("notSent", o.n, 0, 0))
      BY <1>11
    <2> HIDE DEF l, rest, q
    <2>4. CASE mq' = mq
      <3>1. StillDue
        BY <1>1, <2>1, <2>2, <2>4, WrittenDue
      <3> HIDE DEF IndInv
      <3> QED
        BY <1>1, <1>3, <2>1, <2>4, <3>1, Unsaid
    <2>5. CASE mq' = Append(mq, Block("notSent", o.n, 0, 0))
      <3> DEFINE b == Block("notSent", o.n, 0, 0)
      <3>1. b \in Blocks /\ b.k = "notSent"
        BY <1>4, StateAssumption DEF Block, Blocks, Kinds
      <3>2. mq' = Append(mq, b)
        BY <2>5
      <3> HIDE DEF b
      <3>3. Waiting(mq') = Waiting(mq) \cup {b}
        BY <1>3, <3>1, <3>2, Posted
      <3>4. StillDue
        BY <1>1, <2>1, <2>2, <3>3, WrittenDue
      <3>5. Fits(b, Running) /\ b.k \notin Sends
        BY <3>1 DEF Fits, News, Sends
      <3> HIDE DEF IndInv
      <3> QED
        BY <1>1, <1>3, <2>1, <3>1, <3>2, <3>4, <3>5, Said
    <2> QED
      BY <2>3, <2>4, <2>5
  <1> QED
    BY <1>2, <1>10, <1>11 DEF HandOver

-----------------------------------------------------------------------------
(* The first state: a pass waits, and nothing else. *)
LEMMA InitialState ==
  ASSUME Init
  PROVE  IndInv
  <1>1. PICK r \in Roles, s \in {0, 1}, a \in BOOLEAN, t \in BOOLEAN, other \in BOOLEAN :
          /\ ctx = [scheme |-> s, auth |-> a, token |-> t /\ a, discovering |-> FALSE,
                    authAction |-> other /\ ~a, tokenAction |-> FALSE]
          /\ proto = [role |-> r, flags |-> {}, scheme |-> 0, authInfo |-> a, transport |-> 0,
                      made |-> 0, will |-> TRUE, fix |-> None, sync |-> FALSE, syncOn |-> None]
    BY DEF Init
  <1>2. ctx \in Contexts /\ ctx.auth = a
    BY <1>1 DEF Contexts
  <1>3. /\ proto \in Protos /\ proto.flags = {} /\ proto.authInfo = a /\ proto.transport = 0
        /\ proto.made = 0 /\ proto.will /\ proto.fix.link = 0 /\ proto.syncOn.link = 0
    BY <1>1, NoneIsPing DEF Protos
  <1>4. /\ net \in Nets /\ net.link = 0 /\ net.links = 0 /\ net.out = {} /\ net.asked = {}
        /\ net.reporting = {} /\ ~net.wanted
    BY DEF Init, Nets
  <1>5. hist \in Histories
    BY DEF Init, Histories
  <1> DEFINE b == Block("pass", 0, 0, 0)
  <1>6. b \in Blocks /\ b.k = "pass" /\ b.k \notin News
    BY StateAssumption DEF Block, Blocks, Kinds, News
  <1>7. mq = <<b>> /\ cq = <<>>
    BY DEF Init
  <1> HIDE DEF b
  <1>8. mq \in Seq(Blocks) /\ cq \in Seq(Demands) /\ Waiting(mq) = {b}
    <2>1. mq \in Seq(Blocks) /\ Len(mq) = 1 /\ mq[1] = b /\ cq \in Seq(Demands)
      BY <1>6, <1>7
    <2> QED
      BY <2>1 DEF Waiting
  <1>9. /\ Running.p = proto /\ Running.t = net /\ Running.m = mq /\ Running.c = cq
        /\ Running.h = hist /\ Running \in States
    BY <1>3, <1>4, <1>5, <1>8 DEF Running, States
  <1>10. \A f : ~Has(Running, f)
    BY <1>3, <1>9 DEF Has
  <1>11. Net(Running)
    <2>1. Fits(b, Running)
      BY <1>6 DEF Fits, News, Sends
    <2> QED
      BY <1>3, <1>4, <1>8, <1>9, <2>1 DEF Net
  <1>12. Answered(Running, ctx)
    BY <1>10 DEF Answered
  <1>13. Keys(Running, ctx)
    <2>1. KeyFirst(mq, 0)
      BY <1>6, <1>8, KeyNone
    <2> QED
      BY <1>2, <1>3, <1>9, <2>1 DEF Keys
  <1>14. Guarded(Running)
    <2>1. \A ls : Followed(mq, 0, ls)
      BY <1>6, <1>8, FollowedNone DEF Sends, News
    <2> QED
      BY <1>3, <1>9, <2>1 DEF Guarded
  <1>15. Quiet(Running)
    BY <1>10 DEF Quiet
  <1>16. Looks(Running, work)
    BY <1>3, <1>9, LooksAnyway
  <1> QED
    BY <1>2, <1>9, <1>11, <1>12, <1>13, <1>14, <1>15, <1>16, StateAssumption
    DEF Init, IndInv, Shape, Core

(* Every step keeps the invariant. *)
LEMMA InductiveStep ==
  ASSUME IndInv, [Next]_vars
  PROVE  IndInv'
  <1>1. CASE RunManager
    BY <1>1, PassKeeps, SchemeUpdatedKeeps, AuthInfoUpdatedKeeps, AuthTokenUpdatedKeeps,
       ReadyForServicesKeeps, ReadyForTimeFixKeeps, ReadyForNothingKeeps, TimeFixSentKeeps,
       SaltsRequestSentKeeps, TimeFixNotSentKeeps, TransactionsMayHaveFailedKeeps, PongKeeps,
       BadMessageKeeps, BadSequenceKeeps, FutureSaltsKeeps, ServerChangedSessionKeeps,
       MissingKeyKeeps DEF RunManager
  <1>2. CASE Context
    BY <1>2, SchemeFoundKeeps, SchemeRequiredKeeps, TokenRequiredKeeps, AuthRequiredKeeps,
       AuthCompletedKeeps, SaltsStoredKeeps, TokenCompletedKeeps DEF Context
  <1>3. CASE Transport
    BY <1>3, LinkUpKeeps, TransportAsksKeeps, ReportsClosedKeeps, TransportWritesKeeps,
       ServerAnswersKeeps DEF Transport
  <1>4. CASE Resume
    BY <1>4, ResumeKeeps
  <1>5. CASE Disturbance
    BY <1>5, AddWorkKeeps, PauseKeeps, StopKeeps, SessionKeeps, ApiEnvironmentUpdatedKeeps,
       ResyncKeeps, SchemeReplacedKeeps, TokenLostKeeps, LinkDownKeeps, ServerComplainsKeeps,
       ServerRejectsKeeps, ServerRestartsKeeps, ReadyWithoutSaltKeeps DEF Disturbance
  <1>6. CASE UNCHANGED vars
    <2>1. /\ ctx' = ctx /\ work' = work /\ pings' = pings /\ events' = events
          /\ Running' = Running
      BY <1>6 DEF vars, Running
    <2> QED
      BY <2>1 DEF IndInv
  <1> QED
    BY <1>1, <1>2, <1>3, <1>4, <1>5, <1>6 DEF Next

(* The record of the methods keeps its shape at the end of every block,    *)
(* and while MTProto may send something makes it look.                     *)
THEOREM Invariance == Spec => []IndInv
  BY InitialState, InductiveStep, PTL DEF Spec

-----------------------------------------------------------------------------
(* What waits, by its place. *)
LEMMA WaitingAt ==
  ASSUME NEW S, NEW q \in Seq(S), NEW b
  PROVE  b \in Waiting(q) <=> \E i \in DOMAIN q : q[i] = b
  BY DEF Waiting

(* Every flag of _mtState that keeps MTProto from sending will be cleared: *)
(* a demand for what it waits for is at the context, or being met, or its  *)
(* notification is on the way.                                             *)
THEOREM FlagsAnswered == Spec => []FlagsAreAnswered
  <1>1. IndInv => FlagsAreAnswered
    <2> SUFFICES ASSUME IndInv PROVE FlagsAreAnswered
      OBVIOUS
    <2>1. /\ Shape(Running, ctx) /\ Running \in States
          /\ Running.p = proto /\ Running.m = mq /\ Running.c = cq /\ Running.h = hist
      BY Started
    <2>2. mq \in Seq(Blocks) /\ cq \in Seq(Demands)
      BY <2>1 DEF States
    <2>3. \A b : b \in Waiting(mq) <=> \E i \in DOMAIN mq : mq[i] = b
      BY <2>2, WaitingAt
    <2>4. \A d : d \in Waiting(cq) <=> \E i \in DOMAIN cq : cq[i] = d
      BY <2>2, WaitingAt
    <2>5. Answered(Running, ctx)
      BY <2>1 DEF Shape, Core
    <2> QED
      BY <2>1, <2>3, <2>4, <2>5 DEF Answered, FlagsAreAnswered, Set, Has, Due, Asked
  <1> QED
    BY <1>1, Invariance, PTL

(* The state is well formed; stop leaves no transport and pause none that  *)
(* connects, whatever arrives afterwards.                                  *)
THEOREM Quietness == Spec => []QuietWhenTold
  <1>1. IndInv => QuietWhenTold
    <2> SUFFICES ASSUME IndInv PROVE QuietWhenTold
      OBVIOUS
    <2>1. /\ Shape(Running, ctx) /\ Running \in States
          /\ Running.p = proto /\ Running.t = net /\ Running.m = mq /\ Running.c = cq
          /\ Running.h = hist
      BY Started
    <2>2. /\ proto \in Protos /\ net \in Nets /\ mq \in Seq(Blocks) /\ cq \in Seq(Demands)
          /\ hist \in Histories /\ ctx \in Contexts
      BY <2>1 DEF States, Shape, Core
    <2>3. Net(Running)
      BY <2>1 DEF Shape, Core
    <2>4. /\ net.link \in 0..net.links /\ net.links \in Nat
          /\ net.wanted \in BOOLEAN /\ net.needs \in BOOLEAN
      BY <2>1, <2>2, <2>3 DEF Nets, Net
    <2>5. net.reporting \subseteq 1..net.links
      BY <2>1, <2>2, <2>3, <2>4 DEF Nets, Net
    <2>6. ASSUME NEW a \in net.asked
          PROVE  a \in [k : {"pong", "futureSalts"}, l : 1..net.links, p : 1..MaxPings]
      <3>1. a \in Questions /\ a.l # 0 /\ a.l <= net.links
        BY <2>1, <2>2, <2>3 DEF Nets, Net
      <3>2. a.l \in 1..net.links
        BY <2>4, <3>1 DEF Questions
      <3> QED
        BY <3>1, <3>2 DEF Questions
    <2>7. ASSUME NEW o \in net.out
          PROVE  o \in [k : {"sent", "saltsSent"}, n : Nat, l : 0..net.links, p : 1..MaxPings]
      <3>1. o \in Payloads /\ o.l <= net.links
        BY <2>1, <2>2, <2>3 DEF Nets, Net
      <3>2. o.l \in 0..net.links
        BY <2>4, <3>1 DEF Payloads
      <3> QED
        BY <3>1, <3>2 DEF Payloads
    <2>8. TypeOK
      BY <2>2, <2>4, <2>5, <2>6, <2>7
      DEF TypeOK, IndInv, Protos, Pings, Contexts, Blocks, Demands, Histories
    <2> QED
      BY <2>1, <2>8 DEF Shape, Quiet, QuietWhenTold, Set, Has
  <1> QED
    BY <1>1, Invariance, PTL

(* A transaction is never prepared without the key, in whatever order the  *)
(* news of it, the new transport and its first question arrive.            *)
THEOREM KeyComesFirst == Spec => []KeyInHand
  <1>1. IndInv => KeyInHand
    <2> SUFFICES ASSUME IndInv, Take("ready"), Here, CanAskForServiceTransactions(Running)
                 PROVE  proto.authInfo
      BY DEF KeyInHand
    <2>1. /\ Shape(Running, ctx) /\ Running \in States /\ Running.p = proto /\ Running.m = mq
      BY Started
    <2>2. mq # <<>> /\ Head(mq).k = "ready" /\ Head(mq).n = proto.transport
      BY DEF Take, Here
    <2>3. ~Has(Running, "auth")
      BY DEF CanAskForServiceTransactions, Has, Awaiting
    <2>4. mq \in Seq(Blocks)
      BY <2>1 DEF States
    <2>5. ~KeyFirst(mq, proto.transport)
      BY <2>2, <2>4, KeyTaken
    <2> QED
      BY <2>1, <2>3, <2>5 DEF Shape, Core, Keys
  <1> QED
    BY <1>1, Invariance, PTL

(* While MTProto may send, a request, a time fix and a question of the     *)
(* sync service are never forgotten: something makes it look, or what it   *)
(* sent is on a connection whose end would be reported.                    *)
THEOREM WorkRemembered == Spec => []NoForgottenWork
  <1>1. IndInv => NoForgottenWork
    <2> SUFFICES ASSUME IndInv, ~Set("paused"), CanAskForServiceTransactions(Running)
                 PROVE  /\ Set("time") =>
                             \/ LookIsDue \/ UnderWay("sent") \/ Due("notSent") \/ hist.unasked
                             \/ proto.fix.link # 0 /\ Watched(proto.fix.link)
                        /\ ~Set("time") /\ work => LookIsDue
                        /\ ~Set("time") /\ proto.sync =>
                             \/ LookIsDue \/ UnderWay("saltsSent")
                             \/ proto.syncOn.link # 0 /\ Watched(proto.syncOn.link)
      BY DEF NoForgottenWork
    <2>1. /\ Shape(Running, ctx) /\ Running \in States /\ Looks(Running, work)
          /\ Running.p = proto /\ Running.t = net /\ Running.m = mq /\ Running.h = hist
      BY Started
    <2>2. mq \in Seq(Blocks)
      BY <2>1 DEF States
    <2>3. \A b : b \in Waiting(mq) <=> \E i \in DOMAIN mq : mq[i] = b
      BY <2>2, WaitingAt
    <2>4. /\ \A f : Has(Running, f) <=> Set(f)
          /\ ~Has(Running, "stopped")
      BY <2>1 DEF Has, Set, CanAskForServiceTransactions
    <2>5. Looking(Running) => LookIsDue
      BY <2>1, <2>3 DEF Looking, LookIsDue, DueHere
    <2>6. \A k : Sending(Running, k) => UnderWay(k)
      BY <2>1, <2>3 DEF Sending, UnderWay, DueHere
    <2>7. (\E b \in Waiting(mq) : b.k = "notSent") => Due("notSent")
      BY <2>3 DEF Due
    <2>8. \A l : Noticed(Running, l) => Watched(l)
      BY <2>1, <2>3 DEF Noticed, Watched, Links, DueFor
    <2>9. /\ proto.fix.link # 0 => Watched(proto.fix.link)
          /\ proto.syncOn.link # 0 => Watched(proto.syncOn.link)
      BY <2>1, <2>4, <2>8 DEF Shape, Core, Guarded
    <2>10. TimeDue(Running) =>
             \/ LookIsDue \/ UnderWay("sent") \/ Due("notSent") \/ hist.unasked
             \/ proto.fix.link # 0 /\ Watched(proto.fix.link)
      BY <2>1, <2>5, <2>6, <2>7, <2>9 DEF TimeDue
    <2>11. SyncDue(Running) =>
             \/ LookIsDue \/ UnderWay("saltsSent")
             \/ proto.syncOn.link # 0 /\ Watched(proto.syncOn.link)
      BY <2>1, <2>5, <2>6, <2>9 DEF SyncDue
    <2> QED
      BY <2>1, <2>4, <2>5, <2>10, <2>11 DEF Looks
  <1> QED
    BY <1>1, Invariance, PTL
=============================================================================
