------------------------- MODULE MTSessionInfoProofs -------------------------
(***************************************************************************)
(* The invariants of MTSessionInfo, for every granularity of the clock and *)
(* every bound.                                                            *)
(***************************************************************************)
EXTENDS MTSessionInfo, TLAPS

(* UniqueIds and SeqNoFollowsIds are not inductive: a new id is compared   *)
(* with _lastClientMessageId only, so the invariant must also say that     *)
(* this one is above all the others.                                       *)
IndInv ==
    /\ TypeOK
    /\ UniqueIds
    /\ SeqNoFollowsIds
    /\ ContainerAfterChildren
    /\ LastIsLatest

-----------------------------------------------------------------------------
(* The loop of generateClientMessageId stops at the next multiple of 4.    *)
LEMMA RoundUpFacts ==
    ASSUME NEW x \in Nat
    PROVE  RoundUp(x) \in Nat /\ RoundUp(x) >= x /\ RoundUp(x) % 4 = 0
  BY DEF RoundUp

(* The clock as an id.                                                     *)
LEMMA ClockIsNat ==
    ASSUME clock \in 1..MaxTime
    PROVE  Quantum * clock \in Nat
  BY SessionAssumption

(* A new id is a multiple of 4, and it is above _lastClientMessageId       *)
(* unless the clock is behind it.                                          *)
LEMMA NewIdFacts ==
    ASSUME TypeOK
    PROVE  /\ ClientMessageId \in Nat
           /\ ClientMessageId % 4 = 0
           /\ ~Backwards => ClientMessageId > last
  <1> DEFINE q == Quantum * clock
             x == IF q = last THEN last + 1 ELSE q
  <1>1. q \in Nat /\ last \in Nat
    BY ClockIsNat DEF TypeOK
  <1>2. x \in Nat
    BY <1>1
  <1>3. RoundUp(x) \in Nat /\ RoundUp(x) >= x /\ RoundUp(x) % 4 = 0
    BY <1>2, RoundUpFacts
  <1>4. ClientMessageId = RoundUp(x)
    BY DEF ClientMessageId
  <1>5. Backwards <=> q < last
    BY DEF Backwards
  <1> HIDE DEF q
  <1>6. ~Backwards => x > last
    BY <1>1, <1>5
  <1> QED
    BY <1>1, <1>2, <1>3, <1>4, <1>6

(* A new message has the type of a message and, in a session that never    *)
(* ran backwards, an id above and a sequence number not below all others.  *)
LEMMA NewMessageFacts ==
    ASSUME TypeOK, NEW b \in BOOLEAN
    PROVE  /\ Message(b) \in MessageType
           /\ Message(b).id = ClientMessageId
           /\ Message(b).content = b
           /\ Message(b).seq = SeqNo(b)
           /\ NextSeqNo(b) \in Nat /\ NextSeqNo(b) % 2 = 0
           /\ SeqNo(b) \in Nat /\ SeqNo(b) >= seq /\ NextSeqNo(b) >= SeqNo(b)
           /\ NextSeqNo(b) >= seq
           /\ b => SeqNo(b) > seq /\ NextSeqNo(b) > SeqNo(b)
  <1>1. seq \in Nat /\ seq % 2 = 0
    BY DEF TypeOK
  <1>2. /\ SeqNo(b) \in Nat /\ NextSeqNo(b) \in Nat /\ NextSeqNo(b) % 2 = 0
        /\ SeqNo(b) >= seq /\ NextSeqNo(b) >= SeqNo(b) /\ NextSeqNo(b) >= seq
        /\ b => SeqNo(b) > seq /\ NextSeqNo(b) > SeqNo(b)
    BY <1>1 DEF SeqNo, NextSeqNo
  <1>3. b <=> SeqNo(b) % 2 = 1
    BY <1>1 DEF SeqNo
  <1>4. ClientMessageId \in Nat /\ ClientMessageId % 4 = 0
    BY NewIdFacts
  <1> QED
    BY <1>2, <1>3, <1>4 DEF Message, MessageType

(* Adding a new message to the known ones, and moving messages between the *)
(* list and the wire, keep the order of ids and sequence numbers.          *)
Ordered(S) ==
    /\ \A a, b \in S : a.id = b.id => a = b
    /\ \A a, b \in S : a.id < b.id =>
         a.seq <= b.seq /\ (a.content \/ b.content => a.seq < b.seq)

Below(S, l, s) ==
    \A m \in S : m.id <= l /\ m.seq <= s /\ (m.content => m.seq < s)

LEMMA AddNewMessage ==
    ASSUME TypeOK, ~Backwards, NEW b \in BOOLEAN,
           NEW S \in SUBSET MessageType, Ordered(S), Below(S, last, seq)
    PROVE  /\ Ordered(S \cup {Message(b)})
           /\ Below(S \cup {Message(b)}, ClientMessageId, NextSeqNo(b))
  <1> DEFINE n == Message(b)
  <1>1. /\ n \in MessageType /\ n.id > last /\ n.id = ClientMessageId
        /\ n.seq = SeqNo(b) /\ n.content = b
    BY NewMessageFacts, NewIdFacts
  <1>2. /\ last \in Nat /\ seq \in Nat /\ SeqNo(b) \in Nat /\ NextSeqNo(b) \in Nat
        /\ SeqNo(b) >= seq /\ NextSeqNo(b) >= SeqNo(b) /\ NextSeqNo(b) >= seq
        /\ b => SeqNo(b) > seq /\ NextSeqNo(b) > SeqNo(b)
    BY NewMessageFacts DEF TypeOK
  <1> HIDE DEF n
  <1>3. \A m \in S : m.id \in Nat /\ m.seq \in Nat /\ m.content \in BOOLEAN
    BY DEF MessageType
  <1>4. n.id \in Nat /\ n.seq \in Nat /\ n.content \in BOOLEAN
    BY <1>1 DEF MessageType
  <1>5. \A m \in S : /\ m.id < n.id /\ m.seq <= n.seq
                     /\ m.content \/ n.content => m.seq < n.seq
    BY <1>1, <1>2, <1>3, <1>4 DEF Below
  <1>6. Ordered(S \cup {n})
    BY <1>3, <1>4, <1>5 DEF Ordered
  <1>7. Below(S \cup {n}, ClientMessageId, NextSeqNo(b))
    BY <1>1, <1>2, <1>3, <1>4, <1>5 DEF Below
  <1> QED
    BY <1>6, <1>7 DEF n

(* The invariant in terms of these two.                                    *)
LEMMA InvariantParts ==
    /\ (UniqueIds /\ SeqNoFollowsIds) <=> (~hidden => Ordered(Known))
    /\ LastIsLatest <=> (~hidden /\ ~violated => Below(Known, last, seq))
  BY DEF UniqueIds, SeqNoFollowsIds, LastIsLatest, Ordered, Below

-----------------------------------------------------------------------------
(* Every step keeps the types.                                             *)
LEMMA TypeStep ==
    TypeOK /\ [Next]_vars => TypeOK'
  <1> SUFFICES ASSUME TypeOK, [Next]_vars PROVE TypeOK'
    OBVIOUS
  <1>a. CASE UNCHANGED vars
    BY <1>a DEF vars, info, TypeOK
  <1>b. CASE Tick
    BY <1>b, SessionAssumption DEF Tick, info, TypeOK
  <1>c. ASSUME NEW t \in 1..MaxTime, SetClock(t) PROVE TypeOK'
    BY <1>c DEF SetClock, info, TypeOK
  <1>d. CASE ResetSessionInfo
    <2>1. session' \in Nat /\ last' \in Nat /\ last' % 4 = 0
      BY <1>d DEF ResetSessionInfo, TypeOK
    <2>2. seq' \in Nat /\ seq' % 2 = 0
      BY <1>d DEF ResetSessionInfo
    <2>3. /\ containers' = {} /\ wire' = {} /\ list' = {} /\ phase' = "idle"
          /\ violated' = FALSE /\ hidden' = FALSE /\ clock' = clock
      BY <1>d DEF ResetSessionInfo
    <2> QED
      BY <2>1, <2>2, <2>3, Zenon DEF TypeOK
  <1>e. CASE BeginTransaction
    BY <1>e DEF BeginTransaction, info, TypeOK
  <1>f. CASE BuildTransaction
    BY <1>f DEF BuildTransaction, info, TypeOK
  <1>g. ASSUME NEW b \in BOOLEAN, PrepareMessage(b) PROVE TypeOK'
    <2>1. /\ Message(b) \in MessageType
          /\ ClientMessageId \in Nat /\ ClientMessageId % 4 = 0
          /\ NextSeqNo(b) \in Nat /\ NextSeqNo(b) % 2 = 0
      BY NewMessageFacts, NewIdFacts
    <2> QED
      BY <1>g, <2>1 DEF PrepareMessage, TypeOK
  <1>h. ASSUME NEW b \in BOOLEAN, ServiceMessage(b) PROVE TypeOK'
    <2>1. /\ Message(b) \in MessageType
          /\ ClientMessageId \in Nat /\ ClientMessageId % 4 = 0
          /\ NextSeqNo(b) \in Nat /\ NextSeqNo(b) % 2 = 0
      BY NewMessageFacts, NewIdFacts
    <2> QED
      BY <1>h, <2>1 DEF ServiceMessage, TypeOK
  <1>i. ASSUME NEW m \in wire, PrepareRepeat(m) PROVE TypeOK'
    BY <1>i DEF PrepareRepeat, info, TypeOK
  <1>j. ASSUME NEW m \in list, EmitMessage(m) PROVE TypeOK'
    BY <1>j DEF EmitMessage, TypeOK
  <1>k. ASSUME NEW part \in SUBSET list, EmitContainer(part) PROVE TypeOK'
    <2>1. /\ Message(FALSE) \in MessageType
          /\ ClientMessageId \in Nat /\ ClientMessageId % 4 = 0
          /\ NextSeqNo(FALSE) \in Nat /\ NextSeqNo(FALSE) % 2 = 0
          /\ Message(FALSE).id \in Nat
      BY NewMessageFacts, NewIdFacts
    <2>2. {m.id : m \in {x \in part : x.content}} \in SUBSET Nat
      BY DEF TypeOK, MessageType
    <2>3. containers' \subseteq [id : Nat, children : SUBSET Nat]
      <3> DEFINE kids == {m.id : m \in {x \in part : x.content}}
                 entry == [id |-> Message(FALSE).id, children |-> kids]
      <3>1. entry \in [id : Nat, children : SUBSET Nat]
        BY <2>1, <2>2
      <3>2. containers' \subseteq containers \cup {entry}
        BY <1>k DEF EmitContainer
      <3> QED
        BY <3>1, <3>2 DEF TypeOK
    <2>4. wire' \subseteq MessageType /\ list' \subseteq MessageType
      BY <1>k, <2>1 DEF EmitContainer, TypeOK
    <2>5. /\ phase = "build" /\ phase' = IF list' = {} THEN "idle" ELSE "build"
          /\ last' = ClientMessageId /\ seq' = NextSeqNo(FALSE)
          /\ hidden' = (hidden \/ Backwards)
          /\ UNCHANGED <<clock, session, violated>>
      BY <1>k DEF EmitContainer
    <2> QED
      BY <2>1, <2>3, <2>4, <2>5 DEF TypeOK
  <1> QED
    BY <1>a, <1>b, <1>c, <1>d, <1>e, <1>f, <1>g, <1>h, <1>i, <1>j, <1>k
       DEF Next, SessionReset, AbortTransaction

(* Types hold in every reachable state: in particular ids are multiples of *)
(* 4 and odd sequence numbers are those of messages that need an answer.   *)
THEOREM TypeCorrect == Spec => []TypeOK
  <1>1. Init => TypeOK
    <2> SUFFICES ASSUME Init PROVE TypeOK
      OBVIOUS
    <2>1. /\ clock \in 1..MaxTime /\ session \in Nat
          /\ last \in Nat /\ last % 4 = 0 /\ seq \in Nat /\ seq % 2 = 0
      BY DEF Init
    <2> QED
      BY <2>1, Zenon DEF Init, TypeOK
  <1> QED
    BY <1>1, TypeStep, PTL DEF Spec

-----------------------------------------------------------------------------
(* A step that brings no new message keeps the order.                      *)
LEMMA NoNewMessage ==
    ASSUME IndInv, Known' \subseteq Known, UNCHANGED <<last, seq>>,
           hidden' = hidden, ~violated' => ~violated,
           containers' = containers
    PROVE  UniqueIds' /\ SeqNoFollowsIds' /\ ContainerAfterChildren' /\ LastIsLatest'
  BY DEF IndInv, UniqueIds, SeqNoFollowsIds, ContainerAfterChildren, LastIsLatest

(* A step that brings one new message keeps the order, unless its id ran   *)
(* backwards unseen.                                                       *)
LEMMA OneNewMessage ==
    ASSUME IndInv, NEW b \in BOOLEAN, ~violated,
           Known' \subseteq Known \cup {Message(b)},
           last' = ClientMessageId, seq' = NextSeqNo(b),
           hidden' = (hidden \/ Backwards)
    PROVE  UniqueIds' /\ SeqNoFollowsIds' /\ LastIsLatest'
  <1>1. CASE hidden'
    BY <1>1 DEF UniqueIds, SeqNoFollowsIds, LastIsLatest
  <1>2. CASE ~hidden'
    <2>1. ~hidden /\ ~Backwards
      BY <1>2
    <2>2. Known \in SUBSET MessageType
      BY DEF IndInv, TypeOK, Known
    <2>3. Ordered(Known) /\ Below(Known, last, seq)
      BY <2>1, InvariantParts DEF IndInv
    <2>4. /\ Ordered(Known \cup {Message(b)})
          /\ Below(Known \cup {Message(b)}, ClientMessageId, NextSeqNo(b))
      BY <2>1, <2>2, <2>3, AddNewMessage DEF IndInv
    <2> QED
      BY <2>4 DEF Ordered, Below, UniqueIds, SeqNoFollowsIds, LastIsLatest
  <1> QED
    BY <1>1, <1>2

(* Every action of MTSessionInfo keeps the inductive invariant; one step   *)
(* per action.                                                             *)
LEMMA IndStep ==
    IndInv /\ [Next]_vars => IndInv'
  <1> SUFFICES ASSUME IndInv, [Next]_vars PROVE IndInv'
    OBVIOUS
  <1>0. TypeOK /\ TypeOK'
    BY TypeStep DEF IndInv
  <1> DEFINE Goal == UniqueIds' /\ SeqNoFollowsIds' /\ ContainerAfterChildren'
                     /\ LastIsLatest'
  <1> SUFFICES Goal
    BY <1>0 DEF IndInv
  <1>a. CASE UNCHANGED vars
    BY <1>a, NoNewMessage DEF vars, info, Known
  <1>b. CASE Tick
    BY <1>b, NoNewMessage DEF Tick, info, Known
  <1>c. ASSUME NEW t \in 1..MaxTime, SetClock(t) PROVE Goal
    BY <1>c, NoNewMessage DEF SetClock, info, Known
  <1>d. CASE ResetSessionInfo
    <2>1. Known' = {} /\ containers' = {}
      BY <1>d DEF ResetSessionInfo, Known
    <2> QED
      BY <2>1 DEF UniqueIds, SeqNoFollowsIds, ContainerAfterChildren, LastIsLatest
  <1>e. CASE BeginTransaction
    BY <1>e, NoNewMessage DEF BeginTransaction, info, Known
  <1>f. CASE BuildTransaction
    BY <1>f, NoNewMessage DEF BuildTransaction, info, Known
  <1>g. ASSUME NEW b \in BOOLEAN, PrepareMessage(b) PROVE Goal
    <2>1. ContainerAfterChildren'
      BY <1>g DEF PrepareMessage, IndInv, ContainerAfterChildren
    <2>2. CASE violated'
      <3>1. Known' = Known /\ hidden' = hidden
        BY <1>g, <2>2 DEF PrepareMessage, Known
      <3> QED
        BY <2>1, <2>2, <3>1 DEF IndInv, UniqueIds, SeqNoFollowsIds, LastIsLatest
    <2>3. CASE ~violated'
      <3>1. /\ ~violated /\ ~Backwards /\ Known' = Known \cup {Message(b)}
            /\ last' = ClientMessageId /\ seq' = NextSeqNo(b) /\ hidden' = hidden
        BY <1>g, <2>3 DEF PrepareMessage, Known
      <3>2. hidden' = (hidden \/ Backwards)
        BY <1>0, <3>1 DEF TypeOK
      <3> QED
        BY <2>1, <3>1, <3>2, OneNewMessage
    <2> QED
      BY <2>2, <2>3
  <1>h. ASSUME NEW b \in BOOLEAN, ServiceMessage(b) PROVE Goal
    <2>1. ContainerAfterChildren'
      BY <1>h DEF ServiceMessage, IndInv, ContainerAfterChildren
    <2>2. ~violated
      BY <1>0, <1>h DEF ServiceMessage, TypeOK
    <2>3. /\ Known' = Known \cup {Message(b)} /\ last' = ClientMessageId
          /\ seq' = NextSeqNo(b) /\ hidden' = (hidden \/ Backwards)
      BY <1>h DEF ServiceMessage, Known
    <2> QED
      BY <2>1, <2>2, <2>3, OneNewMessage
  <1>i. ASSUME NEW m \in wire, PrepareRepeat(m) PROVE Goal
    BY <1>i, NoNewMessage DEF PrepareRepeat, info, Known
  <1>j. ASSUME NEW m \in list, EmitMessage(m) PROVE Goal
    BY <1>j, NoNewMessage DEF EmitMessage, Known
  <1>k. ASSUME NEW part \in SUBSET list, EmitContainer(part) PROVE Goal
    <2>1. ~violated
      BY <1>0, <1>k DEF EmitContainer, TypeOK
    <2>2. /\ Known' \subseteq Known \cup {Message(FALSE)} /\ last' = ClientMessageId
          /\ seq' = NextSeqNo(FALSE) /\ hidden' = (hidden \/ Backwards)
      BY <1>k DEF EmitContainer, Known
    <2>3. UniqueIds' /\ SeqNoFollowsIds' /\ LastIsLatest'
      BY <2>1, <2>2, OneNewMessage
    <2>4. ContainerAfterChildren'
      <3> SUFFICES ASSUME ~hidden', NEW c \in containers', NEW i \in c.children
                   PROVE  i < c.id
        BY DEF ContainerAfterChildren
      <3>1. ~hidden /\ ~Backwards
        BY <2>2
      <3>2. CASE c \in containers
        BY <3>1, <3>2 DEF IndInv, ContainerAfterChildren
      <3>3. CASE c \notin containers
        <4> DEFINE kids == {m.id : m \in {x \in part : x.content}}
        <4>0. containers' \subseteq containers
                 \cup {[id |-> Message(FALSE).id, children |-> kids]}
          BY <1>k DEF EmitContainer
        <4> HIDE DEF kids
        <4>1. c.id = Message(FALSE).id /\ c.children = kids
          <5>1. c = [id |-> Message(FALSE).id, children |-> kids]
            BY <4>0, <3>3, Zenon
          <5> QED
            BY <5>1
        <4>2. PICK m \in part : m.id = i
          BY <4>1 DEF kids
        <4>3. m \in Known /\ m.id \in Nat
          BY <1>0 DEF Known, TypeOK, MessageType
        <4>4. m.id <= last
          BY <2>1, <3>1, <4>3 DEF IndInv, LastIsLatest
        <4>5. c.id > last /\ c.id \in Nat /\ last \in Nat
          BY <1>0, <3>1, <4>1, NewIdFacts, NewMessageFacts DEF TypeOK
        <4> QED
          BY <4>2, <4>3, <4>4, <4>5
      <3> QED
        BY <3>2, <3>3
    <2> QED
      BY <2>3, <2>4
  <1> QED
    BY <1>a, <1>b, <1>c, <1>d, <1>e, <1>f, <1>g, <1>h, <1>i, <1>j, <1>k
       DEF Next, SessionReset, AbortTransaction

(* The inductive invariant holds in every state of a behaviour.            *)
LEMMA IndInvariant == Spec => []IndInv
  <1>1. Init => IndInv
    <2> SUFFICES ASSUME Init PROVE IndInv
      OBVIOUS
    <2>1. TypeOK
      <3>1. /\ clock \in 1..MaxTime /\ session \in Nat
            /\ last \in Nat /\ last % 4 = 0 /\ seq \in Nat /\ seq % 2 = 0
        BY DEF Init
      <3> QED
        BY <3>1, Zenon DEF Init, TypeOK
    <2>2. Known = {} /\ containers = {}
      BY DEF Init, Known
    <2> QED
      BY <2>1, <2>2
         DEF IndInv, UniqueIds, SeqNoFollowsIds, ContainerAfterChildren, LastIsLatest
  <1> QED
    BY <1>1, IndStep, PTL DEF Spec

(* No two messages of a session ever have the same id, whatever the clock  *)
(* does, unless a caller without a flag was given an id that ran backwards.*)
THEOREM IdsAreUnique == Spec => []UniqueIds
  <1>1. IndInv => UniqueIds
    BY DEF IndInv
  <1> QED
    BY <1>1, IndInvariant, PTL

(* Sequence numbers grow with the ids: the server never has a reason for   *)
(* its bad_msg_notification 32 or 33.                                      *)
THEOREM SeqNosFollowIds == Spec => []SeqNoFollowsIds
  <1>1. IndInv => SeqNoFollowsIds
    BY DEF IndInv
  <1> QED
    BY <1>1, IndInvariant, PTL

(* A container always has a later id than the messages in it.              *)
THEOREM ContainersComeLast == Spec => []ContainerAfterChildren
  <1>1. IndInv => ContainerAfterChildren
    BY DEF IndInv
  <1> QED
    BY <1>1, IndInvariant, PTL
(* As long as nothing ran backwards, _lastClientMessageId and _seqNo are   *)
(* ahead of every message of the session, emitted or still in the list.    *)
THEOREM LastIsAhead == Spec => []LastIsLatest
  <1>1. IndInv => LastIsLatest
    BY DEF IndInv
  <1> QED
    BY <1>1, IndInvariant, PTL
=============================================================================
