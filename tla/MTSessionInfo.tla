---------------------------- MODULE MTSessionInfo ----------------------------
(***************************************************************************)
(* How a client message gets its id and its sequence number, and a         *)
(* container its id (MTSessionInfo.m, and the loops of                     *)
(* transportReadyForTransaction in MTProto.m that call it).                *)
(*                                                                         *)
(* An id is the global time times 2^32.  The time is a double, so only     *)
(* every Quantum-th id is a time (Quantum is a multiple of 4), and the     *)
(* clock may be read several times at one instant, or be set back by a     *)
(* time sync or by the user.  A message of a transaction whose id would    *)
(* run backwards raises monotonityViolated and the session is given up;    *)
(* a container, a time fix ping and a key binding pass NULL for the flag.  *)
(***************************************************************************)
EXTENDS Integers, FiniteSets

CONSTANTS
    Quantum,      \* distance of two times, in ids
    MaxTime,      \* bound on the clock
    MaxMessages,  \* bound on the messages of one session
    MaxSessions   \* bound on the sessions

ASSUME SessionAssumption ==
    /\ Quantum \in Nat \ {0} /\ Quantum % 4 = 0
    /\ MaxTime \in Nat \ {0} /\ MaxMessages \in Nat /\ MaxSessions \in Nat

VARIABLES
    clock,        \* [_context globalTime]
    session,      \* _sessionId, by number
    last,         \* _lastClientMessageId
    seq,          \* _seqNo
    containers,   \* _containerMessagesMappingDict
    wire,         \* the messages of the session that were put into a payload
    list,         \* transactionMessageList of the transaction being made
    phase,        \* where transportReadyForTransaction is
    violated,     \* monotonityViolated
    hidden        \* a caller without a flag was given an id that ran backwards

info == <<session, last, seq, containers, wire>>
vars == <<clock, info, list, phase, violated, hidden>>

-----------------------------------------------------------------------------
(* Mutants: no rounding to a multiple of 4; an id equal to the last one is *)
(* not moved; a sequence number is used up by halves.                      *)
NotRounded(x) == x
(* generateClientMessageId.                                                *)
RoundUp(x) == x + ((4 - (x % 4)) % 4)

Backwards == Quantum * clock < last

UnmovedMessageId == RoundUp(Quantum * clock)

ClientMessageId ==
    RoundUp(IF Quantum * clock = last THEN last + 1 ELSE Quantum * clock)

(* takeSeqNo.                                                              *)
SeqNo(meaningful)     == IF meaningful THEN seq + 1 ELSE seq
HalfSeqNo(meaningful) == IF meaningful THEN seq + 1 ELSE seq
NextSeqNo(meaningful) == IF meaningful THEN seq + 2 ELSE seq

Message(meaningful) ==
    [id |-> ClientMessageId, seq |-> SeqNo(meaningful), content |-> meaningful]

Known == wire \cup list
Room  == Cardinality(Known) < MaxMessages /\ seq < 2 * MaxMessages

-----------------------------------------------------------------------------
Tick ==
    /\ clock < MaxTime
    /\ clock' = clock + 1
    /\ UNCHANGED <<info, list, phase, violated, hidden>>

(* setGlobalTimeDifference, or the user's own clock.                       *)
SetClock(t) ==
    /\ clock' = t
    /\ UNCHANGED <<info, list, phase, violated, hidden>>

(* resetSessionInfo.                                                       *)
ResetSessionInfo ==
    /\ session < MaxSessions
    /\ session' = session + 1
    /\ last' = 0 /\ seq' = 0
    /\ containers' = {} /\ wire' = {} /\ list' = {}
    /\ phase' = "idle" /\ violated' = FALSE /\ hidden' = FALSE
    /\ UNCHANGED clock

(* A reset for another reason: parse error, bad_msg_notification.          *)
SessionReset == phase = "idle" /\ ResetSessionInfo

BeginTransaction ==
    /\ phase = "idle"
    /\ phase' = "prepare"
    /\ UNCHANGED <<clock, info, list, violated, hidden>>

(* Mutant: nobody looks whether an id runs backwards.                      *)
PrepareUnchecked(meaningful) ==
    /\ phase = "prepare" /\ Room
    /\ list' = list \cup {Message(meaningful)}
    /\ last' = ClientMessageId
    /\ seq' = NextSeqNo(meaningful)
    /\ UNCHANGED <<clock, session, containers, wire, phase, violated, hidden>>

(* The loop over the outgoing messages.  A message without an id takes one *)
(* and a sequence number even after the flag was raised, but is then not   *)
(* prepared.                                                               *)
PrepareMessage(meaningful) ==
    /\ phase = "prepare" /\ Room
    /\ violated' = (violated \/ Backwards)
    /\ list' = IF violated' THEN list ELSE list \cup {Message(meaningful)}
    /\ last' = ClientMessageId
    /\ seq' = NextSeqNo(meaningful)
    /\ UNCHANGED <<clock, session, containers, wire, phase, hidden>>

(* A message that is sent again keeps its id and its sequence number.      *)
PrepareRepeat(m) ==
    /\ phase = "prepare" /\ m.content
    /\ list' = IF violated THEN list ELSE list \cup {m}
    /\ UNCHANGED <<clock, info, phase, violated, hidden>>

(* A transaction with ids that run backwards is given up with the session. *)
AbortTransaction ==
    /\ phase = "prepare" /\ violated
    /\ ResetSessionInfo

BuildTransaction ==
    /\ phase = "prepare" /\ ~violated
    /\ phase' = IF list = {} THEN "idle" ELSE "build"
    /\ UNCHANGED <<clock, info, list, violated, hidden>>

(* _dataForEncryptedMessage.                                               *)
EmitMessage(m) ==
    /\ phase = "build"
    /\ list' = list \ {m}
    /\ wire' = wire \cup {m}
    /\ phase' = IF list' = {} THEN "idle" ELSE "build"
    /\ UNCHANGED <<clock, session, last, seq, containers, violated, hidden>>

(* _dataForEncryptedContainerWithMessages for the part of the list that    *)
(* the size limit and the priorities put together.  Only the messages that *)
(* require confirmation enter the mapping.                                 *)
EmitContainer(part) ==
    /\ phase = "build" /\ Cardinality(part) > 1 /\ Room
    /\ LET box  == Message(FALSE)
           kids == {m.id : m \in {x \in part : x.content}}
       IN  /\ wire' = wire \cup part \cup {box}
           /\ containers' = IF kids = {} THEN containers
                            ELSE {c \in containers : c.id # box.id}
                                 \cup {[id |-> box.id, children |-> kids]}
    /\ hidden' = (hidden \/ Backwards)
    /\ last' = ClientMessageId
    /\ seq' = NextSeqNo(FALSE)
    /\ list' = list \ part
    /\ phase' = IF list' = {} THEN "idle" ELSE "build"
    /\ UNCHANGED <<clock, session, violated>>

(* The time fix ping and the temporary key binding (meaningful), which     *)
(* make a payload of their own.                                            *)
ServiceMessage(meaningful) ==
    /\ phase = "idle" /\ Room
    /\ wire' = wire \cup {Message(meaningful)}
    /\ hidden' = (hidden \/ Backwards)
    /\ last' = ClientMessageId
    /\ seq' = NextSeqNo(meaningful)
    /\ UNCHANGED <<clock, session, containers, list, phase, violated>>

-----------------------------------------------------------------------------
Init ==
    /\ clock \in 1..MaxTime
    /\ session = 1 /\ last = 0 /\ seq = 0
    /\ containers = {} /\ wire = {} /\ list = {}
    /\ phase = "idle" /\ violated = FALSE /\ hidden = FALSE

Next ==
    \/ Tick
    \/ \E t \in 1..MaxTime : t < clock /\ SetClock(t)
    \/ SessionReset \/ BeginTransaction \/ AbortTransaction \/ BuildTransaction
    \/ \E meaningful \in BOOLEAN : \/ PrepareMessage(meaningful)
                                   \/ ServiceMessage(meaningful)
    \/ \E m \in wire : PrepareRepeat(m)
    \/ \E m \in list : EmitMessage(m)
    \/ \E part \in SUBSET list : EmitContainer(part)

Spec == Init /\ [][Next]_vars

-----------------------------------------------------------------------------
(* Ids are multiples of 4; a message requires confirmation if and only if  *)
(* its sequence number is odd; there is a list only inside a transaction.  *)
MessageType ==
    {m \in [id : Nat, seq : Nat, content : BOOLEAN] :
        m.id % 4 = 0 /\ (m.content <=> m.seq % 2 = 1)}

TypeOK ==
    /\ clock \in 1..MaxTime /\ session \in Nat
    /\ last \in Nat /\ last % 4 = 0
    /\ seq \in Nat /\ seq % 2 = 0
    /\ containers \subseteq [id : Nat, children : SUBSET Nat]
    /\ wire \subseteq MessageType /\ list \subseteq MessageType
    /\ phase \in {"idle", "prepare", "build"}
    /\ violated \in BOOLEAN /\ hidden \in BOOLEAN
    /\ phase = "idle" => list = {}
    /\ violated => phase = "prepare"

(* Two messages of one session never share an id (the server would take    *)
(* the second for a repeat of the first), however the clock is set: the    *)
(* flag catches every id that runs backwards, but for the callers that     *)
(* pass no flag.                                                           *)
UniqueIds ==
    ~hidden => \A a, b \in Known : a.id = b.id => a = b

(* The later id has the later sequence number, and a message that requires *)
(* confirmation a strictly later one: otherwise the server answers         *)
(* bad_msg_notification 32 or 33, which costs the session.                 *)
SeqNoFollowsIds ==
    ~hidden => \A a, b \in Known : a.id < b.id =>
        a.seq <= b.seq /\ (a.content \/ b.content => a.seq < b.seq)

(* A container's id is above the ids of the messages in it.                *)
ContainerAfterChildren ==
    ~hidden => \A c \in containers : \A i \in c.children : i < c.id

(* While no id ran backwards, _lastClientMessageId and _seqNo are ahead of *)
(* every message of the session: the next id and number will be new.       *)
LastIsLatest ==
    ~hidden /\ ~violated => \A m \in Known :
        m.id <= last /\ m.seq <= seq /\ (m.content => m.seq < seq)
=============================================================================
