--------------------------- MODULE MTApiInitProofs ---------------------------
(***************************************************************************)
(* Proofs of StoredIsTold and OrderKept: the hash stored with the key says *)
(* what the server was told, and requests that depend on each other are    *)
(* executed in the order they were added.                                  *)
(***************************************************************************)
EXTENDS MTApiInit, QueueTheorems, WellFoundedInduction

(* The messages the server has not executed: on their way, or waiting. *)
Pending == srv.todo \cup (UNION {ToSet(up[c]) : c \in Conn})

(* p comes after q in the list s. *)
Follows(s, q, p) ==
    \E i, j \in 1..Len(s) : i < j /\ s[i] = q /\ s[j] = p

(* Connections and message ids are handed out upwards. *)
Counted ==
    /\ conn <= updates + faults + 1 /\ nextMsg >= 1
    /\ \A m \in Pending : m.id \in 1..(nextMsg - 1) /\ m.req \in added \cup 1..updates
    /\ \A x \in srv.ended : x.id < nextMsg

(* A request has a context only while it is in _requests, and the context  *)
(* has a message id.                                                       *)
Contexts ==
    \A r \in All : rc[r] # NoContext => r \in ToSet(requests) /\ rc[r].id >= 1

(* No message of K ends well before q was executed: q's own messages are   *)
(* L, and a message of K waits for one of K or L.  K has the messages of   *)
(* every request of the chain behind q.                                    *)
Blocks(q, K, L) ==
    /\ \A x \in srv.ended : x.how = "ok" => x.id \notin K \cup L
    /\ \A m \in Pending : /\ m.id \in K => m.after \in K \cup L
                          /\ m.id \in L <=> m.req = q
                          /\ m.req \in Chain /\ Follows(requests, q, m.req) => m.id \in K
    /\ \A p \in ToSet(requests) : rc[p] # NoContext =>
         /\ rc[p].id \in L <=> p = q
         /\ rc[p].id \in K <=> p \in Chain /\ Follows(requests, q, p)

Ordered ==
    loose = {} => \A q \in (Chain \cap ToSet(requests)) \ ran :
        \E K \in SUBSET (1..(nextMsg - 1)) : \E L \in SUBSET (1..(nextMsg - 1)) :
            Blocks(q, K, L)

(* The invariant. *)
Told == stored = env => ~OtherIsSent(env) \/ stale

IndInv == TypeOK /\ Told /\ Counted /\ Contexts /\ Ordered

-----------------------------------------------------------------------------
(*                            Lists of requests                            *)

(* The place of an element that occurs once. *)
LEMMA PlaceOf ==
    ASSUME NEW S, NEW s \in Seq(S), IsInjective(s), NEW i \in 1..Len(s)
    PROVE  Place(s, s[i]) = i
  <1> DEFINE I == {j \in 1..Len(s) : s[j] = s[i]}
  <1>1. Len(s) \in Nat /\ DOMAIN s = 1..Len(s)
    BY LenProperties
  <1>2. I = {i}
    BY <1>1 DEF IsInjective
  <1>3. Place(s, s[i]) = Min(I)
    BY <1>2 DEF Place, SelectInSeq
  <1>4. Min({i}) = i
    BY <1>1 DEF Min
  <1> QED
    BY <1>2, <1>3, <1>4

(* What the places say of the order. *)
LEMMA FollowsByPlace ==
    ASSUME NEW S, NEW s \in Seq(S), IsInjective(s), NEW p \in ToSet(s), NEW q \in ToSet(s)
    PROVE  /\ Place(s, q) \in 1..Len(s) /\ s[Place(s, q)] = q
           /\ Place(s, q) < Place(s, p) <=> Follows(s, q, p)
  <1>1. Len(s) \in Nat /\ DOMAIN s = 1..Len(s)
    BY LenProperties
  <1>2. PICK i \in 1..Len(s) : s[i] = q
    BY <1>1 DEF ToSet
  <1>3. PICK j \in 1..Len(s) : s[j] = p
    BY <1>1 DEF ToSet
  <1>4. Place(s, q) = i /\ Place(s, p) = j
    BY <1>2, <1>3, PlaceOf
  <1>5. \A a \in 1..Len(s) : (s[a] = q => a = i) /\ (s[a] = p => a = j)
    BY <1>1, <1>2, <1>3 DEF IsInjective
  <1> QED
    BY <1>2, <1>3, <1>4, <1>5 DEF Follows

(* A request is removed: removeObjectAtIndex: leaves the order of the rest. *)
LEMMA RemoveKeeps ==
    ASSUME NEW S, NEW s \in Seq(S), IsInjective(s), NEW r \in ToSet(s)
    PROVE  LET t == RemoveAt(s, Place(s, r))
           IN /\ t \in Seq(S) /\ IsInjective(t) /\ ToSet(t) = ToSet(s) \ {r}
              /\ \A p, q \in ToSet(t) : Follows(t, q, p) <=> Follows(s, q, p)
  <1> DEFINE n == Len(s)
             k == Place(s, r)
             t == RemoveAt(s, k)
  <1>1. n \in Nat /\ DOMAIN s = 1..n
    BY LenProperties
  <1>2. k \in 1..n /\ s[k] = r
    BY FollowsByPlace
  <1> HIDE DEF k
  <1>6. t \in Seq(S) /\ \E at : Removed(t, s, k, at)
    BY <1>2, RemoveAtIs
  <1>7. PICK at : Removed(t, s, k, at)
    BY <1>6
  <1>3. /\ t \in Seq(S) /\ Len(t) = n - 1 /\ at \in [1..(n - 1) -> 1..n]
        /\ \A i \in 1..(n - 1) : t[i] = s[at[i]]
        /\ \A i, j \in 1..(n - 1) : i < j <=> at[i] < at[j]
        /\ \A j \in 1..n : j # k => \E i \in 1..(n - 1) : at[i] = j
    BY <1>6, <1>7 DEF Removed
  <1>4. /\ IsInjective(t) /\ ToSet(t) = ToSet(s) \ {r}
    BY <1>2, RemoveAtKeeps
  <1> HIDE DEF t, n
  <1>5. ASSUME NEW p \in ToSet(t), NEW q \in ToSet(t)
        PROVE  Follows(t, q, p) <=> Follows(s, q, p)
    <2>1. ASSUME Follows(t, q, p)
          PROVE  Follows(s, q, p)
      <3>1. PICK i \in 1..(n - 1), j \in 1..(n - 1) : i < j /\ t[i] = q /\ t[j] = p
        BY <1>3, <2>1 DEF Follows
      <3>2. at[i] \in 1..n /\ at[j] \in 1..n /\ at[i] < at[j] /\ s[at[i]] = q /\ s[at[j]] = p
        BY <3>1, <1>3
      <3> QED
        BY <3>2 DEF Follows, n
    <2>2. ASSUME Follows(s, q, p)
          PROVE  Follows(t, q, p)
      <3>1. PICK i \in 1..n, j \in 1..n : i < j /\ s[i] = q /\ s[j] = p
        BY <2>2 DEF Follows, n
      <3>2. i # k /\ j # k
        BY <3>1, <1>2, <1>4
      <3>3. PICK a \in 1..(n - 1) : at[a] = i
        BY <3>2, <1>3
      <3>4. PICK b \in 1..(n - 1) : at[b] = j
        BY <3>2, <1>3
      <3>5. a < b /\ t[a] = q /\ t[b] = p
        BY <3>1, <3>3, <3>4, <1>3
      <3> QED
        BY <3>5, <1>3 DEF Follows
    <2> QED
      BY <2>1, <2>2
  <1> QED
    BY <1>3, <1>4, <1>5 DEF t, k

(* A request is added at the end. *)
LEMMA AppendKeeps ==
    ASSUME NEW S, NEW s \in Seq(S), IsInjective(s), NEW r \in S, r \notin ToSet(s)
    PROVE  LET t == Append(s, r)
           IN /\ t \in Seq(S) /\ IsInjective(t) /\ ToSet(t) = ToSet(s) \cup {r}
              /\ \A p, q \in ToSet(s) : Follows(t, q, p) <=> Follows(s, q, p)
              /\ \A p \in ToSet(t) : ~Follows(t, r, p)
              /\ \A q \in ToSet(s) : Follows(t, q, r)
  <1> DEFINE t == Append(s, r)
             n == Len(s)
  <1>1. t \in Seq(S) /\ Added(t, s, r)
    BY AppendAdds
  <1>2. n \in Nat /\ DOMAIN s = 1..n /\ DOMAIN t = 1..Len(t)
    BY <1>1, LenProperties
  <1> HIDE DEF t
  <1>3. /\ Len(t) = n + 1 /\ t[n + 1] = r
        /\ \A i \in 1..n : t[i] = s[i]
        /\ \A i \in 1..(n + 1) : i \in 1..n \/ i = n + 1
        /\ \A i \in 1..n : i \in 1..(n + 1) /\ i < n + 1
        /\ n + 1 \in 1..(n + 1)
    BY <1>1, <1>2 DEF Added
  <1>4. \A i \in 1..n : s[i] # r
    BY <1>2 DEF ToSet
  <1> HIDE DEF n
  <1>5. IsInjective(t)
    BY <1>2, <1>3, <1>4 DEF IsInjective
  <1>6. ToSet(t) = ToSet(s) \cup {r}
    BY <1>2, <1>3 DEF ToSet
  <1>7. \A p, q \in ToSet(s) : Follows(t, q, p) <=> Follows(s, q, p)
    BY <1>2, <1>3, <1>4 DEF Follows, ToSet, n
  <1>8. \A p \in ToSet(t) : ~Follows(t, r, p)
    BY <1>2, <1>3, <1>4 DEF Follows, n
  <1>9. ASSUME NEW q \in ToSet(s)
        PROVE  Follows(t, q, r)
    BY <1>2, <1>3 DEF Follows, ToSet, n
  <1> QED
    BY <1>1, <1>5, <1>6, <1>7, <1>8, <1>9 DEF t

(* A set of numbers with a bound has a largest one. *)
LEMMA HasLargest ==
    ASSUME NEW n \in Nat, NEW J \in SUBSET (1..n), J # {}
    PROVE  \E k \in J : \A m \in J : m <= k
  <1> DEFINE R == OpToRel(<, Nat)
             T == {n - j : j \in J}
  <1>1. T \in SUBSET Nat /\ T # {}
    <2>1. \A j \in J : n - j \in Nat
      OBVIOUS
    <2>2. PICK j \in J : TRUE
      OBVIOUS
    <2>3. n - j \in T
      BY <2>2
    <2> QED
      BY <2>1, <2>3
  <1>2. IsWellFoundedOn(R, Nat)
    BY NatLessThanWellFounded
  <1>3. \A a, b \in Nat : a < b => <<a, b>> \in R
    BY DEF OpToRel
  <1> HIDE DEF R, T
  <1>4. PICK x \in T : \A y \in T : ~(<<y, x>> \in R)
    BY <1>1, <1>2, WFMin
  <1>5. PICK k \in J : x = n - k
    BY DEF T
  <1>6. ASSUME NEW m \in J
        PROVE  m <= k
    <2>1. n - m \in T /\ n - m \in Nat /\ x \in Nat
      BY <1>1 DEF T
    <2>2. ~(n - m < x)
      BY <1>3, <1>4, <2>1
    <2> QED
      BY <1>5, <2>2
  <1> QED
    BY <1>6

(* The request that another depends on is in the list; it is q, or behind  *)
(* q, when q is before.                                                    *)
LEMMA EarlierIs ==
    ASSUME TypeOK, NEW r \in ToSet(requests)
    PROVE  /\ Earlier(r) \subseteq ToSet(requests) \cap Chain
           /\ \A q \in Chain : r \in Chain /\ Follows(requests, q, r) =>
                /\ Earlier(r) # {}
                /\ \A p \in Earlier(r) : p = q \/ Follows(requests, q, p)
  <1> DEFINE s == requests
             i == Place(s, r)
             js == {j \in 1..(i - 1) : r \in Chain /\ s[j] \in Chain}
             ks == {k \in js : \A m \in js : m <= k}
  <1>1. s \in Seq(All) /\ IsInjective(s) /\ Len(s) \in Nat /\ DOMAIN s = 1..Len(s)
    BY LenProperties DEF TypeOK
  <1>2. i \in 1..Len(s) /\ s[i] = r
    BY <1>1, FollowsByPlace
  <1>3. Earlier(r) = {s[j] : j \in ks}
    BY DEF Earlier
  <1> HIDE DEF i
  <1>4. \A j \in js : j \in 1..Len(s) /\ j < i /\ s[j] \in Chain /\ j \in 1..(i - 1)
    BY <1>1, <1>2
  <1>5. Earlier(r) \subseteq ToSet(s) \cap Chain
    BY <1>1, <1>3, <1>4 DEF ToSet
  <1>6. ASSUME NEW q \in Chain, r \in Chain, Follows(s, q, r)
        PROVE  /\ Earlier(r) # {}
               /\ \A p \in Earlier(r) : p = q \/ Follows(s, q, p)
    <2>1. PICK a \in 1..Len(s), b \in 1..Len(s) : a < b /\ s[a] = q /\ s[b] = r
      BY <1>6 DEF Follows
    <2>2. b = i
      BY <2>1, <1>1, <1>2 DEF IsInjective
    <2>3. a \in 1..(i - 1) /\ a \in js
      BY <2>1, <2>2, <1>1, <1>2, <1>6
    <2>4. i - 1 \in Nat /\ js \in SUBSET (1..(i - 1))
      BY <1>1, <1>2
    <2> HIDE DEF js
    <2>5. \E k \in js : \A m \in js : m <= k
      BY <2>3, <2>4, HasLargest
    <2>6. Earlier(r) # {}
      BY <2>5, <1>3
    <2>7. ASSUME NEW k \in ks
          PROVE  s[k] = q \/ Follows(s, q, s[k])
      <3>1. a <= k /\ k \in 1..Len(s) /\ a \in 1..Len(s)
        BY <1>4, <2>3
      <3>2. CASE a = k
        BY <3>2, <2>1
      <3>3. CASE a # k
        <4>1. a < k
          BY <3>1, <3>3
        <4> QED
          BY <4>1, <3>1, <2>1 DEF Follows
      <3> QED
        BY <3>2, <3>3
    <2> QED
      BY <2>6, <2>7, <1>3
  <1> QED
    BY <1>5, <1>6

(* The ids of a transaction: those it keeps, and new ones, all different. *)
LEMMA NewIdsAre ==
    ASSUME TypeOK, Contexts, nextMsg >= 1
    PROVE  /\ Cardinality(Fresh) \in Nat
           /\ NewIds \in [Sendable -> 1..(nextMsg + Cardinality(Fresh) - 1)]
           /\ \A r \in Fresh : r \in Sendable /\ NewIds[r] >= nextMsg
           /\ \A r \in Sendable : r \notin Fresh => rc[r] # NoContext /\ NewIds[r] = rc[r].id
           /\ \A p, r \in Fresh : NewIds[p] = NewIds[r] => p = r
  <1> DEFINE at(r) == Place(requests, r)
  <1>1. /\ requests \in Seq(All) /\ IsInjective(requests) /\ DOMAIN requests = 1..Len(requests)
        /\ Len(requests) \in Nat /\ nextMsg \in Nat
        /\ ToSet(requests) \subseteq All
        /\ \A r \in All : rc[r].id \in 0..(nextMsg - 1)
    <2>1. requests \in Seq(All) /\ Len(requests) \in Nat /\ DOMAIN requests = 1..Len(requests)
      BY LenProperties DEF TypeOK
    <2>2. \A i \in 1..Len(requests) : requests[i] \in All
      BY <2>1, ElementOfSeq
    <2>3. ToSet(requests) \subseteq All
      BY <2>1, <2>2 DEF ToSet
    <2> QED
      BY <2>1, <2>3 DEF TypeOK
  <1>2. \A r \in ToSet(requests) : at(r) \in 1..Len(requests) /\ requests[at(r)] = r
    BY <1>1, FollowsByPlace
  <1>3. Fresh \subseteq Sendable /\ Sendable \subseteq ToSet(requests)
    BY DEF Fresh, Sendable
  <1>4. IsFiniteSet(Fresh)
    <2> DEFINE f == [i \in 1..Len(requests) |-> requests[i]]
    <2>1. f \in Surjection(1..Len(requests), ToSet(requests))
      BY <1>1 DEF Surjection, ToSet
    <2>2. IsFiniteSet(1..Len(requests))
      BY <1>1, FS_Interval
    <2>3. IsFiniteSet(ToSet(requests))
      BY <2>1, <2>2, FS_Surjection
    <2> QED
      BY <1>3, <2>3, FS_Subset
  <1>5. \A r \in Fresh : FreshBefore(r) \in SUBSET Fresh /\ r \notin FreshBefore(r)
    <2>1. \A r \in Fresh : at(r) \in Nat
      BY <1>2, <1>3
    <2> QED
      BY <2>1 DEF FreshBefore
  <1>6. /\ Cardinality(Fresh) \in Nat
        /\ \A r \in Fresh : /\ IsFiniteSet(FreshBefore(r)) /\ Cardinality(FreshBefore(r)) \in Nat
                            /\ Cardinality(FreshBefore(r)) < Cardinality(Fresh)
    <2>1. Cardinality(Fresh) \in Nat
      BY <1>4, FS_CardinalityType
    <2>2. ASSUME NEW r \in Fresh
          PROVE  /\ IsFiniteSet(FreshBefore(r)) /\ Cardinality(FreshBefore(r)) \in Nat
                 /\ Cardinality(FreshBefore(r)) < Cardinality(Fresh)
      <3>1. /\ IsFiniteSet(FreshBefore(r)) /\ Cardinality(FreshBefore(r)) <= Cardinality(Fresh)
            /\ Cardinality(Fresh) = Cardinality(FreshBefore(r)) => Fresh = FreshBefore(r)
        BY <1>4, <1>5, FS_Subset
      <3>2. Cardinality(FreshBefore(r)) \in Nat
        BY <3>1, FS_CardinalityType
      <3> QED
        BY <3>1, <3>2, <2>1, <1>5
    <2> QED
      BY <2>1, <2>2
  <1>7. ASSUME NEW p \in Fresh, NEW r \in Fresh, at(p) < at(r)
        PROVE  Cardinality(FreshBefore(p)) < Cardinality(FreshBefore(r))
    <2>1. at(p) \in Nat /\ at(r) \in Nat /\ \A x \in Fresh : at(x) \in Nat
      BY <1>2, <1>3
    <2>2. FreshBefore(p) \in SUBSET FreshBefore(r) /\ p \in FreshBefore(r)
      BY <1>7, <2>1 DEF FreshBefore
    <2>3. /\ Cardinality(FreshBefore(p)) <= Cardinality(FreshBefore(r))
          /\ Cardinality(FreshBefore(r)) = Cardinality(FreshBefore(p))
               => FreshBefore(r) = FreshBefore(p)
      BY <1>6, <2>2, FS_Subset
    <2> QED
      BY <2>2, <2>3, <1>5, <1>6
  <1>8. \A p, r \in Fresh : NewIds[p] = NewIds[r] => p = r
    <2> SUFFICES ASSUME NEW p \in Fresh, NEW r \in Fresh, NewIds[p] = NewIds[r]
                 PROVE  p = r
      OBVIOUS
    <2>1. nextMsg + Cardinality(FreshBefore(p)) = nextMsg + Cardinality(FreshBefore(r))
      BY <1>3 DEF NewIds
    <2>2. Cardinality(FreshBefore(p)) = Cardinality(FreshBefore(r))
      BY <2>1, <1>1, <1>6
    <2>3. ~(at(p) < at(r)) /\ ~(at(r) < at(p))
      BY <2>2, <1>6, <1>7
    <2>4. at(p) \in Nat /\ at(r) \in Nat
      BY <1>2, <1>3
    <2>5. at(p) = at(r)
      BY <2>3, <2>4
    <2> QED
      BY <2>5, <1>2, <1>3
  <1>9. \A r \in Sendable : r \notin Fresh => rc[r] # NoContext /\ NewIds[r] = rc[r].id
                                             /\ rc[r].id \in 1..(nextMsg - 1)
    BY <1>1, <1>3 DEF NewIds, Fresh, Contexts
  <1>10. \A r \in Fresh : NewIds[r] \in nextMsg..(nextMsg + Cardinality(Fresh) - 1)
    <2>1. \A r \in Fresh : NewIds[r] = nextMsg + Cardinality(FreshBefore(r))
      BY <1>3 DEF NewIds
    <2> QED
      BY <2>1, <1>1, <1>6
  <1>11. NewIds \in [Sendable -> 1..(nextMsg + Cardinality(Fresh) - 1)]
    <2>1. NewIds = [r \in Sendable |-> NewIds[r]]
      BY DEF NewIds
    <2>2. \A r \in Sendable : NewIds[r] \in 1..(nextMsg + Cardinality(Fresh) - 1)
      BY <1>1, <1>6, <1>9, <1>10
    <2> QED
      BY <2>1, <2>2
  <1> QED
    BY <1>1, <1>3, <1>6, <1>8, <1>9, <1>10, <1>11

-----------------------------------------------------------------------------
(*                     What a step leaves in place                         *)

(* The messages the server has not executed, one by one. *)
LEMMA PendingIs ==
    \A m : m \in Pending <=> m \in srv.todo \/ \E c \in Conn : m \in ToSet(up[c])
  BY DEF Pending

(* The types, spelled out. *)
LEMMA Types ==
    ASSUME TypeOK
    PROVE  /\ requests \in Seq(All) /\ IsInjective(requests) /\ ToSet(requests) \subseteq All
           /\ IsFiniteSet(ToSet(requests))
           /\ rc \in [All -> [id : 0..(nextMsg - 1), init : BOOLEAN, on : Conn \cup {0}]]
           /\ up \in [Conn -> Seq(Message)] /\ nextMsg \in Nat /\ conn \in Conn
           /\ \A c \in Conn : ToSet(up[c]) \subseteq Message
           /\ Pending \subseteq Message
           /\ Chain \subseteq Request /\ Request \cap Noop = {} /\ 0 \notin Hash /\ Noop \subseteq Nat
           /\ MaxUpdates \in Nat /\ MaxFaults \in Nat
           /\ updates \in 0..MaxUpdates /\ faults \in 0..MaxFaults
           /\ NoContext \in [id : 0..(nextMsg - 1), init : BOOLEAN, on : Conn \cup {0}]
                \/ nextMsg = 0
  <1>1. requests \in Seq(All) /\ Len(requests) \in Nat /\ DOMAIN requests = 1..Len(requests)
    BY LenProperties DEF TypeOK
  <1>2. \A i \in 1..Len(requests) : requests[i] \in All
    BY <1>1, ElementOfSeq
  <1>3. ToSet(requests) \subseteq All
    BY <1>1, <1>2 DEF ToSet
  <1>4. IsFiniteSet(ToSet(requests))
    <2> DEFINE f == [i \in 1..Len(requests) |-> requests[i]]
    <2>1. f \in Surjection(1..Len(requests), ToSet(requests))
      BY <1>1 DEF Surjection, ToSet
    <2>2. IsFiniteSet(1..Len(requests))
      BY <1>1, FS_Interval
    <2> QED
      BY <2>1, <2>2, FS_Surjection
  <1>5. up \in [Conn -> Seq(Message)] /\ srv.todo \subseteq Message
    BY DEF TypeOK
  <1>6. ASSUME NEW c \in Conn
        PROVE  ToSet(up[c]) \subseteq Message
    <2>1. up[c] \in Seq(Message)
      BY <1>5
    <2>2. DOMAIN up[c] = 1..Len(up[c]) /\ \A i \in 1..Len(up[c]) : up[c][i] \in Message
      BY <2>1, LenProperties, ElementOfSeq
    <2> QED
      BY <2>2 DEF ToSet
  <1>7. Pending \subseteq Message
    BY <1>5, <1>6, PendingIs
  <1>8. nextMsg \in Nat
    BY DEF TypeOK
  <1>9. NoContext \in [id : 0..(nextMsg - 1), init : BOOLEAN, on : Conn \cup {0}] \/ nextMsg = 0
    BY <1>8 DEF NoContext
  <1> QED
    BY <1>1, <1>3, <1>4, <1>5, <1>6, <1>7, <1>8, <1>9, ApiAssumption DEF TypeOK, Noop

(* The elements of a queue without its first one. *)
LEMMA TailSet ==
    ASSUME NEW S, NEW q \in Seq(S), q # <<>>
    PROVE  /\ Tail(q) \in Seq(S) /\ Head(q) \in S
           /\ Head(q) \in ToSet(q) /\ ToSet(Tail(q)) \subseteq ToSet(q)
  <1>1. /\ Tail(q) \in Seq(S) /\ Dropped(Tail(q), q) /\ Head(q) = q[1] /\ 1 \in 1..Len(q)
    BY TailDrops
  <1>2. DOMAIN q = 1..Len(q) /\ DOMAIN Tail(q) = 1..Len(Tail(q))
    BY <1>1, LenProperties
  <1>3. Head(q) \in S
    BY <1>1, ElementOfSeq
  <1> DEFINE t == Tail(q)
             h == Head(q)
  <1> HIDE DEF t, h
  <1>4. \A i \in 1..Len(t) : t[i] \in ToSet(q)
    BY <1>1, <1>2 DEF ToSet, Dropped, t
  <1>5. h \in ToSet(q)
    BY <1>1, <1>2 DEF ToSet, h
  <1>6. ToSet(t) \subseteq ToSet(q)
    BY <1>2, <1>4 DEF ToSet, t
  <1> QED
    BY <1>1, <1>3, <1>5, <1>6 DEF t, h

(* The elements of two queues in a row. *)
LEMMA ConcatSet ==
    ASSUME NEW S, NEW q \in Seq(S), NEW r \in Seq(S)
    PROVE  q \o r \in Seq(S) /\ ToSet(q \o r) \subseteq ToSet(q) \cup ToSet(r)
  <1> DEFINE s == q \o r
  <1>1. s \in Seq(S) /\ Joined(s, q, r)
    BY ConcatJoins
  <1>2. DOMAIN q = 1..Len(q) /\ DOMAIN r = 1..Len(r) /\ DOMAIN s = 1..Len(s)
    BY <1>1, LenProperties
  <1> HIDE DEF s
  <1>3. ToSet(s) \subseteq ToSet(q) \cup ToSet(r)
    BY <1>1, <1>2 DEF ToSet, Joined
  <1> QED
    BY <1>1, <1>3 DEF s

(* Nothing is sent to the server: no other environment is. *)
LEMMA ToldKept ==
    ASSUME TypeOK, TypeOK', Told, stored' = stored, env' = env, stale' = stale,
           \/ srv'.env \in {srv.env, 0}
           \/ \E c \in Conn : \E m \in ToSet(up[c]) : srv'.env = m.init,
           \A c \in Conn : \A m \in ToSet(up'[c]) : m \in ToSet(up[c]) \/ m.init \in {0, env}
    PROVE  Told'
  <1> SUFFICES ASSUME stored = env, ~stale
               PROVE  ~OtherIsSent(env)'
    BY DEF Told
  <1>1. /\ srv.env \in {0, env}
        /\ \A c \in Conn : \A m \in ToSet(up[c]) : m.init \in {0, env}
    BY DEF Told, OtherIsSent
  <1>2. srv'.env \in {0, env}
    BY <1>1
  <1>3. \A c \in Conn : \A m \in ToSet(up'[c]) : m.init \in {0, env}
    BY <1>1
  <1> QED
    BY <1>2, <1>3 DEF OtherIsSent

(* A request that has a context after the step had it before. *)
Lasts(p) == rc'[p] # NoContext => rc[p] # NoContext /\ rc'[p].id = rc[p].id

(* What blocked the chain behind q still does. *)
LEMMA BlocksKept ==
    ASSUME NEW q, NEW K, NEW L, Blocks(q, K, L),
           Pending' \subseteq Pending,
           \A x \in srv'.ended : x.how = "ok" => x \in srv.ended \/ x.id \notin K \cup L,
           \A p \in ToSet(requests)' :
             /\ rc'[p] # NoContext => p \in ToSet(requests)
             /\ Lasts(p)
             /\ rc'[p] # NoContext =>
                  (Follows(requests', q, p) <=> Follows(requests, q, p)),
           \A m \in Pending : m.req \in Chain /\ Follows(requests', q, m.req)
                                => Follows(requests, q, m.req)
    PROVE  Blocks(q, K, L)'
  <1>1. \A x \in srv'.ended : x.how = "ok" => x.id \notin K \cup L
    BY DEF Blocks
  <1>2. \A m \in Pending' : /\ m.id \in K => m.after \in K \cup L
                            /\ m.id \in L <=> m.req = q
                            /\ m.req \in Chain /\ Follows(requests', q, m.req) => m.id \in K
    BY DEF Blocks
  <1>3. ASSUME NEW p \in ToSet(requests)', rc'[p] # NoContext
        PROVE  /\ rc'[p].id \in L <=> p = q
               /\ rc'[p].id \in K <=> p \in Chain /\ Follows(requests', q, p)
    BY <1>3 DEF Blocks, Lasts
  <1> QED
    BY <1>1, <1>2, <1>3 DEF Blocks

(* No request is added, no message is sent, nothing ends well. *)
LEMMA OrderedKept ==
    ASSUME TypeOK, Ordered, nextMsg' = nextMsg, loose' = loose, ran' = ran,
           Pending' \subseteq Pending,
           \A x \in srv'.ended : x.how = "ok" => x \in srv.ended,
           ToSet(requests)' \subseteq ToSet(requests),
           \A p, q \in ToSet(requests)' : Follows(requests', q, p) <=> Follows(requests, q, p),
           \A p \in ToSet(requests)' : Lasts(p),
           requests' \in Seq(All)
    PROVE  Ordered'
  <1> SUFFICES ASSUME loose = {}, NEW q \in (Chain \cap ToSet(requests)') \ ran
               PROVE  \E K \in SUBSET (1..(nextMsg - 1)) : \E L \in SUBSET (1..(nextMsg - 1)) :
                        Blocks(q, K, L)'
    BY DEF Ordered
  <1>1. PICK K \in SUBSET (1..(nextMsg - 1)), L \in SUBSET (1..(nextMsg - 1)) : Blocks(q, K, L)
    BY DEF Ordered
  <1>2. DOMAIN requests' = 1..Len(requests')
    BY LenProperties
  <1>3. \A p : Follows(requests', q, p) => p \in ToSet(requests)'
    BY <1>2 DEF Follows, ToSet
  <1>4. Blocks(q, K, L)'
    BY <1>1, <1>3, BlocksKept
  <1> QED
    BY <1>4

(* A request is added at the end. *)
LEMMA OrderedGrows ==
    ASSUME TypeOK, Ordered, nextMsg' = nextMsg, loose' = loose, ran' = ran,
           Pending' = Pending, srv' = srv,
           NEW r \in All, r \notin ToSet(requests), requests' = Append(requests, r),
           rc'[r] = NoContext,
           \A m \in Pending : m.req # r,
           \A p \in ToSet(requests) : Lasts(p)
    PROVE  Ordered'
  <1>1. /\ requests' \in Seq(All) /\ IsInjective(requests') /\ ToSet(requests)' = ToSet(requests) \cup {r}
        /\ \A p, q \in ToSet(requests) : Follows(requests', q, p) <=> Follows(requests, q, p)
        /\ \A p \in ToSet(requests)' : ~Follows(requests', r, p)
    BY AppendKeeps, Types
  <1>2. \A p, q : Follows(requests', q, p) => p \in ToSet(requests)'
    <2>1. DOMAIN requests' = 1..Len(requests')
      BY <1>1, LenProperties
    <2> QED
      BY <2>1 DEF Follows, ToSet
  <1> SUFFICES ASSUME loose = {}, NEW q \in (Chain \cap ToSet(requests)') \ ran
               PROVE  \E K \in SUBSET (1..(nextMsg - 1)) : \E L \in SUBSET (1..(nextMsg - 1)) :
                        Blocks(q, K, L)'
    BY DEF Ordered
  <1>3. CASE q = r
    <2>1. \A x : ~Follows(requests', r, x)
      BY <1>1, <1>2
    <2>2. \A p \in ToSet(requests)' : rc'[p] # NoContext => p # r
      OBVIOUS
    <2>3. Blocks(q, {}, {})'
      BY <1>3, <2>1, <2>2 DEF Blocks
    <2> QED
      BY <2>3
  <1>4. CASE q \in ToSet(requests)
    <2>1. PICK K \in SUBSET (1..(nextMsg - 1)), L \in SUBSET (1..(nextMsg - 1)) : Blocks(q, K, L)
      BY <1>4 DEF Ordered
    <2>2. \A p \in ToSet(requests)' : rc'[p] # NoContext => p \in ToSet(requests)
      BY <1>1
    <2>3. \A m \in Pending : m.req \in Chain /\ Follows(requests', q, m.req)
                                => Follows(requests, q, m.req)
      BY <1>1, <1>2, <1>4
    <2>4. \A p \in ToSet(requests)' : Lasts(p)
      BY <1>1, <2>2 DEF Lasts
    <2>5. Blocks(q, K, L)'
      BY <2>1, <2>2, <2>3, <2>4, <1>1, <1>4, BlocksKept
    <2> QED
      BY <2>5
  <1> QED
    BY <1>1, <1>3, <1>4

-----------------------------------------------------------------------------
(*                         The steps of the client                         *)

(* minimalExecuteTime has passed. *)
LEMMA WaitStep ==
    ASSUME IndInv, NEW r \in Request, WaitIsOver(r)
    PROVE  IndInv'
  <1> USE DEF IndInv
  <1>1. /\ UNCHANGED <<env, stored, requests, rc, nextMsg, conn, up, srv, ran, updates,
                       faults, stale, loose, added>>
        /\ held' = held \ {r}
    BY DEF WaitIsOver
  <1>2. TypeOK'
    BY <1>1 DEF TypeOK
  <1>3. Told'
    BY <1>1 DEF Told, OtherIsSent
  <1>4. Pending' = Pending
    BY <1>1 DEF Pending
  <1>5. Counted' /\ Contexts'
    BY <1>1, <1>4 DEF Counted, Contexts
  <1>6. Ordered'
    BY <1>1, <1>4, Types, OrderedKept DEF Lasts
  <1> QED
    BY <1>2, <1>3, <1>5, <1>6

(* addRequest:. *)
LEMMA AddStep ==
    ASSUME IndInv, NEW r \in Request, AddRequest(r)
    PROVE  IndInv'
  <1> USE DEF IndInv
  <1>1. /\ UNCHANGED <<env, stored, rc, held, nextMsg, conn, up, srv, ran, updates,
                       faults, stale, loose>>
        /\ r \notin added /\ added' = added \cup {r} /\ requests' = Append(requests, r)
    BY DEF AddRequest
  <1>2. r \in All /\ r \notin ToSet(requests) /\ r \notin 1..updates
    <2>1. r \notin 1..MaxUpdates /\ r \in All /\ updates \in 0..MaxUpdates
      BY ApiAssumption DEF All, TypeOK
    <2>2. 1..updates \subseteq 1..MaxUpdates
      BY <2>1, ApiAssumption
    <2> QED
      BY <1>1, <2>1, <2>2 DEF TypeOK
  <1>3. requests' \in Seq(All) /\ IsInjective(requests') /\ ToSet(requests)' = ToSet(requests) \cup {r}
    BY <1>1, <1>2, Types, AppendKeeps
  <1>4. TypeOK'
    BY <1>1, <1>3 DEF TypeOK
  <1>5. Told'
    BY <1>1 DEF Told, OtherIsSent
  <1>6. Pending' = Pending
    BY <1>1 DEF Pending
  <1>7. Counted' /\ Contexts'
    BY <1>1, <1>3, <1>6 DEF Counted, Contexts
  <1>8. rc[r] = NoContext /\ \A m \in Pending : m.req # r
    BY <1>1, <1>2 DEF Contexts, Counted
  <1>9. Ordered'
    BY <1>1, <1>2, <1>6, <1>8, OrderedGrows DEF Lasts
  <1> QED
    BY <1>4, <1>5, <1>7, <1>9

(* What the end of a request leaves of the invariant. *)
LEMMA WithoutKeeps ==
    ASSUME IndInv, NEW r \in ToSet(requests), Without(r)
    PROVE  /\ requests' \in Seq(All) /\ IsInjective(requests')
           /\ ToSet(requests)' = ToSet(requests) \ {r}
           /\ \A p, q \in ToSet(requests)' : Follows(requests', q, p) <=> Follows(requests, q, p)
           /\ held' \subseteq ToSet(requests)'
           /\ rc' \in [All -> [id : 0..(nextMsg - 1), init : BOOLEAN, on : Conn \cup {0}]]
           /\ \A p \in All : Lasts(p) /\ (rc'[p] # NoContext => p \in ToSet(requests)' /\ rc'[p].id >= 1)
  <1> USE DEF IndInv
  <1>1. /\ requests' = RemoveAt(requests, Place(requests, r))
        /\ rc' = [rc EXCEPT ![r] = NoContext] /\ held' = held \ {r}
    BY DEF Without
  <1>2. /\ requests' \in Seq(All) /\ IsInjective(requests')
        /\ ToSet(requests)' = ToSet(requests) \ {r}
        /\ \A p, q \in ToSet(requests)' : Follows(requests', q, p) <=> Follows(requests, q, p)
    BY <1>1, Types, RemoveKeeps
  <1>3. held' \subseteq ToSet(requests)'
    BY <1>1, <1>2 DEF TypeOK
  <1>4. /\ r \in All /\ NoContext \in [id : 0..(nextMsg - 1), init : BOOLEAN, on : Conn \cup {0}]
        /\ rc \in [All -> [id : 0..(nextMsg - 1), init : BOOLEAN, on : Conn \cup {0}]]
    BY Types DEF Counted
  <1> HIDE DEF IndInv
  <1>5. rc' \in [All -> [id : 0..(nextMsg - 1), init : BOOLEAN, on : Conn \cup {0}]]
    BY <1>1, <1>4
  <1>6. \A p \in All : p # r => rc'[p] = rc[p]
    BY <1>1, <1>4
  <1>7. rc'[r] = NoContext
    BY <1>1, <1>4
  <1>8. \A p \in All : Lasts(p) /\ (rc'[p] # NoContext => p \in ToSet(requests)' /\ rc'[p].id >= 1)
    BY <1>2, <1>6, <1>7 DEF Lasts, Contexts, IndInv
  <1> QED
    BY <1>2, <1>3, <1>5, <1>8

(* removeRequestByInternalId:. *)
LEMMA RemoveStep ==
    ASSUME IndInv, NEW r \in Request, RemoveRequest(r)
    PROVE  IndInv'
  <1> USE DEF IndInv
  <1>1. /\ UNCHANGED <<env, stored, nextMsg, conn, up, srv, ran, updates, stale, loose, added>>
        /\ r \in ToSet(requests) /\ Without(r)
        /\ faults < MaxFaults /\ faults' = faults + 1
    BY DEF RemoveRequest, Fault
  <1>2. /\ requests' \in Seq(All) /\ IsInjective(requests')
        /\ ToSet(requests)' = ToSet(requests) \ {r}
        /\ \A p, q \in ToSet(requests)' : Follows(requests', q, p) <=> Follows(requests, q, p)
        /\ held' \subseteq ToSet(requests)'
        /\ rc' \in [All -> [id : 0..(nextMsg - 1), init : BOOLEAN, on : Conn \cup {0}]]
        /\ \A p \in All : Lasts(p) /\ (rc'[p] # NoContext => p \in ToSet(requests)' /\ rc'[p].id >= 1)
    BY <1>1, WithoutKeeps
  <1>3. faults' \in 0..MaxFaults /\ faults \in Nat
    BY <1>1, ApiAssumption DEF TypeOK
  <1>4. TypeOK'
    BY <1>1, <1>2, <1>3 DEF TypeOK
  <1>5. Told'
    BY <1>1 DEF Told, OtherIsSent
  <1>6. Pending' = Pending
    BY <1>1 DEF Pending
  <1>7. Counted'
    <2>1. conn \in Int /\ updates \in Int
      BY ApiAssumption DEF TypeOK, Conn
    <2> QED
      BY <1>1, <1>3, <1>6, <2>1 DEF Counted
  <1>8. Contexts'
    BY <1>2 DEF Contexts
  <1>9. Ordered'
    BY <1>1, <1>2, <1>6, Types, OrderedKept
  <1> QED
    BY <1>4, <1>5, <1>7, <1>8, <1>9

(* transactionsMayHaveFailed. *)
LEMMA ReconnectedKeeps ==
    ASSUME IndInv, Reconnected
    PROVE  /\ rc' \in [All -> [id : 0..(nextMsg - 1), init : BOOLEAN, on : Conn \cup {0}]]
           /\ \A p \in All : Lasts(p)
  <1>1. /\ rc \in [All -> [id : 0..(nextMsg - 1), init : BOOLEAN, on : Conn \cup {0}]]
        /\ rc' = [r \in All |-> [rc[r] EXCEPT !.on = 0]]
    BY DEF Reconnected, IndInv, TypeOK
  <1>2. ASSUME NEW p \in All
        PROVE  /\ rc'[p] \in [id : 0..(nextMsg - 1), init : BOOLEAN, on : Conn \cup {0}]
               /\ Lasts(p)
    <2>1. rc[p] \in [id : 0..(nextMsg - 1), init : BOOLEAN, on : Conn \cup {0}]
      BY <1>1
    <2>2. rc'[p] = [rc[p] EXCEPT !.on = 0]
      BY <1>1
    <2>3. rc'[p].id = rc[p].id /\ rc'[p] \in [id : 0..(nextMsg - 1), init : BOOLEAN, on : Conn \cup {0}]
      BY <2>1, <2>2
    <2>4. rc[p] = NoContext => rc'[p] = NoContext
      BY <2>2 DEF NoContext
    <2> QED
      BY <2>3, <2>4 DEF Lasts
  <1> QED
    BY <1>1, <1>2

(* The connection is replaced. *)
LEMMA ReconnectStep ==
    ASSUME IndInv, Reconnect
    PROVE  IndInv'
  <1> USE DEF IndInv
  <1>1. /\ UNCHANGED <<env, stored, requests, held, nextMsg, up, srv, ran, updates, stale, loose, added>>
        /\ Reconnected /\ conn' = conn + 1 /\ faults < MaxFaults /\ faults' = faults + 1
    BY DEF Reconnect, Reconnected, Fault
  <1>2. /\ rc' \in [All -> [id : 0..(nextMsg - 1), init : BOOLEAN, on : Conn \cup {0}]]
        /\ \A p \in All : Lasts(p)
    BY <1>1, ReconnectedKeeps
  <1>3. faults' \in 0..MaxFaults /\ conn' \in Conn /\ conn' <= updates + faults' + 1
    BY <1>1, ApiAssumption DEF TypeOK, Counted, Conn
  <1>4. TypeOK'
    BY <1>1, <1>2, <1>3 DEF TypeOK
  <1>5. Told'
    BY <1>1 DEF Told, OtherIsSent
  <1>6. Pending' = Pending
    BY <1>1 DEF Pending
  <1>7. Counted' /\ Contexts'
    BY <1>1, <1>2, <1>3, <1>6 DEF Counted, Contexts, Lasts
  <1>8. Ordered'
    <2>1. ToSet(requests)' \subseteq All
      BY <1>1, Types
    <2> QED
      BY <1>1, <1>2, <1>6, <2>1, Types, OrderedKept
  <1> QED
    BY <1>4, <1>5, <1>7, <1>8

(* contextApiEnvironmentUpdated and mtProtoApiEnvironmentUpdated:. *)
LEMMA EnvironmentStep ==
    ASSUME IndInv, NEW h \in Hash, NEW reset \in BOOLEAN, ApiEnvironmentUpdated(h, reset)
    PROVE  IndInv'
  <1> DEFINE r == updates + 1
  <1> USE DEF IndInv
  <1>1. /\ UNCHANGED <<stored, held, nextMsg, up, srv, ran, faults, loose, added>>
        /\ updates < MaxUpdates /\ env' = h /\ updates' = updates + 1
        /\ requests' = Append(requests, r)
        /\ (Reconnected /\ conn' = conn + 1) \/ UNCHANGED <<conn, rc>>
        /\ stale' = (stale \/ (h = stored /\ OtherIsSent(h)))
    BY DEF ApiEnvironmentUpdated, Reconnected
  <1>2. /\ updates' \in 0..MaxUpdates /\ updates \in Nat /\ r \in Noop /\ r \in All /\ r \notin 1..updates
        /\ r \notin added
    <2>1. updates \in 0..MaxUpdates /\ MaxUpdates \in Nat /\ added \subseteq Request
      BY ApiAssumption DEF TypeOK
    <2>2. r \in 1..MaxUpdates
      BY <1>1, <2>1
    <2> QED
      BY <1>1, <2>1, <2>2, ApiAssumption DEF All, Noop
  <1>3. r \notin ToSet(requests)
    BY <1>2 DEF TypeOK
  <1>4. requests' \in Seq(All) /\ IsInjective(requests') /\ ToSet(requests)' = ToSet(requests) \cup {r}
    BY <1>1, <1>2, <1>3, Types, AppendKeeps
  <1>5. /\ rc' \in [All -> [id : 0..(nextMsg - 1), init : BOOLEAN, on : Conn \cup {0}]]
        /\ \A p \in All : Lasts(p)
    <2>1. CASE Reconnected
      BY <2>1, ReconnectedKeeps
    <2>2. CASE rc' = rc
      BY <2>2 DEF Lasts, TypeOK
    <2> QED
      BY <1>1, <2>1, <2>2
  <1>6. conn' \in Conn /\ conn' <= updates' + faults + 1
    BY <1>1, <1>2, ApiAssumption DEF TypeOK, Counted, Conn
  <1>7. 1..updates' = 1..updates \cup {r}
    BY <1>1, <1>2
  <1>8. TypeOK'
    <2>1. stale' \in BOOLEAN
      BY <1>1 DEF OtherIsSent, TypeOK
    <2>2. ToSet(requests)' \subseteq added' \cup 1..updates'
      BY <1>1, <1>4, <1>7 DEF TypeOK
    <2>3. held' \subseteq ToSet(requests)'
      BY <1>1, <1>4 DEF TypeOK
    <2> HIDE DEF r
    <2> QED
      BY <1>1, <1>2, <1>4, <1>5, <1>6, <2>1, <2>2, <2>3 DEF TypeOK
  <1>9. Told'
    BY <1>1 DEF Told, OtherIsSent
  <1>10. Pending' = Pending
    BY <1>1 DEF Pending
  <1>11. Counted'
    BY <1>1, <1>6, <1>7, <1>10 DEF Counted
  <1>12. Contexts'
    BY <1>1, <1>4, <1>5 DEF Contexts, Lasts
  <1>13. rc[r] = NoContext /\ rc'[r] = NoContext /\ \A m \in Pending : m.req # r
    BY <1>2, <1>3, <1>5 DEF Contexts, Counted, Lasts
  <1>14. Ordered'
    <2> HIDE DEF r
    <2>1. \A p \in ToSet(requests) : Lasts(p)
      BY <1>5, Types
    <2> QED
      BY <1>1, <1>2, <1>3, <1>10, <1>13, <2>1, OrderedGrows
  <1> QED
    BY <1>8, <1>9, <1>11, <1>12, <1>14

(* receivedMessage, or messageDeliveryFailed, for an answer to request r. *)
Taken(x, r) ==
    /\ stored' = StoredHash(r, x.how)
    /\ stale' = (stale \/ (x.how = "ok" /\ rc[r].init /\ OtherIsSent(env)))
    /\ \/ /\ x.how \in {"ok", "error", "notInited"} /\ Without(r)
       \/ /\ x.how \in {"flood", "rejected"}
          /\ rc' = [rc EXCEPT ![r] = NoContext]
          /\ held' = IF x.how = "flood" THEN held \cup {r} ELSE held
          /\ UNCHANGED requests

(* What an answer leaves of the requests and their contexts. *)
LEMMA TakenKeeps ==
    ASSUME IndInv, NEW x \in Answer, NEW r \in ToSet(requests), Taken(x, r)
    PROVE  /\ requests' \in Seq(All) /\ IsInjective(requests')
           /\ ToSet(requests)' \subseteq ToSet(requests)
           /\ \A p, q \in ToSet(requests)' : Follows(requests', q, p) <=> Follows(requests, q, p)
           /\ held' \subseteq ToSet(requests)'
           /\ rc' \in [All -> [id : 0..(nextMsg - 1), init : BOOLEAN, on : Conn \cup {0}]]
           /\ \A p \in All : Lasts(p) /\ (rc'[p] # NoContext => p \in ToSet(requests)' /\ rc'[p].id >= 1)
  <1>1. CASE Without(r)
    BY <1>1, WithoutKeeps
  <1>2. CASE /\ rc' = [rc EXCEPT ![r] = NoContext]
             /\ held' = IF x.how = "flood" THEN held \cup {r} ELSE held
             /\ UNCHANGED requests
    <2>1. /\ r \in All /\ NoContext \in [id : 0..(nextMsg - 1), init : BOOLEAN, on : Conn \cup {0}]
          /\ rc \in [All -> [id : 0..(nextMsg - 1), init : BOOLEAN, on : Conn \cup {0}]]
      BY Types DEF Counted, IndInv
    <2>2. rc' \in [All -> [id : 0..(nextMsg - 1), init : BOOLEAN, on : Conn \cup {0}]]
      BY <1>2, <2>1
    <2>3. rc'[r] = NoContext /\ \A p \in All : p # r => rc'[p] = rc[p]
      BY <1>2, <2>1
    <2>4. \A p \in All : Lasts(p) /\ (rc'[p] # NoContext => p \in ToSet(requests)' /\ rc'[p].id >= 1)
      BY <1>2, <2>3 DEF Lasts, Contexts, IndInv
    <2>5. held' \subseteq ToSet(requests)'
      BY <1>2 DEF IndInv, TypeOK
    <2> QED
      BY <1>2, <2>2, <2>4, <2>5 DEF IndInv, TypeOK
  <1> QED
    BY <1>1, <1>2 DEF Taken

(* An answer comes, to a request in the list or to none. *)
LEMMA AnswerStep ==
    ASSUME IndInv, NEW x \in srv.out, ReceivedAnswer(x)
    PROVE  IndInv'
  <1> USE DEF IndInv
  <1>1. /\ UNCHANGED <<env, nextMsg, conn, up, ran, updates, faults, loose, added>>
        /\ srv' = [srv EXCEPT !.out = @ \ {x}]
    BY DEF ReceivedAnswer
  <1>2. x \in Answer
    BY DEF TypeOK
  <1>3. \/ UNCHANGED <<stored, requests, rc, held, stale>>
        \/ \E r \in ToSet(requests) : Taken(x, r)
    BY DEF ReceivedAnswer, Taken
  <1>4. /\ srv' \in [env : Hash \cup {0}, seen : SUBSET Nat, todo : SUBSET Message,
                     out : SUBSET Answer, ended : SUBSET [id : Nat, how : How]]
        /\ srv'.env = srv.env /\ srv'.todo = srv.todo /\ srv'.ended = srv.ended
    BY <1>1 DEF TypeOK
  <1>5. Pending' = Pending
    BY <1>1, <1>4 DEF Pending
  <1>6. CASE UNCHANGED <<stored, requests, rc, held, stale>>
    <2>1. TypeOK'
      BY <1>1, <1>4, <1>6 DEF TypeOK
    <2>2. Told'
      BY <1>1, <1>4, <1>6 DEF Told, OtherIsSent
    <2>3. Counted' /\ Contexts'
      BY <1>1, <1>4, <1>5, <1>6 DEF Counted, Contexts
    <2>4. Ordered'
      BY <1>1, <1>4, <1>5, <1>6, Types, OrderedKept DEF Lasts
    <2> QED
      BY <2>1, <2>2, <2>3, <2>4
  <1>7. CASE \E r \in ToSet(requests) : Taken(x, r)
    <2>1. PICK r \in ToSet(requests) : Taken(x, r)
      BY <1>7
    <2>2. /\ requests' \in Seq(All) /\ IsInjective(requests')
          /\ ToSet(requests)' \subseteq ToSet(requests)
          /\ \A p, q \in ToSet(requests)' : Follows(requests', q, p) <=> Follows(requests, q, p)
          /\ held' \subseteq ToSet(requests)'
          /\ rc' \in [All -> [id : 0..(nextMsg - 1), init : BOOLEAN, on : Conn \cup {0}]]
          /\ \A p \in All : Lasts(p) /\ (rc'[p] # NoContext => p \in ToSet(requests)' /\ rc'[p].id >= 1)
      BY <1>2, <2>1, TakenKeeps
    <2>3. /\ stored' = StoredHash(r, x.how)
          /\ stale' = (stale \/ (x.how = "ok" /\ rc[r].init /\ OtherIsSent(env)))
      BY <2>1 DEF Taken
    <2>4. stored' \in Hash \cup {0} /\ stale' \in BOOLEAN
      BY <2>3 DEF StoredHash, TypeOK, OtherIsSent
    <2>5. TypeOK'
      BY <1>1, <1>4, <2>2, <2>4 DEF TypeOK
    <2>6. Told'
      <3>1. OtherIsSent(env)' <=> OtherIsSent(env)
        BY <1>1, <1>4 DEF OtherIsSent
      <3>2. env # 0
        BY ApiAssumption DEF TypeOK
      <3> QED
        BY <1>1, <2>3, <3>1, <3>2 DEF Told, StoredHash
    <2>7. Counted' /\ Contexts'
      BY <1>1, <1>4, <1>5, <2>2 DEF Counted, Contexts
    <2>8. Ordered'
      <3>1. ToSet(requests)' \subseteq All
        BY <2>2, Types
      <3> QED
        BY <1>1, <1>4, <1>5, <2>2, <3>1, OrderedKept
    <2> QED
      BY <2>5, <2>6, <2>7, <2>8
  <1> QED
    BY <1>3, <1>6, <1>7

-----------------------------------------------------------------------------
(*                         The steps of the server                         *)

(* A step of the server or of the network that takes messages off a        *)
(* connection, and ends none well.                                         *)
LEMMA ServerKeeps ==
    ASSUME IndInv,
           UNCHANGED <<env, stored, requests, rc, held, nextMsg, conn, ran, updates,
                       stale, loose, added>>,
           faults' \in {faults, faults + 1}, faults' \in 0..MaxFaults,
           up' \in [Conn -> Seq(Message)],
           \A c \in Conn : ToSet(up'[c]) \subseteq ToSet(up[c]),
           srv' \in [env : Hash \cup {0}, seen : SUBSET Nat, todo : SUBSET Message,
                     out : SUBSET Answer, ended : SUBSET [id : Nat, how : How]],
           \/ srv'.env \in {srv.env, 0}
           \/ \E c \in Conn : \E m \in ToSet(up[c]) : srv'.env = m.init,
           srv'.todo \subseteq Pending,
           \A x \in srv'.ended : \/ x \in srv.ended
                                 \/ x.how # "ok" /\ \E m \in Pending : x.id = m.id
    PROVE  IndInv'
  <1> USE DEF IndInv
  <1>1. TypeOK'
    BY DEF TypeOK
  <1>2. Told'
    BY <1>1, ToldKept
  <1>3. Pending' \subseteq Pending
    BY PendingIs DEF Pending
  <1>4. Counted'
    <2>1. /\ conn \in Int /\ updates \in Int /\ faults \in Int
      BY ApiAssumption DEF TypeOK, Conn
    <2>2. conn' <= updates' + faults' + 1
      BY <2>1 DEF Counted
    <2>3. \A x \in srv'.ended : x.id < nextMsg
      BY Types DEF Counted
    <2> QED
      BY <1>3, <2>2, <2>3 DEF Counted
  <1>5. Contexts'
    BY DEF Contexts
  <1>6. Ordered'
    BY <1>3, Types, OrderedKept DEF Lasts
  <1> QED
    BY <1>1, <1>2, <1>4, <1>5, <1>6

(* The server forgets the environment. *)
LEMMA ForgetStep ==
    ASSUME IndInv, Forget
    PROVE  IndInv'
  <1>1. /\ UNCHANGED <<env, stored, requests, rc, held, nextMsg, conn, up, ran, updates,
                       stale, loose, added>>
        /\ faults < MaxFaults /\ faults' = faults + 1 /\ srv' = [srv EXCEPT !.env = 0]
    BY DEF Forget, Fault
  <1>2. /\ srv' \in [env : Hash \cup {0}, seen : SUBSET Nat, todo : SUBSET Message,
                     out : SUBSET Answer, ended : SUBSET [id : Nat, how : How]]
        /\ srv'.env = 0 /\ srv'.todo = srv.todo /\ srv'.ended = srv.ended
    BY <1>1 DEF IndInv, TypeOK
  <1>3. faults' \in 0..MaxFaults /\ up \in [Conn -> Seq(Message)]
    BY <1>1, ApiAssumption DEF IndInv, TypeOK
  <1>4. srv'.todo \subseteq Pending
    BY <1>2, PendingIs
  <1> QED
    BY <1>1, <1>2, <1>3, <1>4, ServerKeeps

(* The rest of a replaced connection is lost. *)
LEMMA LoseStep ==
    ASSUME IndInv, NEW c \in Conn, LoseRest(c)
    PROVE  IndInv'
  <1>1. /\ UNCHANGED <<env, stored, requests, rc, held, nextMsg, conn, srv, ran, updates,
                       faults, stale, loose, added>>
        /\ up' = [up EXCEPT ![c] = <<>>]
    BY DEF LoseRest
  <1>2. up \in [Conn -> Seq(Message)] /\ faults \in 0..MaxFaults
    BY DEF IndInv, TypeOK
  <1>3. up' \in [Conn -> Seq(Message)]
    BY <1>1, <1>2
  <1>4. \A d \in Conn : ToSet(up'[d]) \subseteq ToSet(up[d])
    <2>1. ToSet(<<>>) = {}
      BY DEF ToSet
    <2>2. up'[c] = <<>> /\ \A d \in Conn : d # c => up'[d] = up[d]
      BY <1>1, <1>2
    <2> QED
      BY <2>1, <2>2
  <1>5. srv.todo \subseteq Pending
    BY PendingIs
  <1> QED
    BY <1>1, <1>2, <1>3, <1>4, <1>5, ServerKeeps DEF IndInv, TypeOK

(* A message arrives. *)
LEMMA ReceiveStep ==
    ASSUME IndInv, NEW c \in Conn, Receive(c)
    PROVE  IndInv'
  <1> DEFINE m == Head(up[c])
             SrvType == [env : Hash \cup {0}, seen : SUBSET Nat, todo : SUBSET Message,
                         out : SUBSET Answer, ended : SUBSET [id : Nat, how : How]]
  <1>1. /\ UNCHANGED <<env, stored, requests, rc, held, nextMsg, conn, ran, updates, stale, loose, added>>
        /\ up[c] # <<>> /\ up' = [up EXCEPT ![c] = Tail(@)]
    BY DEF Receive
  <1>2. /\ up \in [Conn -> Seq(Message)] /\ faults \in 0..MaxFaults /\ srv \in SrvType
        /\ MaxFaults \in Nat
    BY ApiAssumption DEF IndInv, TypeOK
  <1>3. up[c] \in Seq(Message)
    BY <1>2
  <1>4. /\ Tail(up[c]) \in Seq(Message) /\ m \in Message
        /\ m \in ToSet(up[c]) /\ ToSet(Tail(up[c])) \subseteq ToSet(up[c])
    BY <1>1, <1>3, TailSet
  <1>5. /\ up' \in [Conn -> Seq(Message)]
        /\ \A d \in Conn : ToSet(up'[d]) \subseteq ToSet(up[d])
    <2>1. up' \in [Conn -> Seq(Message)]
      BY <1>1, <1>2, <1>4
    <2>2. up'[c] = Tail(up[c]) /\ \A d \in Conn : d # c => up'[d] = up[d]
      BY <1>1, <1>2
    <2> QED
      BY <2>1, <2>2, <1>4
  <1>6. m \in Pending /\ srv.todo \subseteq Pending
    BY <1>4, PendingIs
  <1>7. \/ m.id \in srv.seen /\ UNCHANGED <<srv, faults>>
        \/ /\ faults < MaxFaults /\ faults' = faults + 1
           /\ srv' = [srv EXCEPT
                 !.seen = @ \cup {m.id}, !.ended = @ \cup {Ended(m, "rejected")},
                 !.out = @ \cup {[id |-> m.id, how |-> "rejected", init |-> 0]}]
        \/ /\ UNCHANGED faults
           /\ srv' = [srv EXCEPT
                 !.seen = @ \cup {m.id}, !.ended = @ \cup {Ended(m, "notInited")},
                 !.out = @ \cup {[id |-> m.id, how |-> "notInited", init |-> 0]}]
        \/ /\ UNCHANGED faults
           /\ srv' = [srv EXCEPT !.seen = @ \cup {m.id}, !.todo = @ \cup {m},
                                 !.env = IF m.init # 0 THEN m.init ELSE @]
    BY DEF Receive, Fault
  <1> HIDE DEF m
  <1>8. m.id \in Nat /\ m.init \in Hash \cup {0}
    BY <1>4 DEF Message
  <1>9. /\ faults' \in {faults, faults + 1} /\ faults' \in 0..MaxFaults
        /\ srv' \in SrvType /\ srv'.env \in {srv.env, m.init}
        /\ srv'.todo \subseteq srv.todo \cup {m}
        /\ \A x \in srv'.ended : x \in srv.ended \/ (x.how # "ok" /\ x.id = m.id)
    <2>1. CASE UNCHANGED <<srv, faults>>
      BY <2>1, <1>2
    <2>2. ASSUME NEW how \in {"rejected", "notInited"},
                 srv' = [srv EXCEPT
                   !.seen = @ \cup {m.id}, !.ended = @ \cup {Ended(m, how)},
                   !.out = @ \cup {[id |-> m.id, how |-> how, init |-> 0]}]
          PROVE  /\ srv' \in SrvType /\ srv'.env = srv.env /\ srv'.todo = srv.todo
                 /\ \A x \in srv'.ended : x \in srv.ended \/ (x.how # "ok" /\ x.id = m.id)
      <3>1. Ended(m, how) \in [id : Nat, how : How] /\ Ended(m, how).how # "ok" /\ Ended(m, how).id = m.id
        BY <1>8 DEF Ended, How
      <3>2. [id |-> m.id, how |-> how, init |-> 0] \in Answer
        BY <1>8 DEF Answer, How
      <3>3. /\ srv'.env = srv.env /\ srv'.todo = srv.todo
            /\ srv'.ended = srv.ended \cup {Ended(m, how)}
            /\ srv' \in SrvType
        BY <2>2, <3>1, <3>2, <1>2, <1>8
      <3> QED
        BY <3>1, <3>3
    <2>3. CASE /\ UNCHANGED faults
               /\ srv' = [srv EXCEPT !.seen = @ \cup {m.id}, !.todo = @ \cup {m},
                                     !.env = IF m.init # 0 THEN m.init ELSE @]
      <3>1. /\ srv' \in SrvType /\ srv'.env \in {srv.env, m.init}
            /\ srv'.todo = srv.todo \cup {m} /\ srv'.ended = srv.ended
        BY <2>3, <1>2, <1>4, <1>8
      <3> QED
        BY <3>1, <2>3, <1>2
    <2> QED
      BY <1>2, <1>7, <2>1, <2>2, <2>3
  <1> QED
    BY <1>1, <1>4, <1>5, <1>6, <1>9, ServerKeeps

(* A message that may be executed waits for no message of the chain. *)
LEMMA NotBlocked ==
    ASSUME IndInv, NEW m \in srv.todo, m.after = 0 \/ After(m, {"ok"}),
           NEW q, NEW K \in SUBSET (1..(nextMsg - 1)), NEW L \in SUBSET (1..(nextMsg - 1)),
           Blocks(q, K, L)
    PROVE  m.id \notin K
  <1> SUFFICES ASSUME m.id \in K PROVE FALSE
    OBVIOUS
  <1>1. m \in Pending
    BY PendingIs
  <1>2. m.after \in K \cup L
    BY <1>1 DEF Blocks
  <1>3. m.after # 0
    BY <1>2
  <1>4. PICK x \in srv.ended : x.id = m.after /\ x.how = "ok"
    BY <1>3 DEF After
  <1> QED
    BY <1>2, <1>4 DEF Blocks

(* A message is executed, or fails. *)
LEMMA ExecuteStep ==
    ASSUME IndInv, NEW m \in srv.todo, Execute(m)
    PROVE  IndInv'
  <1> DEFINE SrvType == [env : Hash \cup {0}, seen : SUBSET Nat, todo : SUBSET Message,
                         out : SUBSET Answer, ended : SUBSET [id : Nat, how : How]]
             End(how) == srv' = [srv EXCEPT !.todo = @ \ {m}, !.ended = @ \cup {Ended(m, how)},
                            !.out = @ \cup {[id |-> m.id, how |-> how, init |-> m.init]}]
  <1>1. UNCHANGED <<env, stored, requests, rc, held, nextMsg, conn, up, updates, stale, loose, added>>
    BY DEF Execute
  <1>2. /\ up \in [Conn -> Seq(Message)] /\ faults \in 0..MaxFaults /\ srv \in SrvType
        /\ MaxFaults \in Nat
    BY ApiAssumption DEF IndInv, TypeOK
  <1>3. m \in Message /\ m \in Pending /\ srv.todo \subseteq Pending
    BY <1>2, PendingIs
  <1>4. m.id \in Nat /\ m.init \in Hash \cup {0} /\ m.req \in All
    BY <1>3 DEF Message
  <1>5. \/ /\ m.after = 0 \/ After(m, {"ok"})
           /\ ran' = ran \cup {m.req} /\ UNCHANGED faults /\ End("ok")
        \/ /\ UNCHANGED ran /\ (UNCHANGED faults \/ (faults < MaxFaults /\ faults' = faults + 1))
           /\ \E how \in {"flood", "error"} : End(how)
    BY DEF Execute, Fault
  <1>6. ASSUME NEW how \in How, End(how)
        PROVE  /\ srv' \in SrvType /\ srv'.env = srv.env /\ srv'.todo \subseteq srv.todo
               /\ \A x \in srv'.ended : x \in srv.ended \/ (x.how = how /\ x.id = m.id)
    <2>1. /\ Ended(m, how) \in [id : Nat, how : How]
          /\ Ended(m, how).how = how /\ Ended(m, how).id = m.id
      BY <1>4 DEF Ended
    <2>2. [id |-> m.id, how |-> how, init |-> m.init] \in Answer
      BY <1>4 DEF Answer
    <2>3. /\ srv' \in SrvType /\ srv'.env = srv.env /\ srv'.todo \subseteq srv.todo
          /\ srv'.ended = srv.ended \cup {Ended(m, how)}
      BY <1>6, <2>1, <2>2, <1>2
    <2> QED
      BY <2>1, <2>3
  <1>7. CASE /\ UNCHANGED ran /\ (UNCHANGED faults \/ (faults < MaxFaults /\ faults' = faults + 1))
             /\ \E how \in {"flood", "error"} : End(how)
    <2>1. PICK how \in {"flood", "error"} : End(how)
      BY <1>7
    <2>2. how \in How /\ how # "ok"
      BY DEF How
    <2> HIDE DEF End
    <2>3. /\ srv' \in SrvType /\ srv'.env = srv.env /\ srv'.todo \subseteq srv.todo
          /\ \A x \in srv'.ended : x \in srv.ended \/ (x.how = how /\ x.id = m.id)
      BY <1>6, <2>1, <2>2
    <2>4. faults' \in {faults, faults + 1} /\ faults' \in 0..MaxFaults
      BY <1>7, <1>2
    <2> QED
      BY <1>1, <1>2, <1>3, <1>7, <2>2, <2>3, <2>4, ServerKeeps
  <1>8. CASE /\ m.after = 0 \/ After(m, {"ok"})
             /\ ran' = ran \cup {m.req} /\ UNCHANGED faults /\ End("ok")
    <2>1. /\ srv' \in SrvType /\ srv'.env = srv.env /\ srv'.todo \subseteq srv.todo
          /\ \A x \in srv'.ended : x \in srv.ended \/ (x.how = "ok" /\ x.id = m.id)
      <3>1. "ok" \in How
        BY DEF How
      <3> HIDE DEF End
      <3> QED
        BY <1>6, <1>8, <3>1
    <2> USE DEF IndInv
    <2>2. TypeOK'
      BY <1>1, <1>4, <1>8, <2>1 DEF TypeOK
    <2>3. Told'
      BY <1>1, <1>8, <2>1 DEF Told, OtherIsSent
    <2>4. Pending' \subseteq Pending
      BY <1>1, <2>1 DEF Pending
    <2>5. Counted'
      BY <1>1, <1>3, <1>8, <2>1, <2>4, Types DEF Counted
    <2>6. Contexts'
      BY <1>1 DEF Contexts
    <2>7. Ordered'
      <3> SUFFICES ASSUME loose = {}, NEW q \in (Chain \cap ToSet(requests)) \ ran'
                   PROVE  \E K \in SUBSET (1..(nextMsg - 1)) : \E L \in SUBSET (1..(nextMsg - 1)) :
                            Blocks(q, K, L)'
        BY <1>1 DEF Ordered
      <3>1. q \notin ran /\ q # m.req
        BY <1>8
      <3>2. PICK K \in SUBSET (1..(nextMsg - 1)), L \in SUBSET (1..(nextMsg - 1)) : Blocks(q, K, L)
        BY <3>1 DEF Ordered
      <3>3. m.id \notin K
        BY <1>8, <3>2, NotBlocked
      <3>4. m.id \notin L
        BY <1>3, <3>1, <3>2 DEF Blocks
      <3>5. Blocks(q, K, L)'
        <4>1. \A x \in srv'.ended : x.how = "ok" => x \in srv.ended \/ x.id \notin K \cup L
          BY <2>1, <3>3, <3>4
        <4>2. \A p \in ToSet(requests)' : p \in ToSet(requests) /\ Lasts(p)
          BY <1>1 DEF Lasts
        <4> HIDE DEF IndInv
        <4> QED
          BY <1>1, <2>4, <3>2, <4>1, <4>2, BlocksKept
      <3> QED
        BY <3>5
    <2> QED
      BY <2>2, <2>3, <2>5, <2>6, <2>7
  <1> QED
    BY <1>5, <1>7, <1>8

-----------------------------------------------------------------------------
(*                            A transaction                                *)

(* What the transaction sends for a request. *)
Sent(r) ==
    [id |-> NewIds[r], req |-> r, init |-> IF env # stored THEN env ELSE 0,
     after |-> InvokeAfter(r, NewIds)]

(* The message that invokeAfterMsg names. *)
LEMMA InvokeAfterIs ==
    ASSUME TypeOK, Contexts, nextMsg >= 1, NEW r \in ToSet(requests)
    PROVE  /\ InvokeAfter(r, NewIds) \in Nat
           /\ \/ InvokeAfter(r, NewIds) = 0
              \/ \E p \in Earlier(r) : \/ p \in Fresh /\ InvokeAfter(r, NewIds) = NewIds[p]
                                       \/ rc[p] # NoContext /\ InvokeAfter(r, NewIds) = rc[p].id
           /\ Earlier(r) # {} => \/ \E p \in Earlier(r) : rc[p] # NoContext \/ p \in Fresh
                                 \/ Earlier(r) \cap held # {} /\ InvokeAfter(r, NewIds) = 0
           /\ (\E p \in Earlier(r) : rc[p] # NoContext \/ p \in Fresh) => InvokeAfter(r, NewIds) # 0
  <1> DEFINE e == {p \in Earlier(r) : rc[p] # NoContext \/ p \in Sendable}
             a == InvokeAfter(r, NewIds)
             n == CHOOSE p \in e : TRUE
  <1>1. /\ ToSet(requests) \subseteq All /\ Earlier(r) \subseteq ToSet(requests)
        /\ nextMsg \in Nat /\ \A p \in All : rc[p].id \in 0..(nextMsg - 1)
    BY Types, EarlierIs
  <1>2. a = IF e = {} THEN 0 ELSE IF rc[n] # NoContext THEN rc[n].id ELSE NewIds[n]
    BY DEF InvokeAfter
  <1>3. e # {} => n \in e
    OBVIOUS
  <1>4. \A p \in Sendable : rc[p] = NoContext => p \in Fresh
    BY DEF Fresh
  <1>5. \A p \in Fresh : NewIds[p] \in Nat /\ NewIds[p] >= nextMsg /\ p \in Sendable
    BY NewIdsAre
  <1>6. \A p \in All : rc[p] # NoContext => rc[p].id >= 1
    BY DEF Contexts
  <1>7. e = {} => a = 0
    BY <1>2
  <1>8. e # {} => /\ n \in Earlier(r)
                  /\ \/ n \in Fresh /\ a = NewIds[n]
                     \/ rc[n] # NoContext /\ a = rc[n].id
    BY <1>2, <1>3, <1>4
  <1> HIDE DEF a, n
  <1>9. e # {} => a \in Nat /\ a # 0
    BY <1>1, <1>5, <1>6, <1>8
  <1>10. ASSUME NEW p \in Earlier(r), rc[p] = NoContext, p \notin Fresh
         PROVE  p \in held
    BY <1>1, <1>10 DEF Fresh, Sendable, NoContext
  <1>11. (\E p \in Earlier(r) : rc[p] # NoContext \/ p \in Fresh) <=> e # {}
    BY <1>4, <1>5
  <1> HIDE DEF e
  <1> QED
    BY <1>7, <1>8, <1>9, <1>10, <1>11 DEF a

(* What a transaction changes. *)
LEMMA TransactionIs ==
    ASSUME IndInv, MessageTransaction
    PROVE  /\ UNCHANGED <<env, stored, requests, held, conn, srv, ran, updates, faults, stale, added>>
           /\ nextMsg' = nextMsg + Cardinality(Fresh)
           /\ \A r \in Sendable : Sent(r) \in Message
           /\ up' \in [Conn -> Seq(Message)]
           /\ \A c \in Conn : \A m \in ToSet(up'[c]) :
                m \in ToSet(up[c]) \/ \E r \in Sendable : m = Sent(r)
           /\ \A r \in All : r \notin Sendable => rc'[r] = rc[r]
           /\ \A r \in Sendable : rc'[r].id = NewIds[r]
           /\ rc' \in [All -> [id : 0..(nextMsg' - 1), init : BOOLEAN, on : Conn \cup {0}]]
           /\ loose' = loose \cup {r \in Sendable : Earlier(r) \cap held # {}
                                                    /\ InvokeAfter(r, NewIds) = 0}
  <1> DEFINE Context == [id : 0..(nextMsg - 1), init : BOOLEAN, on : Conn \cup {0}]
  <1>1. /\ UNCHANGED <<env, stored, requests, held, conn, srv, ran, updates, faults, stale, added>>
        /\ nextMsg' = nextMsg + Cardinality(Fresh)
        /\ rc' = [r \in All |-> IF r \notin Sendable THEN rc[r]
                                ELSE [id |-> NewIds[r], init |-> env # stored, on |-> conn]]
        /\ loose' = loose \cup {r \in Sendable : Earlier(r) \cap held # {}
                                                 /\ InvokeAfter(r, NewIds) = 0}
        /\ \E q \in InOrder(Sendable) :
             up' = [up EXCEPT ![conn] = @ \o [i \in DOMAIN q |-> Sent(q[i])]]
    BY DEF MessageTransaction, Sent
  <1>w. PICK will : will = (env # stored) /\ will \in BOOLEAN
    BY Zenon
  <1>2. PICK q \in [1..Cardinality(Sendable) -> Sendable] :
          up' = [up EXCEPT ![conn] = @ \o [i \in DOMAIN q |-> Sent(q[i])]]
    BY <1>1 DEF InOrder
  <1> DEFINE n == Cardinality(Sendable)
             b == [i \in 1..n |-> Sent(q[i])]
  <1>3. /\ TypeOK /\ Contexts /\ nextMsg >= 1 /\ nextMsg \in Nat
        /\ ToSet(requests) \subseteq All /\ IsFiniteSet(ToSet(requests))
        /\ rc \in [All -> Context] /\ up \in [Conn -> Seq(Message)] /\ conn \in Conn
        /\ Sendable \subseteq ToSet(requests)
    BY Types DEF IndInv, Counted, Sendable
  <1>4. /\ Cardinality(Fresh) \in Nat
        /\ NewIds \in [Sendable -> 1..(nextMsg + Cardinality(Fresh) - 1)]
    BY <1>3, NewIdsAre
  <1>5. \A r \in Sendable : Sent(r) \in Message
    <2>1. \A r \in Sendable : InvokeAfter(r, NewIds) \in Nat
      BY <1>3, InvokeAfterIs
    <2>2. env \in Hash
      BY <1>3 DEF TypeOK
    <2>3. \A r \in Sendable : NewIds[r] \in Nat
      BY <1>4, <1>3
    <2> QED
      BY <1>3, <2>1, <2>2, <2>3 DEF Sent, Message
  <1>6. n \in Nat
    <2>1. IsFiniteSet(Sendable)
      BY <1>3, FS_Subset
    <2> QED
      BY <2>1, FS_CardinalityType
  <1> HIDE DEF n
  <1>7. b \in Seq(Message) /\ ToSet(b) \subseteq {Sent(r) : r \in Sendable}
    <2>1. \A i \in 1..n : q[i] \in Sendable
      BY DEF n
    <2>2. b \in [1..n -> Message]
      BY <2>1, <1>5
    <2>3. b \in Seq(Message)
      BY <1>6, <2>2
    <2>4. ToSet(b) \subseteq {Sent(r) : r \in Sendable}
      BY <2>1 DEF ToSet
    <2> QED
      BY <2>3, <2>4
  <1>8. up' = [up EXCEPT ![conn] = up[conn] \o b]
    BY <1>2 DEF n
  <1> HIDE DEF b
  <1>9. up[conn] \o b \in Seq(Message) /\ ToSet(up[conn] \o b) \subseteq ToSet(up[conn]) \cup ToSet(b)
    BY <1>3, <1>7, ConcatSet
  <1>10. up' \in [Conn -> Seq(Message)]
    BY <1>3, <1>8, <1>9
  <1>11. \A c \in Conn : \A m \in ToSet(up'[c]) :
           m \in ToSet(up[c]) \/ \E r \in Sendable : m = Sent(r)
    <2>1. up'[conn] = up[conn] \o b /\ \A c \in Conn : c # conn => up'[c] = up[c]
      BY <1>3, <1>8
    <2> QED
      BY <2>1, <1>7, <1>9
  <1>12. \A r \in All : r \notin Sendable => rc'[r] = rc[r]
    BY <1>1
  <1>13. \A r \in Sendable : rc'[r] = [id |-> NewIds[r], init |-> will, on |-> conn]
    BY <1>1, <1>3, <1>w, Zenon
  <1>14. rc' \in [All -> [id : 0..(nextMsg' - 1), init : BOOLEAN, on : Conn \cup {0}]]
    <2> DEFINE top == nextMsg + Cardinality(Fresh) - 1
    <2>1. 0..(nextMsg - 1) \subseteq 0..top /\ 1..top \subseteq 0..top /\ nextMsg' - 1 = top
      BY <1>1, <1>3, <1>4
    <2> HIDE DEF top
    <2>2. ASSUME NEW r \in All
          PROVE  rc'[r] \in [id : 0..top, init : BOOLEAN, on : Conn \cup {0}]
      <3>1. CASE r \in Sendable
        <4>1. NewIds[r] \in 0..top
          BY <3>1, <1>4, <2>1 DEF top
        <4>2. \A a \in 0..top : \A w \in BOOLEAN : \A c \in Conn :
                [id |-> a, init |-> w, on |-> c] \in [id : 0..top, init : BOOLEAN, on : Conn \cup {0}]
          OBVIOUS
        <4>3. [id |-> NewIds[r], init |-> will, on |-> conn]
                \in [id : 0..top, init : BOOLEAN, on : Conn \cup {0}]
          BY <4>1, <4>2, <1>3, <1>w
        <4>4. rc'[r] = [id |-> NewIds[r], init |-> will, on |-> conn]
          BY <3>1, <1>13
        <4> QED
          BY <4>3, <4>4
      <3>2. CASE r \notin Sendable
        <4>1. rc[r] \in Context
          BY <1>3
        <4> QED
          BY <3>2, <4>1, <1>12, <2>1
      <3> QED
        BY <3>1, <3>2
    <2>3. rc' = [r \in All |-> rc'[r]]
      BY <1>1
    <2> QED
      BY <2>1, <2>2, <2>3
  <1>15. \A r \in Sendable : rc'[r].id = NewIds[r]
    <2> SUFFICES ASSUME NEW r \in Sendable
                 PROVE  rc'[r].id = NewIds[r]
      OBVIOUS
    <2>1. rc'[r] = [id |-> NewIds[r], init |-> will, on |-> conn]
      BY <1>13
    <2>2. [id |-> NewIds[r], init |-> will, on |-> conn].id = NewIds[r]
      OBVIOUS
    <2> QED
      BY <2>1, <2>2
  <1> QED
    BY <1>1, <1>5, <1>10, <1>11, <1>12, <1>14, <1>15

(* With the new ids, the chain behind q still waits for q. *)
LEMMA BlocksGrows ==
    ASSUME IndInv, MessageTransaction, loose' = {},
           NEW q \in (Chain \cap ToSet(requests)) \ ran,
           NEW K \in SUBSET (1..(nextMsg - 1)), NEW L \in SUBSET (1..(nextMsg - 1)), Blocks(q, K, L)
    PROVE  \E M \in SUBSET (1..(nextMsg' - 1)) : \E N \in SUBSET (1..(nextMsg' - 1)) :
             Blocks(q, M, N)'
  <1> DEFINE behind == {r \in Fresh : r \in Chain /\ Follows(requests, q, r)}
  <1>1. /\ UNCHANGED <<env, stored, requests, held, conn, srv, ran, updates, faults, stale, added>>
        /\ nextMsg' = nextMsg + Cardinality(Fresh)
        /\ \A c \in Conn : \A m \in ToSet(up'[c]) :
                m \in ToSet(up[c]) \/ \E r \in Sendable : m = Sent(r)
        /\ \A r \in All : r \notin Sendable => rc'[r] = rc[r]
        /\ \A r \in Sendable : rc'[r].id = NewIds[r]
        /\ loose' = loose \cup {r \in Sendable : Earlier(r) \cap held # {}
                                                    /\ InvokeAfter(r, NewIds) = 0}
    BY TransactionIs
  <1>2. /\ TypeOK /\ Contexts /\ Counted /\ nextMsg >= 1 /\ nextMsg \in Nat
        /\ ToSet(requests) \subseteq All /\ Sendable \subseteq ToSet(requests)
        /\ \A r \in All : rc[r].id \in 0..(nextMsg - 1)
    BY Types DEF IndInv, Counted, Sendable
  <1>3. /\ Cardinality(Fresh) \in Nat
        /\ \A r \in Sendable : NewIds[r] \in 1..(nextMsg' - 1)
        /\ \A r \in Fresh : r \in Sendable /\ NewIds[r] >= nextMsg
        /\ \A r \in Sendable : r \notin Fresh => rc[r] # NoContext /\ NewIds[r] = rc[r].id
        /\ \A p, r \in Fresh : NewIds[p] = NewIds[r] => p = r
    BY <1>1, <1>2, NewIdsAre
  <1>4. \A x \in 1..(nextMsg - 1) : x \in 1..(nextMsg' - 1) /\ x < nextMsg
    BY <1>1, <1>2, <1>3
  <1>M. PICK M : M = K \cup {NewIds[r] : r \in behind}
    OBVIOUS
  <1>N. PICK N : N = L \cup {NewIds[r] : r \in {p \in Fresh : p = q}}
    OBVIOUS
  <1>5. M \in SUBSET (1..(nextMsg' - 1)) /\ N \in SUBSET (1..(nextMsg' - 1))
    BY <1>3, <1>4, <1>M, <1>N
  (* An old id is in M or N if it was in K or L, a new one by its request. *)
  <1>6. \A x : x < nextMsg => (x \in M <=> x \in K) /\ (x \in N <=> x \in L)
    <2>1. \A r \in Fresh : ~(NewIds[r] < nextMsg)
      BY <1>2, <1>3
    <2> QED
      BY <2>1, <1>M, <1>N
  <1>7. \A r \in Fresh : (NewIds[r] \in M <=> r \in behind) /\ (NewIds[r] \in N <=> r = q)
    <2>1. \A r \in Fresh : NewIds[r] \notin K /\ NewIds[r] \notin L
      BY <1>2, <1>3, <1>4
    <2> QED
      BY <2>1, <1>3, <1>M, <1>N
  <1>8. \A r \in ToSet(requests) : rc[r] # NoContext =>
          /\ rc[r].id < nextMsg
          /\ rc[r].id \in L <=> r = q
          /\ rc[r].id \in K <=> r \in Chain /\ Follows(requests, q, r)
    BY <1>2 DEF Blocks
  <1>9. \A r \in ToSet(requests) : rc[r] # NoContext =>
          /\ rc[r].id \in N <=> r = q
          /\ rc[r].id \in M <=> r \in Chain /\ Follows(requests, q, r)
    BY <1>6, <1>8
  <1>10. \A r \in Sendable : /\ NewIds[r] \in N <=> r = q
                             /\ NewIds[r] \in M <=> r \in Chain /\ Follows(requests, q, r)
    <2> SUFFICES ASSUME NEW r \in Sendable
                 PROVE  /\ NewIds[r] \in N <=> r = q
                        /\ NewIds[r] \in M <=> r \in Chain /\ Follows(requests, q, r)
      OBVIOUS
    <2>1. CASE r \in Fresh
      BY <2>1, <1>7
    <2>2. CASE r \notin Fresh
      BY <2>2, <1>2, <1>3, <1>9
    <2> QED
      BY <2>1, <2>2
  <1>11. \A r \in Sendable : Sent(r).id = NewIds[r] /\ Sent(r).req = r
                             /\ Sent(r).after = InvokeAfter(r, NewIds)
    BY DEF Sent
  (* The message of a request behind q waits for q or for another behind it. *)
  <1>12. ASSUME NEW r \in Sendable, r \in Chain, Follows(requests, q, r)
         PROVE  InvokeAfter(r, NewIds) \in M \cup N
    <2> DEFINE a == InvokeAfter(r, NewIds)
    <2>1. r \in ToSet(requests)
      BY <1>2
    <2>2. /\ Earlier(r) # {}
          /\ \A p \in Earlier(r) : /\ p \in ToSet(requests) /\ p \in Chain
                                   /\ p = q \/ Follows(requests, q, p)
      BY <1>2, <1>12, <2>1, EarlierIs
    <2>3. ~(Earlier(r) \cap held # {} /\ a = 0)
      BY <1>1
    <2>4. /\ \/ a = 0
             \/ \E p \in Earlier(r) : \/ p \in Fresh /\ a = NewIds[p]
                                      \/ rc[p] # NoContext /\ a = rc[p].id
          /\ Earlier(r) # {} => \/ \E p \in Earlier(r) : rc[p] # NoContext \/ p \in Fresh
                                \/ Earlier(r) \cap held # {} /\ a = 0
          /\ (\E p \in Earlier(r) : rc[p] # NoContext \/ p \in Fresh) => a # 0
      BY <1>2, <2>1, InvokeAfterIs
    <2> HIDE DEF a
    <2>5. PICK p \in Earlier(r) : \/ p \in Fresh /\ a = NewIds[p]
                                  \/ rc[p] # NoContext /\ a = rc[p].id
      BY <2>2, <2>3, <2>4
    <2>6. CASE p \in Fresh /\ a = NewIds[p]
      BY <2>6, <2>2, <2>5, <1>3, <1>10 DEF a
    <2>7. CASE rc[p] # NoContext /\ a = rc[p].id
      BY <2>7, <2>2, <2>5, <1>9 DEF a
    <2> QED
      BY <2>5, <2>6, <2>7
  <1>13. ASSUME NEW m \in Pending
         PROVE  /\ m.id \in M => m.after \in M \cup N
                /\ m.id \in N <=> m.req = q
                /\ m.req \in Chain /\ Follows(requests, q, m.req) => m.id \in M
    <2>1. m.id < nextMsg
      BY <1>2 DEF Counted
    <2>2. /\ m.id \in K => m.after \in K \cup L
          /\ m.id \in L <=> m.req = q
          /\ m.req \in Chain /\ Follows(requests, q, m.req) => m.id \in K
      BY DEF Blocks
    <2>3. K \subseteq M /\ L \subseteq N
      BY <1>M, <1>N
    <2> QED
      BY <2>1, <2>2, <2>3, <1>6
  <1>14. \A m \in Pending' : m \in Pending \/ \E r \in Sendable : m = Sent(r)
    BY <1>1, PendingIs DEF Pending
  <1>15. ASSUME NEW m \in Pending'
         PROVE  /\ m.id \in M => m.after \in M \cup N
                /\ m.id \in N <=> m.req = q
                /\ m.req \in Chain /\ Follows(requests, q, m.req) => m.id \in M
    <2>1. CASE m \in Pending
      BY <2>1, <1>13
    <2>2. CASE \E r \in Sendable : m = Sent(r)
      <3>1. PICK r \in Sendable : m = Sent(r)
        BY <2>2
      <3>2. m.id = NewIds[r] /\ m.req = r /\ m.after = InvokeAfter(r, NewIds)
        BY <3>1, <1>11
      <3> QED
        BY <3>2, <1>10, <1>12
    <2> QED
      BY <1>14, <2>1, <2>2
  <1>16. ASSUME NEW p \in ToSet(requests), rc'[p] # NoContext
         PROVE  /\ rc'[p].id \in N <=> p = q
                /\ rc'[p].id \in M <=> p \in Chain /\ Follows(requests, q, p)
    <2>1. CASE p \in Sendable
      BY <2>1, <1>1, <1>10
    <2>2. CASE p \notin Sendable
      BY <2>2, <1>1, <1>2, <1>9, <1>16
    <2> QED
      BY <2>1, <2>2
  <1>17. \A x \in srv.ended : x.how = "ok" => x.id \notin M \cup N
    BY <1>2, <1>6 DEF Blocks, Counted
  <1>18. Blocks(q, M, N)'
    BY <1>1, <1>15, <1>16, <1>17 DEF Blocks
  <1> QED
    BY <1>5, <1>18

(* mtProtoMessageTransaction and its completion. *)
LEMMA TransactionStep ==
    ASSUME IndInv, MessageTransaction
    PROVE  IndInv'
  <1> USE DEF IndInv
  <1>1. /\ UNCHANGED <<env, stored, requests, held, conn, srv, ran, updates, faults, stale, added>>
        /\ nextMsg' = nextMsg + Cardinality(Fresh)
        /\ up' \in [Conn -> Seq(Message)]
        /\ \A c \in Conn : \A m \in ToSet(up'[c]) :
                m \in ToSet(up[c]) \/ \E r \in Sendable : m = Sent(r)
        /\ \A r \in All : r \notin Sendable => rc'[r] = rc[r]
        /\ \A r \in Sendable : rc'[r].id = NewIds[r]
        /\ rc' \in [All -> [id : 0..(nextMsg' - 1), init : BOOLEAN, on : Conn \cup {0}]]
        /\ loose' = loose \cup {r \in Sendable : Earlier(r) \cap held # {}
                                                    /\ InvokeAfter(r, NewIds) = 0}
    BY TransactionIs
  <1>2. /\ nextMsg >= 1 /\ nextMsg \in Nat
        /\ ToSet(requests) \subseteq All /\ Sendable \subseteq ToSet(requests)
        /\ ToSet(requests) \subseteq added \cup 1..updates
    BY Types DEF Counted, Sendable, TypeOK
  <1>3. Cardinality(Fresh) \in Nat /\ \A r \in Sendable : NewIds[r] \in 1..(nextMsg' - 1)
    BY <1>1, <1>2, NewIdsAre
  <1>4. nextMsg' \in Nat /\ nextMsg' >= nextMsg
    BY <1>1, <1>2, <1>3
  <1>5. TypeOK'
    <2>1. loose' \subseteq Request
      <3>1. ASSUME NEW r \in Sendable, Earlier(r) \cap held # {}
            PROVE  r \in Request
        <4>1. Earlier(r) = {} \/ r \in Chain
          BY DEF Earlier
        <4> QED
          BY <3>1, <4>1, Types
      <3> QED
        BY <1>1, <3>1 DEF TypeOK
    <2> QED
      BY <1>1, <1>4, <2>1 DEF TypeOK
  <1>6. \A r \in Sendable : /\ Sent(r).init \in {0, env} /\ Sent(r).id \in 1..(nextMsg' - 1)
                            /\ Sent(r).req = r
    BY <1>3 DEF Sent
  <1>7. Told'
    <2>1. \A c \in Conn : \A m \in ToSet(up'[c]) : m \in ToSet(up[c]) \/ m.init \in {0, env}
      BY <1>1, <1>6
    <2> QED
      BY <1>1, <1>5, <2>1, ToldKept
  <1>8. \A m \in Pending' : m \in Pending \/ \E r \in Sendable : m = Sent(r)
    BY <1>1, PendingIs DEF Pending
  <1>9. Counted'
    <2>1. \A m \in Pending' : m.id \in 1..(nextMsg' - 1) /\ m.req \in added \cup 1..updates
      <3>1. \A x \in Nat : x \in 1..(nextMsg - 1) => x \in 1..(nextMsg' - 1)
        <4>1. nextMsg \in Nat /\ nextMsg' \in Nat /\ nextMsg' >= nextMsg
          BY <1>2, <1>4
        <4> HIDE DEF IndInv
        <4> DEFINE new == nextMsg'
        <4>2. new \in Nat /\ nextMsg <= new
          BY <4>1
        <4> HIDE DEF new
        <4>3. \A x \in Nat : x \in 1..(nextMsg - 1) => x \in 1..(new - 1)
          BY <4>1, <4>2
        <4> QED
          BY <4>3 DEF new
      <3> QED
        BY <1>2, <1>6, <1>8, <3>1 DEF Counted
    <2>2. \A x \in srv.ended : x.id < nextMsg'
      <3>1. \A x \in srv.ended : x.id \in Nat
        BY DEF TypeOK
      <3> QED
        BY <3>1, <1>2, <1>4 DEF Counted
    <2> QED
      BY <1>1, <1>2, <1>4, <2>1, <2>2 DEF Counted
  <1>10. Contexts'
    <2>1. \A r \in Sendable : rc'[r].id >= 1
      BY <1>1, <1>3
    <2> QED
      BY <1>1, <1>2, <2>1 DEF Contexts
  <1>11. Ordered'
    <2> SUFFICES ASSUME loose' = {}, NEW q \in (Chain \cap ToSet(requests)) \ ran
                 PROVE  \E M \in SUBSET (1..(nextMsg' - 1)) : \E N \in SUBSET (1..(nextMsg' - 1)) :
                          Blocks(q, M, N)'
      BY <1>1 DEF Ordered
    <2>1. loose = {}
      BY <1>1
    <2>2. PICK K \in SUBSET (1..(nextMsg - 1)), L \in SUBSET (1..(nextMsg - 1)) : Blocks(q, K, L)
      BY <2>1 DEF Ordered
    <2> HIDE DEF IndInv
    <2> QED
      BY <2>2, BlocksGrows
  <1> QED
    BY <1>5, <1>7, <1>9, <1>10, <1>11

-----------------------------------------------------------------------------
(*                              The theorems                               *)

(* The invariant holds at the start. *)
LEMMA InitInv ==
    ASSUME Init
    PROVE  IndInv
  <1>1. /\ env \in Hash /\ stored \in Hash \cup {0}
        /\ requests = <<>> /\ rc = [r \in All |-> NoContext] /\ held = {}
        /\ nextMsg = 1 /\ conn = 1 /\ up = [c \in Conn |-> <<>>]
        /\ srv = [env |-> stored, seen |-> {}, todo |-> {}, out |-> {}, ended |-> {}]
        /\ ran = {} /\ updates = 0 /\ faults = 0 /\ stale = FALSE /\ loose = {} /\ added = {}
    BY DEF Init
  <1>2. ToSet(<<>>) = {}
    BY DEF ToSet
  <1>3. /\ MaxUpdates \in Nat /\ MaxFaults \in Nat /\ 1 \in Conn
    BY ApiAssumption DEF Conn
  <1>4. TypeOK
    <2>1. requests \in Seq(All) /\ IsInjective(requests)
      BY <1>1 DEF IsInjective
    <2>2. rc \in [All -> [id : 0..(nextMsg - 1), init : BOOLEAN, on : Conn \cup {0}]]
      BY <1>1 DEF NoContext
    <2>3. up \in [Conn -> Seq(Message)]
      BY <1>1
    <2>4. srv \in [env : Hash \cup {0}, seen : SUBSET Nat, todo : SUBSET Message,
                   out : SUBSET Answer, ended : SUBSET [id : Nat, how : How]]
      BY <1>1
    <2>5. held \subseteq ToSet(requests) /\ ToSet(requests) \subseteq added \cup 1..updates
      BY <1>1, <1>2
    <2>6. stale \in BOOLEAN
      BY <1>1
    <2>7. updates \in 0..MaxUpdates /\ faults \in 0..MaxFaults /\ nextMsg \in Nat /\ conn \in Conn
      BY <1>1, <1>3
    <2>8. env \in Hash /\ stored \in Hash \cup {0} /\ ran = {} /\ loose = {} /\ added = {}
      BY <1>1
    <2> QED
      BY <2>1, <2>2, <2>3, <2>4, <2>5, <2>6, <2>7, <2>8 DEF TypeOK
  <1>5. \A c \in Conn : ToSet(up[c]) = {}
    BY <1>1, <1>2
  <1>6. Told
    BY <1>1, <1>5 DEF Told, OtherIsSent
  <1>7. Pending = {}
    <2>1. srv.todo = {}
      BY <1>1
    <2> QED
      BY <1>5, <2>1, PendingIs
  <1>8. Counted
    BY <1>1, <1>7 DEF Counted
  <1>9. Contexts
    BY <1>1 DEF Contexts
  <1>10. Ordered
    BY <1>1, <1>2 DEF Ordered
  <1> QED
    BY <1>4, <1>6, <1>8, <1>9, <1>10 DEF IndInv

(* Every step keeps it. *)
LEMMA NextInv ==
    ASSUME IndInv, [Next]_vars
    PROVE  IndInv'
  <1>1. ASSUME NEW r \in Request, AddRequest(r)
        PROVE  IndInv'
    BY <1>1, AddStep
  <1>2. ASSUME NEW r \in Request, RemoveRequest(r)
        PROVE  IndInv'
    BY <1>2, RemoveStep
  <1>3. ASSUME NEW h \in Hash, NEW reset \in BOOLEAN, ApiEnvironmentUpdated(h, reset)
        PROVE  IndInv'
    BY <1>3, EnvironmentStep
  <1>4. CASE MessageTransaction
    BY <1>4, TransactionStep
  <1>5. CASE Reconnect
    BY <1>5, ReconnectStep
  <1>6. CASE Timer
    BY <1>6, WaitStep DEF Timer
  <1>7. CASE Answers
    BY <1>7, AnswerStep DEF Answers
  <1>8. CASE Server
    BY <1>8, ReceiveStep, ExecuteStep DEF Server
  <1>9. CASE Forget
    BY <1>9, ForgetStep
  <1>10. ASSUME NEW c \in Conn, LoseRest(c)
         PROVE  IndInv'
    BY <1>10, LoseStep
  <1>11. CASE UNCHANGED vars
    <2> USE <1>11 DEF vars, IndInv
    <2>1. TypeOK' /\ Contexts'
      BY DEF TypeOK, Contexts
    <2>2. Told'
      BY DEF Told, OtherIsSent
    <2>3. Pending' = Pending
      BY DEF Pending
    <2>4. Counted'
      BY <2>3 DEF Counted
    <2>5. Ordered'
      BY <2>3, Types, OrderedKept DEF Lasts
    <2> QED
      BY <2>1, <2>2, <2>4, <2>5
  <1> QED
    BY <1>1, <1>2, <1>3, <1>4, <1>5, <1>6, <1>7, <1>8, <1>9, <1>10, <1>11 DEF Next

(* The invariant: what is stored was told, ids and contexts fit together,  *)
(* and the chain behind a request waits for it.                            *)
THEOREM Invariance == Spec => []IndInv
  <1>1. Init => IndInv
    BY InitInv
  <1>2. IndInv /\ [Next]_vars => IndInv'
    BY NextInv
  <1> QED
    BY <1>1, <1>2, PTL DEF Spec

(* The state is well formed, and while decorateRequestData leaves          *)
(* initConnection out, the server has no other environment and gets none,  *)
(* except in the two cases that stale records.                             *)
THEOREM ToldIsStored == Spec => []StoredIsTold
  <1>1. IndInv => StoredIsTold
    BY DEF IndInv, Told, StoredIsTold
  <1> QED
    BY <1>1, Invariance, PTL

(* The request that a step executes. *)
InOrderStep ==
    \A r \in Chain \cap ToSet(requests) : r \in ran' \ ran =>
       \A p \in Chain \cap ToSet(requests) :
          Place(requests, p) < Place(requests, r) => p \in ran \/ loose # {}

(* What the server executes is never before its turn. *)
LEMMA ExecuteInOrder ==
    ASSUME IndInv, NEW m \in srv.todo, Execute(m)
    PROVE  InOrderStep
  <1> SUFFICES ASSUME NEW r \in Chain \cap ToSet(requests), r \in ran' \ ran,
                      NEW p \in Chain \cap ToSet(requests),
                      Place(requests, p) < Place(requests, r), p \notin ran, loose = {}
               PROVE  FALSE
    BY DEF InOrderStep
  <1>1. r = m.req /\ (m.after = 0 \/ After(m, {"ok"}))
    BY DEF Execute
  <1>2. Follows(requests, p, r)
    BY Types, FollowsByPlace DEF IndInv
  <1>3. PICK K \in SUBSET (1..(nextMsg - 1)), L \in SUBSET (1..(nextMsg - 1)) : Blocks(p, K, L)
    BY DEF IndInv, Ordered
  <1>4. m \in Pending
    BY PendingIs
  <1>5. m.id \in K
    BY <1>1, <1>2, <1>3, <1>4 DEF Blocks
  <1>6. m.id \notin K
    BY <1>1, <1>3, NotBlocked
  <1> QED
    BY <1>5, <1>6

(* Requests that depend on each other are executed in the order they were  *)
(* added, unless one was sent while the other was held back.               *)
THEOREM InOrderAlways == Spec => OrderKept
  <1>1. IndInv /\ [Next]_vars => [InOrderStep]_vars
    <2> SUFFICES ASSUME IndInv, [Next]_vars
                 PROVE  InOrderStep \/ UNCHANGED vars
      BY DEF vars
    <2>1. ran' = ran => InOrderStep
      BY DEF InOrderStep
    <2>2. ASSUME NEW m \in srv.todo, Execute(m)
          PROVE  InOrderStep
      BY <2>2, ExecuteInOrder
    <2>3. CASE \E r \in Request : AddRequest(r) \/ RemoveRequest(r)
      BY <2>1, <2>3 DEF AddRequest, RemoveRequest
    <2>4. CASE \E h \in Hash, reset \in BOOLEAN : ApiEnvironmentUpdated(h, reset)
      BY <2>1, <2>4 DEF ApiEnvironmentUpdated
    <2>5. CASE MessageTransaction \/ Reconnect \/ Timer \/ Answers \/ Forget
      BY <2>1, <2>5 DEF MessageTransaction, Reconnect, Timer, WaitIsOver, Answers, ReceivedAnswer, Forget
    <2>6. CASE (\E c \in Conn : Receive(c)) \/ \E c \in Conn : LoseRest(c)
      BY <2>1, <2>6 DEF Receive, LoseRest
    <2>7. CASE UNCHANGED vars
      BY <2>7
    <2> QED
      BY <2>2, <2>3, <2>4, <2>5, <2>6, <2>7 DEF Next, Server
  <1>2. OrderKept <=> [][InOrderStep]_vars
    BY DEF OrderKept, InOrderStep
  <1> QED
    BY <1>1, <1>2, Invariance, PTL DEF Spec
=============================================================================
